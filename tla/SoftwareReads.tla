--------------------------- MODULE SoftwareReads ---------------------------
(***************************************************************************)
(* The read commands about packages (dnf5daemon, or PackageKit where that  *)
(* is absent) and about the firewall's zones.                              *)
(***************************************************************************)
EXTENDS ReadSteps

(* packages: a record without its required fields is dropped, and counted in a hint. *)

PackageRecord == {"name", "evr", "arch"}
RepoRecord == {"id", "enabled"}

\* Only open_session tells that dnf5daemon is absent; a reply without a session path is
\* reported as a D-Bus error.
OpenSession == [Step("open_session") EXCEPT !.but = "NoService" :> "fallback" @@ "Odd" :> "Dbus"]

Dnf5(call) ==
  [Loop("dnf5daemon", <<OpenSession, LaxStep(call)>>, <<>>)
     EXCEPT !.row = PackageRecord, !.bad = "skip", !.closes = TRUE]

Dnf5List == [Dnf5("Rpm.list") EXCEPT !.filters = TRUE, !.sieve = 1, !.pages = "rows"]
Dnf5Info == [Dnf5("Rpm.list") EXCEPT !.until = TRUE, !.must = TRUE, !.filters = TRUE]
Dnf5Search == [Dnf5("Rpm.list") EXCEPT !.filters = TRUE]
Dnf5CheckUpdate == Dnf5("Rpm.list")
Dnf5Repolist == [Dnf5("Repo.list") EXCEPT !.row = RepoRecord, !.filters = TRUE, !.sieve = 1]

NewTransaction == LaxStep("CreateTransaction")

\* A call whose answer is a stream of signals, an ErrorCode among them an error.
Stream(call) == Step(call)

\* A signal that does not parse is dropped.
PackageKit(call) ==
  [Loop("PackageKit", <<NewTransaction, Stream(call)>>, <<>>)
     EXCEPT !.errors = ServiceMapped, !.row = {"package_id"}, !.bad = "skip"]

PkList == [PackageKit("GetPackages") EXCEPT !.filters = TRUE, !.sieve = 1, !.pages = "rows"]
PkInfo == [PackageKit("Resolve") EXCEPT !.until = TRUE, !.must = TRUE, !.filters = TRUE]
PkSearch == [PackageKit("SearchNames") EXCEPT !.filters = TRUE]
PkCheckUpdate == PackageKit("GetUpdates")
PkRepolist == [PackageKit("GetRepoList") EXCEPT !.row = RepoRecord, !.filters = TRUE, !.sieve = 1]

PackagesCommands ==
     "packages list"         :> <<Dnf5List, PkList>>
  @@ "packages info"         :> <<Dnf5Info, PkInfo>>
  @@ "packages search"       :> <<Dnf5Search, PkSearch>>
  @@ "packages check-update" :> <<Dnf5CheckUpdate, PkCheckUpdate>>
  @@ "packages repolist"     :> <<Dnf5Repolist, PkRepolist>>
-----------------------------------------------------------------------------
(* firewall: arg_str_vec and arg_bool take what they cannot read for empty. *)

Firewalld == "firewalld"
Zone(call) == [Get(call, {}) EXCEPT !.but = Lax]
RuntimeZone == <<Zone("getServices"), Zone("getPorts"), Zone("getMasquerade")>>

FirewallList ==
  [Loop(Firewalld, <<LaxStep("getZones"), LaxStep("getDefaultZone")>>, RuntimeZone \o <<Zone("getInterfaces")>>)
     EXCEPT !.errors = FirewallMapped, !.lists = 1]

\* The zone is looked for in the list before any call about it.
FirewallShow ==
  [Scan(Firewalld, <<LaxStep("getZones")>>, RuntimeZone \o <<Zone("getInterfaces"), Zone("getSources")>>)
     EXCEPT !.errors = FirewallMapped, !.sieve = 0]

FirewallServices == [Loop(Firewalld, <<LaxStep("listServices")>>, <<>>) EXCEPT !.errors = FirewallMapped]

FirewallCommands ==
     "firewall list"     :> <<FirewallList>>
  @@ "firewall show"     :> <<FirewallShow>>
  @@ "firewall services" :> <<FirewallServices>>
=============================================================================
