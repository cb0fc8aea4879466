---------------------------- MODULE SystemReads ----------------------------
(***************************************************************************)
(* The read commands about the system: overview, metrics, sessions,        *)
(* firmware, subscription, services and the journal.                       *)
(***************************************************************************)
EXTENDS ReadSteps

Overview == <<Step("Describe"), Step("timedate1"), Step("locale1")>>
SystemShow == Flat("host", Overview)

\* One metrics channel (see BridgeClient); what a sample lacks is left out.
Metrics == Step("metrics1")
SystemMetrics == Flat("pcp", <<Metrics>>)

Logind == "login1"

\* A session's properties all have defaults; an entry that is no tuple is an error, and one
\* without a path is passed over.
SystemSessions ==
  [Loop(Logind, <<Step("ListSessions")>>, <<[Get("Session", {}) EXCEPT !.but = Lax]>>)
     EXCEPT !.row = {"session entry"}, !.passes = {"session path"}]

SystemUsers ==
  [Loop(Logind, <<Step("ListUsers")>>, <<>>) EXCEPT !.row = {"uid", "user"}, !.bad = "skip"]

SystemInhibitors ==
  [Loop(Logind, <<Step("ListInhibitors")>>, <<>>)
     EXCEPT !.row = {"what", "who", "why", "mode", "uid", "pid"}, !.bad = "skip"]

SystemBootEntries ==
  [Loop(Logind, <<LaxStep("BootLoaderEntries")>>, <<>>) EXCEPT !.row = {"entry"}, !.bad = "skip"]

Fwupd == "fwupd"

FirmwareList == [Loop(Fwupd, <<LaxStep("GetDevices")>>, <<>>) EXCEPT !.errors = AbsentMapped]

FirmwareSecurity ==
  [Loop(Fwupd, <<LaxStep("HostSecurityId"), LaxStep("GetHostSecurityAttrs")>>, <<>>)
     EXCEPT !.errors = AbsentMapped]

\* Only updatable devices are asked about.
FirmwareUpgrades ==
  [Loop(Fwupd, <<LaxStep("GetDevices")>>, <<[Get("GetUpgrades", {}) EXCEPT !.but = Lax]>>)
     EXCEPT !.errors = AbsentMapped, !.filters = TRUE]

\* Only the JSON in the strings may be anything.
GetString(call) == Step(call)
SystemSubscription ==
  [Flat("RHSM1", <<GetString("GetUuid"), GetString("GetStatus"), GetString("ListInstalledProducts"),
                   GetString("GetSyspurpose")>>)
     EXCEPT !.errors = AbsentMapped]

SystemCommands ==
     "system show"         :> <<SystemShow>>
  @@ "system metrics"      :> <<SystemMetrics>>
  @@ "system sessions"     :> <<SystemSessions>>
  @@ "system users"        :> <<SystemUsers>>
  @@ "system inhibitors"   :> <<SystemInhibitors>>
  @@ "system boot-entries" :> <<SystemBootEntries>>
  @@ "system subscription" :> <<SystemSubscription>>

FirmwareCommands ==
     "firmware list"     :> <<FirmwareList>>
  @@ "firmware security" :> <<FirmwareSecurity>>
  @@ "firmware upgrades" :> <<FirmwareUpgrades>>
-----------------------------------------------------------------------------
(* services *)

UnitProps == {"Unit Id", "Description", "LoadState", "ActiveState", "SubState", "UnitFileState"}
UnitRow == {"name", "description", "load_state", "active_state", "sub_state"}

\* All units are parsed before --state is looked at.
ServicesList ==
  [Loop("systemd1", <<Step("ListUnits")>>, <<>>) EXCEPT !.row = UnitRow]

ServicesListState == [ServicesList EXCEPT !.filters = TRUE, !.sieve = 1]

\* GetUnit finds loaded units only.
ServicesStatus ==
  [Flat("systemd1", <<>>) EXCEPT
     !.named = TRUE, !.checked = TRUE,
     !.each = <<[Get("GetUnit", {}) EXCEPT !.but = "NoObject" :> "NotFound"],
                [Get("Unit", UnitProps) EXCEPT !.but = Lax]>>]

\* journalctl; a line that does not decode is left out.
LogLine == {"__REALTIME_TIMESTAMP", "PRIORITY", "SYSLOG_IDENTIFIER", "MESSAGE", "_PID"}

ServicesLogs ==
  [Loop("journalctl", <<Step("journalctl")>>, <<>>)
     EXCEPT !.row = LogLine, !.bad = "skip", !.checked = TRUE, !.pages = "lines"]

ServicesCommands ==
     "services list"         :> <<ServicesList>>
  @@ "services list --state" :> <<ServicesListState>>
  @@ "services status"       :> <<ServicesStatus>>
  @@ "services logs"         :> <<ServicesLogs>>
-----------------------------------------------------------------------------
(* journal *)

JournalLine == LogLine \cup {"_HOSTNAME"}

JournalEntries ==
  [Loop("journalctl", <<Step("journalctl")>>, <<>>)
     EXCEPT !.row = JournalLine, !.bad = "skip", !.checked = TRUE, !.pages = "tail"]

JournalBoots ==
  [Loop("journalctl", <<Step("journalctl")>>, <<>>)
     EXCEPT !.row = {"index", "boot_id", "first_entry", "last_entry"}, !.bad = "skip", !.checked = TRUE]

JournalFields == [Loop("journalctl", <<Step("journalctl")>>, <<>>) EXCEPT !.checked = TRUE]

JournalCommands ==
     "journal"               :> <<JournalEntries>>
  @@ "journal --list-boots"  :> <<JournalBoots>>
  @@ "journal --list-fields" :> <<JournalFields>>
=============================================================================
