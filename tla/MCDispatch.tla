----------------------------- MODULE MCDispatch -----------------------------
(***************************************************************************)
(* Instances of Dispatch for TLC.                                          *)
(***************************************************************************)
EXTENDS Dispatch, ReadPrograms

AllAreas == {"firewall", "host", "reads"}
FirewallOnly == {"firewall"}
ReadsOnly == {"reads"}

Names == {"sudo"}
OneList == {<<"sudo">>}
NoOverride == {""}
-----------------------------------------------------------------------------
(* The firewall: two zones, one service that carries the session, one port. *)

MZones == {"public", "dmz"}
MServices == {"ssh"}
MPorts == {"8080/tcp"}
MOthers == {"rich"}
InZones(public, dmz) == [z \in MZones |-> IF z = "public" THEN public ELSE dmz]
MConfigs ==
  {[runtime |-> InZones({"ssh"}, {"ssh"}), permanent |-> InZones({"ssh"}, {"ssh"})],
   [runtime |-> InZones({"ssh", "masquerade"}, {"ssh"}), permanent |-> InZones({"ssh"}, {})],
   [runtime |-> InZones({"ssh"}, {"ssh"}), permanent |-> InZones({"ssh", "8080/tcp"}, {"ssh", "rich"})]}

Req(op, item, zone) ==
  [op |-> op, item |-> item, zone |-> zone, force |-> FALSE, valid |-> TRUE, home |-> "default"]
Forced(r) == [r EXCEPT !.force = TRUE]
FromDmz(r) == [r EXCEPT !.home = "dmz"]

Adds ==
  {Req("add", i, z) : i \in {"ssh", "masquerade"}, z \in {"none", "dmz"}} \cup {Req("add", "8080/tcp", "none")}
Removes == {Req("remove", i, z) : i \in {"ssh", "masquerade"}, z \in {"none", "dmz"}}
Plains == {Req(op, "none", "none") : op \in {"reload", "confirm", "panic off", "status"}}
Severing == {Req("set-default", "none", "dmz"), Req("panic on", "none", "none")}
Reload == Req("reload", "none", "none")

MRequests ==
  Adds \cup Removes \cup Plains \cup {FromDmz(Reload), Forced(Reload)}
    \cup {Forced(r) : r \in Removes \cup Severing}
    \cup {FromDmz(r) : r \in {Req("remove", "ssh", "dmz"), Req("remove", "masquerade", "dmz")} \cup Severing}
    \cup {[Req(op, i, "none") EXCEPT !.valid = FALSE] : op \in {"add", "remove"}, i \in {"ssh", "8080/tcp"}}
-----------------------------------------------------------------------------
(* The reads: two objects or three, of which the first may lack something. *)

Everywhere(s) == [o \in 1..3 |-> s]
AtFirst(s) == [o \in 1..3 |-> IF o = 1 THEN s ELSE {}]

\* What an object of the command may lack, and what may be odd of it: a property that is
\* passed over, or one of the others.
Program(name) == Programs[name][1]
Lackable(name) == {Program(name).each[i].needs : i \in DOMAIN Program(name).each} \ {"nothing"}
Readable(name) ==
  Program(name).row \cup UNION {Program(name).each[i].strict : i \in DOMAIN Program(name).each}
SomeOdd(name) ==
  {Program(name).passes} \cup {{p} : p \in IF Readable(name) = {} THEN {} ELSE {CHOOSE p \in Readable(name) : TRUE}}

Plain(name) ==
  [name |-> name, valid |-> TRUE, limit |-> -1, offset |-> 0, wanted |-> {1}, has |-> Everywhere({}),
   odd |-> Everywhere({}), start |-> 2, bytes |-> "array"]

\* One object or two others are asked for; the first of them lacks everything or nothing.
Usual(name) ==
  {[Plain(name) EXCEPT !.wanted = w, !.has = AtFirst(h), !.odd = AtFirst(odd)] :
     w \in {{1}, {2, 3}}, h \in {{}, Lackable(name)}, odd \in {{}} \cup SomeOdd(name)}

Pages ==
  {[Plain("packages list") EXCEPT !.start = 3, !.wanted = w, !.limit = l, !.offset = o] :
     w \in {{1, 2, 3}, {1, 3}}, l \in {-1, 0, 1, 2, Word - 1}, o \in {0, 1, 2, Word - 1}}

Lines ==
       {[Plain("journal") EXCEPT !.start = n, !.limit = l] : n \in {1, 3}, l \in 0..2}
  \cup {[Plain("services logs") EXCEPT !.limit = l] : l \in {-1, 1}}

Refused == {[Plain(name) EXCEPT !.valid = FALSE] : name \in {"journal", "services status"}}
Base64 == [Plain("storage show") EXCEPT !.bytes = "base64"]

MQueries ==
  UNION {Usual(name) : name \in DOMAIN Programs \ {"packages list", "journal", "services logs"}}
    \cup Pages \cup Lines \cup Refused \cup {Base64}

Primary ==
  {"UDisks2", "NetworkManager", "resolve1", "login1", "fwupd", "RHSM1", "systemd1", "dnf5daemon", "firewalld"}
Fallback == {"NetworkManager", "PackageKit"}
MPresences == {{}, Primary, Fallback}
=============================================================================
