------------------------------ MODULE Dispatch ------------------------------
(***************************************************************************)
(* One invocation of fez, dispatched to the part that handles its command: *)
(* the firewall, a change of the host by one call (power, DNS flush) or a  *)
(* read.  The promises common to all commands are stated here once.        *)
(*                                                                         *)
(* ServiceMutation and PackageMutation are checked on their own.           *)
(***************************************************************************)
EXTENDS Integers, Sequences, FiniteSets

CONSTANTS
  Areas,                                \* the parts considered
  Mechanisms, Safe, Lists, Overrides,   \* see Escalation
  Zones, Services, Ports, Others, SessionItems, Carrier, Configs, Requests, MaxChanges,   \* see Firewall
  Queries, Presences, MaxMoves, Word    \* see Reads

ASSUME AreasAssumption == Areas \subseteq {"firewall", "host", "reads"}

VARIABLES
  area,         \* the part that handles the command
  stage, exit,  \* where it stands, and its outcome
  ran, answer, forced, advertised, esc, rest, req, trail,   \* of a change
  step, told, unreadable, runtime, permanent, default, panic, changes, touched, discarded, cut,
  able,
  q, present, alive, newest, prog, phase, pos, cur, left, rows, shown, reply, met, verdict

changeVars == <<ran, answer, forced, advertised, esc, rest, req, trail>>
firewallVars == <<step, told, unreadable, runtime, permanent, default, panic, changes, touched, discarded, cut>>
readVars == <<q, present, alive, newest, prog, phase, pos, cur, left, rows, shown, reply, met, verdict>>
vars == <<area, stage, exit, changeVars, firewallVars, able, readVars>>

FW == INSTANCE Firewall
HC == INSTANCE HostCall
RD == INSTANCE Reads

ASSUME FirewallAssumption == FW!FirewallParameters
ASSUME ReadsAssumption == RD!ReadsParameters
ASSUME ProgramsAssumption == RD!ProgramsFit   \* no constant occurs in it

\* The variables of the parts that the command does not concern.
NoChange ==
  /\ ran = <<>> /\ answer = <<>> /\ forced = "" /\ advertised = <<>> /\ esc = "idle" /\ rest = <<>>
  /\ req = <<>> /\ trail = <<>>

NoFirewall ==
  /\ step = 0 /\ told = <<>> /\ unreadable = FALSE /\ runtime = <<>> /\ permanent = <<>>
  /\ default = "none" /\ panic = FALSE /\ changes = 0 /\ touched = {} /\ discarded = {} /\ cut = "none"

NoRead ==
  /\ q = <<>> /\ present = {} /\ alive = {} /\ newest = 0 /\ prog = 0 /\ phase = "none" /\ pos = 0
  /\ cur = 0 /\ left = {} /\ rows = {} /\ shown = <<>> /\ reply = <<>> /\ met = {} /\ verdict = "none"

Init ==
  /\ area \in Areas
  /\ \/ area = "firewall" /\ FW!Init /\ able = FALSE /\ NoRead
     \/ area = "host" /\ HC!Init /\ NoFirewall /\ NoRead
     \/ area = "reads" /\ RD!Init /\ NoChange /\ NoFirewall /\ able = FALSE

\* dispatch::run; the parts' own steps follow.
Client ==
  \/ area = "firewall" /\ FW!Client /\ UNCHANGED <<area, able, readVars>>
  \/ area = "host" /\ HC!Client /\ UNCHANGED <<area, firewallVars, readVars>>
  \/ area = "reads" /\ RD!Client /\ UNCHANGED <<area, changeVars, firewallVars, able>>

Environment ==
  \/ area = "firewall" /\ (FW!Superuser \/ FW!Firewalld) /\ UNCHANGED <<area, able, readVars>>
  \/ area = "host" /\ (HC!Superuser \/ HC!Service) /\ UNCHANGED <<area, firewallVars, readVars>>
  \/ area = "reads" /\ RD!Host /\ UNCHANGED <<area, changeVars, firewallVars, able>>

Over == stage = "over" /\ UNCHANGED vars

Next == Client \/ Environment \/ Over

\* BridgeClient ends every call, so the client goes on; nothing is assumed of the host.
Spec == Init /\ [][Next]_vars
FairSpec == Spec /\ WF_vars(Client)
-----------------------------------------------------------------------------
(* Properties; each is described in the module it comes from. *)

\* Every part keeps to its types.
TypeOK ==
  /\ area = "firewall" => FW!TypeOK
  /\ area = "host" => HC!TypeOK
  /\ area = "reads" => RD!TypeOK

\* A comparison of firewalld's two configurations that shows no drift (compute_drift) is
\* right, but for what was changed after fez had read it.
DriftSeen == area = "firewall" => FW!DriftSeen

\* Without --force a firewall command does not cut off the session fez runs in, but for
\* a reload of rules it does not compare.
SessionKept == area = "firewall" => FW!SessionKept

\* Without --force `firewall reload` discards no work that fez could have known of.
ReloadKeeps == area = "firewall" => FW!ReloadKeeps

\* The host is changed only on record, behind the guards, with root where it is needed.
RefusalIsFinal ==
  /\ area = "firewall" => FW!RefusalIsFinal
  /\ area = "host" => HC!RefusalIsFinal

\* What a listing shows was there and asked for, and it misses nothing.
Faithful == area = "reads" => RD!Faithful

\* The pages of a listing neither miss a row nor repeat one.
PageExact == area = "reads" => RD!PageExact

\* An error of a read says what is the case.
ErrorsAreReal == area = "reads" => RD!ErrorsAreReal

Goal ==
  IF area = "reads" THEN {}
  ELSE IF area = "firewall" /\ req.op = "status" THEN {}
  ELSE {"change"}

Audit == INSTANCE AuditedMutation WITH
  Steps <- {"change"},
  goal <- Goal,
  done <- IF Goal # {} /\ ran["change"] = "ok" THEN {"change"} ELSE {},
  trail <- trail

\* Every change keeps the promises of the audit trail, and a read leaves none.
ImplementsAudit == Audit!Spec

\* Every command ends, whatever the host does.
InvocationEnds == <>(stage = "over")

\* "When uncommitted drift exists, reload is refused without `--force` since it would
\* lose that work." (docs/reference/firewall.md)
NothingDiscarded == area = "firewall" => FW!NothingDiscarded

\* "Returns the last 25 entries by default" (src/schema/journal.rs)
JournalNewest == area = "reads" => RD!JournalNewest

\* "Returns `NotFound` if the target device does not exist" (storage/reads.rs)
DeviceFound == area = "reads" => RD!DeviceFound
=============================================================================
