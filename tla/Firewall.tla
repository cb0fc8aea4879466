------------------------------ MODULE Firewall ------------------------------
(***************************************************************************)
(* The firewall commands that change firewalld, and `fez firewall status`, *)
(* which compares its two configurations.  firewalld keeps a runtime and a *)
(* permanent configuration of every zone; fez reads a zone item kind by    *)
(* item kind, one call after the other, while other programs may change    *)
(* either, and decides by what it has read whether a reload would discard  *)
(* work.                                                                   *)
(*                                                                         *)
(* Composes Escalation, and through it BridgeCall.                         *)
(***************************************************************************)
EXTENDS Naturals, Sequences, FiniteSets

CONSTANTS
  Mechanisms, Safe, Lists, Overrides,   \* see Escalation
  Zones,
  Services, Ports,   \* the services and ports a zone can open
  Others,            \* what else a zone can hold: rich rules, sources, forwards
  SessionItems,      \* session_services and the labels of session_ports
  Carrier,           \* the item through which this very session reaches the host
  Configs,           \* the runtime and permanent configurations the host may start with
  Requests,          \* the requests considered
  MaxChanges         \* bound on the changes other programs make before fez's own

Compared == Services \cup Ports \cup {"masquerade"}
Items == Compared \cup Others

RuntimeReads == {"runtime getServices", "runtime getPorts", "runtime getMasquerade"}
PermanentReads ==
  {"getZoneByName", "permanent getServices", "permanent getPorts", "permanent getMasquerade"}
FwReads == {"getDefaultZone", "queryPanicMode"} \cup RuntimeReads \cup PermanentReads
FwCalls == FwReads \cup {"change"}
Calls == FwCalls \cup Mechanisms \cup {"Bridges"}

\* add and remove stand for the service, port and masquerade commands alike.
Zoned == {"add", "remove"}
Ops == Zoned \cup {"set-default", "reload", "confirm", "panic on", "panic off", "status"}

Request ==
  {r \in [op : Ops, item : Compared \cup {"none"}, zone : Zones \cup {"none"},
          force : BOOLEAN, valid : BOOLEAN, home : Zones \cup {"default"}] :
     /\ r.op \in Zoned <=> r.item # "none"
     /\ r.op = "set-default" => r.zone # "none"
     /\ r.zone # "none" => r.op \in Zoned \cup {"set-default"}
     /\ r.valid \/ r.item \in Services \cup Ports}

\* What the constants are; Dispatch assumes it.
FirewallParameters ==
  /\ Carrier \in SessionItems
  /\ SessionItems \subseteq Services \cup Ports
  /\ Services \cap Ports = {} /\ "masquerade" \notin Services \cup Ports
  /\ "none" \notin Zones \cup Items
  /\ "default" \notin Zones
  /\ Configs \subseteq [runtime : [Zones -> SUBSET Items], permanent : [Zones -> SUBSET Items]]
  /\ Requests \subseteq Request
  /\ MaxChanges \in Nat
  /\ FwCalls \cap (Mechanisms \cup {"Bridges"}) = {}
  /\ Safe \subseteq Mechanisms /\ Lists \subseteq Seq(Mechanisms) /\ "Bridges" \notin Mechanisms

VARIABLES
  ran, answer,                     \* the calls, as in BridgeCall
  forced, advertised, esc, rest,   \* the escalation, as in Escalation
  req,         \* the request, and the zone the session comes in by
  stage,       \* where the invocation stands
  step,        \* the call of Script it is at
  told,        \* what fez read in firewalld's replies, and what it dropped from them
  unreadable,  \* the permanent configuration was refused with a config.info denial
  trail,       \* the audit records written
  exit,        \* how the invocation ends
  runtime, permanent, default, panic,   \* firewalld: the zones, the default zone, panic mode
  changes,     \* how often other programs have changed it
  touched,     \* what they changed after fez had read it
  discarded,   \* what a reload by fez changed at runtime
  cut          \* the zone by which fez has cut off the session it runs in, if it has

callVars == <<ran, answer>>
escVars == <<forced, advertised, esc, rest>>
fezVars == <<req, stage, step, unreadable, trail, exit>>
hostVars == <<told, runtime, permanent, default, panic, changes, touched, discarded, cut>>
vars == <<callVars, escVars, fezVars, hostVars>>

Esc == INSTANCE Escalation
Transport == INSTANCE BridgeCall

Stages == {"connect", "escalate", "validate", "next", "wait", "attempt", "call", "result", "over"}
FwErrors == {"Dbus", "DependencyMissing", "UnsupportedApi"}
Exits == FwErrors \cup {"none", "ok", "Usage", "NotFound", "Protected", "AccessDenied", "failed", "killed"}

TypeOK ==
  /\ Esc!TypeOK
  /\ req \in Request
  /\ stage \in Stages
  /\ step \in 1..10
  /\ told \in [zone : Zones \cup {"none"}, runtime : SUBSET Compared, permanent : SUBSET Compared,
              dropped : SUBSET Compared]
  /\ unreadable \in BOOLEAN
  /\ trail \in Seq({"attempt", "ok", "error"})
  /\ exit \in Exits
  /\ runtime \in [Zones -> SUBSET Items]
  /\ permanent \in [Zones -> SUBSET Items]
  /\ default \in Zones
  /\ panic \in BOOLEAN
  /\ changes \in 0..MaxChanges
  /\ touched \subseteq Zones \X Items
  /\ discarded \subseteq Zones \X Items
  /\ cut \in Zones \cup {"none"}

Init ==
  /\ Esc!Init
  /\ req \in Requests
  /\ stage = "connect"
  /\ step = 1
  /\ told = [zone |-> "none", runtime |-> {}, permanent |-> {}, dropped |-> {}]
  /\ unreadable = FALSE
  /\ trail = <<>>
  /\ exit = "none"
  /\ \E c \in Configs : runtime = c.runtime /\ permanent = c.permanent
  /\ default \in Zones
  /\ panic = FALSE
  /\ changes = 0
  /\ touched = {}
  /\ discarded = {}
  /\ cut = "none"
-----------------------------------------------------------------------------
(* The calls of each command, in order. *)

Script ==
  CASE req.op = "status" ->
         <<"getDefaultZone", "queryPanicMode",
           "runtime getServices", "runtime getPorts", "runtime getMasquerade", "getZoneByName",
           "permanent getServices", "permanent getPorts", "permanent getMasquerade">>
    [] req.op = "reload" ->
         <<"getDefaultZone",
           "runtime getServices", "runtime getPorts", "runtime getMasquerade", "getZoneByName",
           "permanent getServices", "permanent getPorts", "permanent getMasquerade", "change">>
    [] req.op \in Zoned /\ req.zone = "none" -> <<"getDefaultZone", "change">>
    [] OTHER -> <<"change">>

At == Script[step]
Finished == step > Len(Script)
AfterReads == IF req.op = "reload" THEN Len(Script) ELSE Len(Script) + 1

\* effective_zone: the one asked for, or the default zone firewalld named.
Zone == IF req.zone # "none" THEN req.zone ELSE told.zone

\* Mutant of Drift: only what a reload would take away counts.
DriftPlus == told.runtime \ told.permanent

\* compute_drift: what is in one configuration of the zone and not in the other.
Drift == (told.runtime \ told.permanent) \cup (told.permanent \ told.runtime)

\* Mutant of Risky: an unreadable permanent configuration is taken for no drift.
RiskyIfSeen ==
  \/ req.op \in {"set-default", "panic on"}
  \/ req.op = "remove" /\ req.item \in SessionItems
  \/ req.op = "reload" /\ ~unreadable /\ Drift # {}

\* What the guards refuse without --force.
Risky ==
  \/ req.op \in {"set-default", "panic on"}
  \/ req.op = "remove" /\ req.item \in SessionItems \cup {"masquerade"}
  \/ req.op = "reload" /\ (unreadable \/ Drift # {})
-----------------------------------------------------------------------------
(* The client. *)

End(how) ==
  /\ stage' = "over"
  /\ exit' = how

\* Every mutation opens a privileged channel before it looks at its arguments.
Connect ==
  /\ stage = "connect"
  /\ \/ stage' = (IF req.op = "status" THEN "next" ELSE "escalate") /\ UNCHANGED exit
     \/ \E how \in {"failed", "killed"} : End(how)
  /\ UNCHANGED <<callVars, escVars, hostVars, req, step, unreadable, trail>>

Escalate ==
  /\ stage = "escalate"
  /\ Esc!Client
  /\ UNCHANGED <<hostVars, fezVars>>

Escalated ==
  /\ stage = "escalate"
  /\ CASE esc = "escalated" -> \/ stage' = (IF req.op = "status" THEN "next" ELSE "validate")
                                  /\ UNCHANGED exit
                               \/ End("killed")
       [] esc = "denied"    -> End("AccessDenied")
       [] esc = "dbus"      -> End("Dbus")
       [] esc \in {"failed", "killed"} -> End(esc)
       [] OTHER             -> FALSE
  /\ UNCHANGED <<callVars, escVars, hostVars, req, step, unreadable, trail>>

\* validate_firewall_service and parse_port_spec.
Validate ==
  /\ stage = "validate"
  /\ IF req.valid THEN stage' = "next" /\ UNCHANGED exit
     ELSE End(IF req.item \in Services THEN "Usage" ELSE "NotFound")
  /\ UNCHANGED <<callVars, escVars, hostVars, req, step, unreadable, trail>>

\* `status` is at the permanent configuration, which only a privileged channel may read.
NeedsRoot == req.op = "status" /\ At = "getZoneByName" /\ esc = "idle"

Raise ==
  /\ stage = "next"
  /\ ~Finished
  /\ NeedsRoot
  /\ stage' = "escalate"
  /\ UNCHANGED <<callVars, escVars, hostVars, req, step, unreadable, trail, exit>>

Send ==
  \/ Transport!Send(At) /\ stage' = "wait" /\ UNCHANGED exit
  \/ Transport!SendKills(At) /\ End("killed")

Ask ==
  /\ stage = "next"
  /\ ~Finished
  /\ At # "change"
  /\ ~NeedsRoot
  /\ Send
  /\ UNCHANGED <<escVars, hostVars, req, step, unreadable, trail>>

\* Mutant of Guard: --force is not looked at but for a reload.
GuardLax ==
  /\ stage = "next"
  /\ ~Finished
  /\ At = "change"
  /\ IF Risky /\ ~req.force /\ req.op = "reload" THEN End("Protected")
     ELSE stage' = "attempt" /\ UNCHANGED exit
  /\ UNCHANGED <<callVars, escVars, hostVars, req, step, unreadable, trail>>

Guard ==
  /\ stage = "next"
  /\ ~Finished
  /\ At = "change"
  /\ IF Risky /\ ~req.force THEN End("Protected")
     ELSE stage' = "attempt" /\ UNCHANGED exit
  /\ UNCHANGED <<callVars, escVars, hostVars, req, step, unreadable, trail>>

\* Mutant of Attempt: the record is left to the end.
AttemptLate ==
  /\ stage = "attempt"
  /\ stage' = "call"
  /\ UNCHANGED <<callVars, escVars, hostVars, req, step, unreadable, trail, exit>>

\* run_audited
Attempt ==
  /\ stage = "attempt"
  /\ trail' = Append(trail, "attempt")
  /\ stage' = "call"
  /\ UNCHANGED <<callVars, escVars, hostVars, req, step, unreadable, exit>>

Call ==
  /\ stage = "call"
  /\ Send
  /\ UNCHANGED <<escVars, hostVars, req, step, unreadable, trail>>

\* The call's outcome, when it is an error or the outcome of the change.
Return(how) ==
  /\ stage' = (IF At = "change" THEN "result" ELSE "over")
  /\ exit' = how

\* A reply.  A denial of the permanent configuration is not an error: the comparison
\* is given up and what it would have shown is taken for unknown.
Answered ==
  /\ stage = "wait"
  /\ Transport!Return(At)
  /\ \/ /\ ran[At] = "ok"
        /\ At # "change"
        /\ stage' = "next"
        /\ step' = step + 1
        /\ UNCHANGED <<unreadable, exit>>
     \/ /\ ran[At] = "ok"
        /\ At = "change"
        /\ Return("ok")
        /\ UNCHANGED <<unreadable, step>>
     \/ /\ ran[At] = "Dbus"
        /\ \E how \in FwErrors : Return(how)
        /\ UNCHANGED <<unreadable, step>>
     \/ /\ ran[At] = "Dbus"
        /\ At \in PermanentReads
        /\ unreadable' = TRUE
        /\ stage' = "next"
        /\ step' = AfterReads
        /\ UNCHANGED exit
  /\ UNCHANGED <<escVars, hostVars, req, trail>>

\* Mutant of Unanswered: a wait without a deadline.
UnansweredNever == FALSE /\ UNCHANGED vars

\* A silence, the end of the bridge, or a channel closed as not found or not supported
\* (DependencyMissing) or with `access-denied`.
Unanswered ==
  /\ stage = "wait"
  /\ Transport!Fail(At)
  /\ \E how \in {"failed", "AccessDenied", "DependencyMissing"} : Return(how)
  /\ UNCHANGED <<escVars, hostVars, req, step, unreadable, trail>>

Result ==
  /\ stage = "result"
  /\ trail' = Append(trail, IF exit = "ok" THEN "ok" ELSE "error")
  /\ stage' = "over"
  /\ UNCHANGED <<callVars, escVars, hostVars, req, step, unreadable, exit>>

\* build_status_view
Show ==
  /\ stage = "next"
  /\ Finished
  /\ End("ok")
  /\ UNCHANGED <<callVars, escVars, hostVars, req, step, unreadable, trail>>

Client ==
  \/ Connect
  \/ Escalate
  \/ Escalated
  \/ Validate
  \/ Raise
  \/ Ask
  \/ Guard
  \/ Attempt
  \/ Call
  \/ Answered
  \/ Unanswered
  \/ Result
  \/ Show
-----------------------------------------------------------------------------
(* The other side. *)

\* The bridge's superuser controller.
Superuser ==
  /\ Esc!Bridge
  /\ UNCHANGED <<hostVars, fezVars>>

Part(k) ==
  CASE k \in {"runtime getServices", "permanent getServices"}     -> Services
    [] k \in {"runtime getPorts", "permanent getPorts"}           -> Ports
    [] k \in {"runtime getMasquerade", "permanent getMasquerade"} -> {"masquerade"}
    [] OTHER                                                      -> {}

HomeZone(df) == IF req.home = "default" THEN df ELSE req.home
Reachable(rt, df, pn) == ~pn /\ Carrier \in rt[HomeZone(df)]

\* firewalld refuses a call.
Refuse(k) ==
  /\ Transport!Perform(k, "Dbus")
  /\ UNCHANGED <<escVars, fezVars, hostVars>>

\* What a read is about to say.
Held(k) ==
  CASE k \in RuntimeReads   -> runtime[told.zone] \cap Part(k)
    [] k \in PermanentReads -> permanent[told.zone] \cap Part(k)
    [] OTHER                -> {}

\* firewalld answers a read.  The entries that are not of the expected shape, all of them
\* if the reply is not, are dropped without a word.
Tell(k) ==
  /\ Transport!Perform(k, "ok")
  /\ \E odd \in SUBSET Held(k) :
       told' = [told EXCEPT
         !.zone = IF k = "getDefaultZone" THEN default ELSE @,
         !.runtime = IF k \in RuntimeReads THEN @ \cup (Held(k) \ odd) ELSE @,
         !.permanent = IF k \in PermanentReads THEN @ \cup (Held(k) \ odd) ELSE @,
         !.dropped = @ \cup odd]
  /\ UNCHANGED <<escVars, fezVars, runtime, permanent, default, panic, changes, touched, discarded, cut>>

\* firewalld performs the change fez asked for.
Apply ==
  /\ Transport!Perform("change", "ok")
  /\ runtime' = CASE req.op = "add"    -> [runtime EXCEPT ![Zone] = @ \cup {req.item}]
                  [] req.op = "remove" -> [runtime EXCEPT ![Zone] = @ \ {req.item}]
                  [] req.op = "reload" -> permanent
                  [] OTHER             -> runtime
  /\ permanent' = IF req.op = "confirm" THEN runtime ELSE permanent
  /\ default' = IF req.op = "set-default" THEN req.zone ELSE default
  /\ panic' = CASE req.op = "panic on"  -> TRUE
                [] req.op = "panic off" -> FALSE
                [] OTHER                -> panic
  /\ discarded' = IF req.op = "reload"
                  THEN {p \in Zones \X Items : (p[2] \in runtime[p[1]]) # (p[2] \in permanent[p[1]])}
                  ELSE discarded
  /\ cut' = IF Reachable(runtime, default, panic) /\ ~Reachable(runtime', default', panic')
            THEN HomeZone(default) ELSE cut
  /\ UNCHANGED <<escVars, fezVars, told, changes, touched>>

\* fez has read the item's part of that zone's runtime configuration.
Seen(z, i) ==
  /\ told.zone = z
  /\ \E k \in RuntimeReads : i \in Part(k) /\ ran[k] = "ok"

\* Another program, another fez or the end of a --timeout adds or removes an item in
\* either configuration.
Interfere(z, i) ==
  /\ changes < MaxChanges
  /\ ran["change"] = "no"
  /\ changes' = changes + 1
  /\ \/ /\ runtime' = [runtime EXCEPT ![z] = IF i \in @ THEN @ \ {i} ELSE @ \cup {i}]
        /\ UNCHANGED permanent
     \/ /\ permanent' = [permanent EXCEPT ![z] = IF i \in @ THEN @ \ {i} ELSE @ \cup {i}]
        /\ UNCHANGED runtime
  /\ touched' = IF Seen(z, i) THEN touched \cup {<<z, i>>} ELSE touched
  /\ UNCHANGED <<callVars, escVars, fezVars, told, default, panic, discarded, cut>>

\* Another program changes the default zone.
ChangeDefault ==
  /\ changes < MaxChanges
  /\ ran["change"] = "no"
  /\ changes' = changes + 1
  /\ default' \in Zones \ {default}
  /\ UNCHANGED <<callVars, escVars, fezVars, told, runtime, permanent, panic, touched, discarded, cut>>

Firewalld ==
  \/ \E k \in FwCalls : Refuse(k)
  \/ \E k \in FwReads : Tell(k)
  \/ Apply
  \/ \E z \in Zones, i \in Items : Interfere(z, i)
  \/ ChangeDefault

Over == stage = "over" /\ UNCHANGED vars

Next ==
  \/ Client
  \/ Superuser
  \/ Firewalld
  \/ Over

\* BridgeClient ends every call, so the client goes on; nothing is assumed of firewalld.
Spec == Init /\ [][Next]_vars
FairSpec == Spec /\ WF_vars(Client)
-----------------------------------------------------------------------------
(* Properties *)

\* The comparison cannot know of this item: it was changed after fez had read it, or
\* dropped from the reply.
Missed(p) == p \in touched \/ (p[1] = told.zone /\ p[2] \in told.dropped)

\* A comparison that shows no drift is right about the zone it read, although it is made
\* of six calls: whatever differs in what it compares was changed by someone else after
\* fez had read it, or fez could not read it.
DriftSeen ==
  answer["permanent getMasquerade"] = "ok" /\ ~unreadable /\ Drift = {} =>
    \A i \in Compared :
      (i \in runtime[told.zone]) # (i \in permanent[told.zone]) => Missed(<<told.zone, i>>)

\* Without --force fez does not cut off the session it runs in: not by the rule that
\* carries it, the default zone or panic mode, and by a reload only if the rule was
\* changed under its hands, came in a reply fez could not read or is one of a zone that is
\* not the default one.
SessionKept ==
  cut # "none" =>
    \/ req.force
    \/ req.op = "reload" /\ (cut # told.zone \/ Missed(<<cut, Carrier>>))

\* Without --force a reload discards nothing of the default zone's services, ports and
\* masquerading that fez could have known of; with an unreadable permanent
\* configuration it discards nothing at all.
ReloadKeeps ==
  ~req.force =>
    /\ unreadable => discarded = {}
    /\ \A p \in discarded : p[1] = told.zone /\ p[2] \in Compared => Missed(p)

\* firewalld is asked for a change only on record, behind a root peer and for a command
\* that passed the guards; an invocation that ended without a record never reaches it.
RefusalIsFinal ==
  answer["change"] # "unsent" =>
    /\ trail # <<>>
    /\ Esc!RootPeers # {}
    /\ req.op # "status" /\ req.valid
    /\ exit \notin {"Protected", "Usage", "NotFound"}

\* The command keeps the promises of the audit trail.
Audit == INSTANCE AuditedMutation WITH
  Steps <- {"change"},
  goal <- IF req.op = "status" THEN {} ELSE {"change"},
  done <- IF ran["change"] = "ok" THEN {"change"} ELSE {},
  trail <- trail

ImplementsAudit == Audit!Spec

\* The command ends, whatever firewalld does.
InvocationEnds == <>(stage = "over")

\* The documented reload, "When uncommitted drift exists, reload is refused without
\* `--force` since it would lose that work." (docs/reference/firewall.md): without
\* --force it discards nothing but what changed under its hands or came in a reply it could
\* not read.
NothingDiscarded ==
  ~req.force => \A p \in discarded : Missed(p)
=============================================================================
