-------------------------- MODULE ServiceMutation --------------------------
(***************************************************************************)
(* `fez services start|stop|restart|reload|enable|disable`: the gates      *)
(* before anything happens, the audit record, the connection, the          *)
(* escalation and the systemd calls, with systemd on the other side.       *)
(*                                                                         *)
(* Composes Escalation, and through it BridgeCall: a call may be lost,     *)
(* performed after its caller gave up, or kill fez when it is written.     *)
(***************************************************************************)
EXTENDS Naturals, Sequences, FiniteSets

CONSTANTS Mechanisms, Safe, Lists, Overrides,   \* see Escalation
          Ops                                   \* the mutations considered

AllOps == {"start", "stop", "restart", "reload",
           "enable", "enable --now", "disable", "disable --now"}
Destructive == {"stop", "restart", "disable", "disable --now"}
Methods == {"StartUnit", "StopUnit", "RestartUnit", "ReloadUnit",
            "EnableUnitFiles", "DisableUnitFiles", "Reload"}
Calls == Methods \cup Mechanisms \cup {"Bridges"}

ASSUME OpsAssumption ==
  /\ Ops \subseteq AllOps
  /\ Methods \cap (Mechanisms \cup {"Bridges"}) = {}

ASSUME EscalationAssumption ==
  /\ Safe \subseteq Mechanisms
  /\ Lists \subseteq Seq(Mechanisms)
  /\ "Bridges" \notin Mechanisms

VARIABLES
  ran, answer,                     \* the calls, as in BridgeCall
  forced, advertised, esc, rest,   \* the escalation, as in Escalation
  req,       \* the request: operation, flags, whether the unit is a valid name and protected
  stage,     \* where the invocation stands
  step,      \* the systemd call it is at
  consent,   \* the user answered the prompt with yes
  trail,     \* the audit records written
  exit,      \* how the invocation ends
  file,      \* whether the unit is enabled on disk
  cached     \* systemd's cached UnitFileState, as a Boolean

callVars == <<ran, answer>>
escVars == <<forced, advertised, esc, rest>>
userVars == <<req, consent>>
unitVars == <<file, cached>>
vars == <<callVars, escVars, userVars, unitVars, stage, step, trail, exit>>

Esc == INSTANCE Escalation
Transport == INSTANCE BridgeCall

Request == [op : Ops, valid : BOOLEAN, force : BOOLEAN, dryRun : BOOLEAN, protected : BOOLEAN,
            tty : BOOLEAN]

Stages == {"parsed", "prompt", "attempt", "connect", "escalate", "call", "wait",
           "result", "over"}
Exits == {"none", "ok", "Usage", "DryRun", "Protected", "Aborted", "AccessDenied", "Dbus",
          "failed", "killed"}

TypeOK ==
  /\ Esc!TypeOK
  /\ req \in Request
  /\ stage \in Stages
  /\ step \in 1..3
  /\ consent \in BOOLEAN
  /\ trail \in Seq({"attempt", "ok", "error"})
  /\ exit \in Exits
  /\ file \in BOOLEAN
  /\ cached \in BOOLEAN

Init ==
  /\ Esc!Init
  /\ req \in Request
  /\ stage = "parsed"
  /\ step = 1
  /\ consent = FALSE
  /\ trail = <<>>
  /\ exit = "none"
  /\ file \in BOOLEAN
  /\ cached \in BOOLEAN
-----------------------------------------------------------------------------
(* The systemd calls of each operation, in order. *)

\* Mutant of Enablement: systemd keeps its cached unit files.
EnablementNoReload(method, now, followup) ==
  IF now THEN <<method, followup>> ELSE <<method>>

\* execute_enablement
Enablement(method, now, followup) ==
  IF now THEN <<method, "Reload", followup>> ELSE <<method, "Reload">>

Work(op) ==
  CASE op = "start"         -> <<"StartUnit">>
    [] op = "stop"          -> <<"StopUnit">>
    [] op = "restart"       -> <<"RestartUnit">>
    [] op = "reload"        -> <<"ReloadUnit">>
    [] op = "enable"        -> Enablement("EnableUnitFiles", FALSE, "StartUnit")
    [] op = "enable --now"  -> Enablement("EnableUnitFiles", TRUE, "StartUnit")
    [] op = "disable"       -> Enablement("DisableUnitFiles", FALSE, "StopUnit")
    [] op = "disable --now" -> Enablement("DisableUnitFiles", TRUE, "StopUnit")

Method == Work(req.op)[step]
LastCall == step = Len(Work(req.op))
-----------------------------------------------------------------------------
(* Before the audited part. *)

End(how) ==
  /\ stage' = "over"
  /\ exit' = how

ShouldPrompt == req.op \in Destructive /\ req.tty /\ ~req.force

\* Mutant of Gate: the terminal is not looked at.
GateNoPrompt ==
  /\ stage = "parsed"
  /\ IF ~req.valid THEN End("Usage")
     ELSE IF req.protected /\ ~req.force THEN End("Protected")
     ELSE IF req.dryRun THEN End("DryRun")
     ELSE stage' = "attempt" /\ UNCHANGED exit
  /\ UNCHANGED <<callVars, escVars, userVars, unitVars, step, trail>>

\* The unit's name, then the policy on protected units, then the dry run, then the prompt.
Gate ==
  /\ stage = "parsed"
  /\ IF ~req.valid THEN End("Usage")
     ELSE IF req.protected /\ ~req.force THEN End("Protected")
     ELSE IF req.dryRun THEN End("DryRun")
     ELSE stage' = (IF ShouldPrompt THEN "prompt" ELSE "attempt") /\ UNCHANGED exit
  /\ UNCHANGED <<callVars, escVars, userVars, unitVars, step, trail>>

\* The answer; no answer is read as an error that ends the invocation the same way.
Confirm ==
  /\ stage = "prompt"
  /\ \/ consent' = TRUE /\ stage' = "attempt" /\ UNCHANGED exit
     \/ End("Aborted") /\ UNCHANGED consent
  /\ UNCHANGED <<callVars, escVars, req, unitVars, step, trail>>
-----------------------------------------------------------------------------
(* run_audited *)

\* Mutant of Attempt: the record is left to the end.
AttemptLate ==
  /\ stage = "attempt"
  /\ stage' = "connect"
  /\ UNCHANGED <<callVars, escVars, userVars, unitVars, step, trail, exit>>

Attempt ==
  /\ stage = "attempt"
  /\ trail' = Append(trail, "attempt")
  /\ stage' = "connect"
  /\ UNCHANGED <<callVars, escVars, userVars, unitVars, step, exit>>

\* Mutant of Result: the error itself is the record's result.
ResultVerbatim ==
  /\ stage = "result"
  /\ trail' = Append(trail, exit)
  /\ stage' = "over"
  /\ UNCHANGED <<callVars, escVars, userVars, unitVars, step, exit>>

\* The action's result goes on record; then it is rendered and fez exits.
Result ==
  /\ stage = "result"
  /\ trail' = Append(trail, IF exit = "ok" THEN "ok" ELSE "error")
  /\ stage' = "over"
  /\ UNCHANGED <<callVars, escVars, userVars, unitVars, step, exit>>

\* The action returns.
Return(how) ==
  /\ stage' = "result"
  /\ exit' = how

\* connect: the bridge is spawned and greeted, or not, or gone when `init` is written.
Connect ==
  /\ stage = "connect"
  /\ \/ stage' = "escalate" /\ UNCHANGED exit
     \/ Return("failed")
     \/ End("killed")
  /\ UNCHANGED <<callVars, escVars, userVars, unitVars, step, trail>>

Escalate ==
  /\ stage = "escalate"
  /\ Esc!Client
  /\ UNCHANGED <<userVars, unitVars, stage, step, trail, exit>>

\* Mutant of Escalated: the privileged channel is opened without a root peer.
EscalatedAnyway ==
  /\ stage = "escalate"
  /\ esc \in Esc!Ended
  /\ stage' = "call"
  /\ UNCHANGED <<callVars, escVars, userVars, unitVars, step, trail, exit>>

\* dbus_open_privileged: the open control is written and not answered.
Escalated ==
  /\ stage = "escalate"
  /\ CASE esc = "escalated" -> \/ stage' = "call" /\ UNCHANGED exit
                               \/ End("killed")
       [] esc = "denied"    -> Return("AccessDenied")
       [] esc = "dbus"      -> Return("Dbus")
       [] esc = "failed"    -> Return("failed")
       [] esc = "killed"    -> End("killed")
       [] OTHER             -> FALSE
  /\ UNCHANGED <<callVars, escVars, userVars, unitVars, step, trail>>

Call ==
  /\ stage = "call"
  /\ \/ Transport!Send(Method) /\ stage' = "wait" /\ UNCHANGED exit
     \/ Transport!SendKills(Method) /\ End("killed")
  /\ UNCHANGED <<escVars, userVars, unitVars, step, trail>>

\* Mutant of Answered: the replies before the last are not looked at.
AnsweredUnread ==
  /\ stage = "wait"
  /\ Transport!Return(Method)
  /\ IF ~LastCall THEN stage' = "call" /\ step' = step + 1 /\ UNCHANGED exit
     ELSE Return(ran[Method]) /\ UNCHANGED step
  /\ UNCHANGED <<escVars, userVars, unitVars, trail>>

\* The first call that is refused ends the action.
Answered ==
  /\ stage = "wait"
  /\ Transport!Return(Method)
  /\ IF ran[Method] = "ok" /\ ~LastCall
     THEN stage' = "call" /\ step' = step + 1 /\ UNCHANGED exit
     ELSE Return(ran[Method]) /\ UNCHANGED step
  /\ UNCHANGED <<escVars, userVars, unitVars, trail>>

\* Mutant of Unanswered: a silence is taken for consent.
UnansweredIsFine ==
  /\ stage = "wait"
  /\ Transport!Fail(Method)
  /\ Return("ok")
  /\ UNCHANGED <<escVars, userVars, unitVars, step, trail>>

\* Mutant of Unanswered: a wait without a deadline.
UnansweredNever == FALSE /\ UNCHANGED vars

\* A silence, the end of the bridge, or a channel closed with `access-denied`.
Unanswered ==
  /\ stage = "wait"
  /\ Transport!Fail(Method)
  /\ \E how \in {"failed", "AccessDenied"} : Return(how)
  /\ UNCHANGED <<escVars, userVars, unitVars, step, trail>>

Client ==
  \/ Gate
  \/ Confirm
  \/ Attempt
  \/ Connect
  \/ Escalate
  \/ Escalated
  \/ Call
  \/ Answered
  \/ Unanswered
  \/ Result
-----------------------------------------------------------------------------
(* The other side. *)

\* The bridge's superuser controller.
Superuser ==
  /\ Esc!Bridge
  /\ UNCHANGED <<userVars, unitVars, stage, step, trail, exit>>

\* systemd performs a call or refuses it.
Systemd(method, r) ==
  /\ Transport!Perform(method, r)
  /\ file' = (IF r = "Dbus" THEN file
              ELSE IF method = "EnableUnitFiles" THEN TRUE
              ELSE IF method = "DisableUnitFiles" THEN FALSE
              ELSE file)
  /\ cached' = (IF r = "ok" /\ method = "Reload" THEN file ELSE cached)
  /\ UNCHANGED <<escVars, userVars, stage, step, trail, exit>>

Over == stage = "over" /\ UNCHANGED vars

Next ==
  \/ Client
  \/ Superuser
  \/ \E method \in Methods, r \in {"ok", "Dbus"} : Systemd(method, r)
  \/ Over

\* BridgeClient ends every call, so the client goes on; nothing is assumed of systemd.
Spec == Init /\ [][Next]_vars
FairSpec == Spec /\ WF_vars(Client)
-----------------------------------------------------------------------------
(* Properties *)

Goal == {Work(req.op)[i] : i \in DOMAIN Work(req.op)}
Performed == {k \in Calls : ran[k] = "ok"}

\* Nothing is asked of the host that the gates should have stopped: not for a name that is
\* none, not for a protected unit without --force, not in a dry run, not before a user at
\* a terminal has agreed.
Gated ==
  (\E k \in Calls : answer[k] # "unsent") =>
    /\ req.valid
    /\ req.force \/ ~req.protected
    /\ ~req.dryRun
    /\ ShouldPrompt => consent

\* systemd acts for fez only behind a root peer, and it is asked for the second half of
\* an enablement only when the first half is in effect and loaded: a unit is never
\* started or stopped from files systemd has not read again.
LoadedFirst ==
  /\ Performed \cap Methods # {} => Esc!RootPeers # {}
  /\ req.op \in {"enable --now", "disable --now"} =>
       \A m \in {"StartUnit", "StopUnit"} :
         answer[m] # "unsent" => file = (req.op = "enable --now") /\ cached = file

\* A recorded or reported success is one: every call was performed, and after an
\* enablement systemd's cached state is the new one.
SuccessIsReal ==
  (exit = "ok" \/ trail = <<"attempt", "ok">>) =>
    /\ Goal \subseteq Performed
    /\ exit = "ok"
    /\ req.op \in {"enable", "enable --now"} => file /\ cached
    /\ req.op \in {"disable", "disable --now"} => ~file /\ ~cached

\* An outcome that says nothing was done says the truth, for good: after `Usage`,
\* `Protected`, `DryRun`, `Aborted` or an escalation that was denied no systemd call is on
\* its way.
RefusalIsFinal ==
  exit \in {"Usage", "Protected", "DryRun", "Aborted"} \/ (exit = "AccessDenied" /\ esc = "denied")
    => \A m \in Methods : answer[m] = "unsent"

\* A mutation that was attempted ends, with its result on record unless fez was killed.
AttemptEnds == trail # <<>> ~> (Len(trail) = 2 \/ exit = "killed")

\* The mutation keeps the promises of the audit trail.
Audit == INSTANCE AuditedMutation WITH
  Steps <- Methods,
  goal <- Goal,
  done <- Performed \cap Methods,
  trail <- trail

ImplementsAudit == Audit!Spec
=============================================================================
