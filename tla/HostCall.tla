------------------------------ MODULE HostCall ------------------------------
(***************************************************************************)
(* The audited changes made by one method call: `fez system reboot`,       *)
(* `poweroff` and `suspend` through logind, and `fez dns flush` through    *)
(* systemd-resolved.                                                       *)
(*                                                                         *)
(* A power action asks logind first whether it can, needs --force and a    *)
(* root peer, and takes the bridge with it when it succeeds: its reply may *)
(* never come.  A flush needs none of these.                               *)
(***************************************************************************)
EXTENDS Naturals, Sequences, FiniteSets

CONSTANTS Mechanisms, Safe, Lists, Overrides   \* see Escalation

Calls == Mechanisms \cup {"Bridges", "CanX", "change"}
Ops == {"reboot", "poweroff", "suspend", "flush"}
Power == Ops \ {"flush"}
Request == [op : Ops, force : BOOLEAN]

VARIABLES
  ran, answer,                     \* the calls, as in BridgeCall
  forced, advertised, esc, rest,   \* the escalation, as in Escalation
  req,      \* the request
  stage,    \* where the invocation stands
  able,     \* whether logind offers the action
  trail,    \* the audit records written
  exit      \* how the invocation ends

callVars == <<ran, answer>>
escVars == <<forced, advertised, esc, rest>>
fezVars == <<req, stage, trail, exit>>
vars == <<callVars, escVars, fezVars, able>>

Esc == INSTANCE Escalation
Transport == INSTANCE BridgeCall

Stages == {"connect", "ask", "asked", "escalate", "attempt", "call", "wait", "result", "over"}
Exits == {"none", "ok", "Protected", "AccessDenied", "DependencyMissing", "Dbus", "failed", "killed"}

TypeOK ==
  /\ Esc!TypeOK
  /\ req \in Request
  /\ stage \in Stages
  /\ able \in BOOLEAN
  /\ trail \in Seq({"attempt", "ok", "error"})
  /\ exit \in Exits

Init ==
  /\ Esc!Init
  /\ req \in Request
  /\ stage = "connect"
  /\ able \in BOOLEAN
  /\ trail = <<>>
  /\ exit = "none"
-----------------------------------------------------------------------------
End(how) ==
  /\ stage' = "over"
  /\ exit' = how

\* The connection comes first, then the refusal that needs none.
Connect ==
  /\ stage = "connect"
  /\ \/ \E how \in {"failed", "killed"} : End(how)
     \/ /\ req.op \in Power /\ ~req.force
        /\ End("Protected")
     \/ /\ req.op \in Power /\ req.force
        /\ stage' = "ask"
        /\ UNCHANGED exit
     \/ /\ req.op = "flush"
        /\ stage' = "attempt"
        /\ UNCHANGED exit
  /\ UNCHANGED <<callVars, escVars, able, req, trail>>

Send(k, next) ==
  \/ Transport!Send(k) /\ stage' = next /\ UNCHANGED exit
  \/ Transport!SendKills(k) /\ End("killed")

\* CanReboot, CanPowerOff or CanSuspend
Ask ==
  /\ stage = "ask"
  /\ Send("CanX", "asked")
  /\ UNCHANGED <<escVars, able, req, trail>>

\* "na" and a reply without a string end the command; "no" and "challenge" do not.
Asked ==
  /\ stage = "asked"
  /\ \/ /\ Transport!Return("CanX")
        /\ IF ran["CanX"] = "Dbus" THEN End("Dbus")
           ELSE IF able THEN stage' = "escalate" /\ UNCHANGED exit
           ELSE End("DependencyMissing")
     \/ Transport!Fail("CanX") /\ End("failed")
  /\ UNCHANGED <<escVars, able, req, trail>>

Escalate ==
  /\ stage = "escalate"
  /\ Esc!Client
  /\ UNCHANGED <<fezVars, able>>

Escalated ==
  /\ stage = "escalate"
  /\ CASE esc = "escalated" -> \/ stage' = "attempt" /\ UNCHANGED exit
                               \/ End("killed")
       [] esc = "denied"    -> End("AccessDenied")
       [] esc = "dbus"      -> End("Dbus")
       [] esc \in {"failed", "killed"} -> End(esc)
       [] OTHER             -> FALSE
  /\ UNCHANGED <<callVars, escVars, able, req, trail>>

Attempt ==
  /\ stage = "attempt"
  /\ trail' = Append(trail, "attempt")
  /\ stage' = "call"
  /\ UNCHANGED <<callVars, escVars, able, req, exit>>

Call ==
  /\ stage = "call"
  /\ Send("change", "wait")
  /\ UNCHANGED <<escVars, able, req, trail>>

\* An absent systemd-resolved, told by an error reply or by the channel's end, is mapped
\* to DependencyMissing after the records are written; logind's errors are not mapped.
Answered ==
  /\ stage = "wait"
  /\ stage' = "result"
  /\ \/ /\ Transport!Return("change")
        /\ \/ exit' = ran["change"]
           \/ ran["change"] = "Dbus" /\ req.op = "flush" /\ exit' = "DependencyMissing"
     \/ /\ Transport!Fail("change")
        /\ \/ exit' = "failed"
           \/ req.op = "flush" /\ exit' = "DependencyMissing"
           \/ exit' = "AccessDenied"
  /\ UNCHANGED <<escVars, able, req, trail>>

\* Mutant of Result: the outcome is not looked at.
ResultOk ==
  /\ stage = "result"
  /\ trail' = Append(trail, "ok")
  /\ stage' = "over"
  /\ UNCHANGED <<callVars, escVars, able, req, exit>>

Result ==
  /\ stage = "result"
  /\ trail' = Append(trail, IF exit = "ok" THEN "ok" ELSE "error")
  /\ stage' = "over"
  /\ UNCHANGED <<callVars, escVars, able, req, exit>>

Client ==
  \/ Connect
  \/ Ask
  \/ Asked
  \/ Escalate
  \/ Escalated
  \/ Attempt
  \/ Call
  \/ Answered
  \/ Result
-----------------------------------------------------------------------------
\* The bridge's superuser controller.
Superuser ==
  /\ Esc!Bridge
  /\ UNCHANGED <<fezVars, able>>

\* logind or systemd-resolved performs a call or refuses it; after a reboot that was
\* performed the reply need not come (Answered may take the other branch).
Service ==
  /\ \E k \in {"CanX", "change"}, r \in {"ok", "Dbus"} : Transport!Perform(k, r)
  /\ UNCHANGED <<escVars, fezVars, able>>

Over == stage = "over" /\ UNCHANGED vars

Next ==
  \/ Client
  \/ Superuser
  \/ Service
  \/ Over

Spec == Init /\ [][Next]_vars
FairSpec == Spec /\ WF_vars(Client)
-----------------------------------------------------------------------------
(* Properties *)

\* The host is changed only on record; and power goes only if the user insisted, logind
\* said it could, and a root peer is there.
RefusalIsFinal ==
  answer["change"] # "unsent" =>
    /\ trail # <<>>
    /\ req.op \in Power => req.force /\ able /\ answer["CanX"] = "ok" /\ Esc!RootPeers # {}

\* The command keeps the promises of the audit trail.
Audit == INSTANCE AuditedMutation WITH
  Steps <- {"change"},
  goal <- {"change"},
  done <- IF ran["change"] = "ok" THEN {"change"} ELSE {},
  trail <- trail

ImplementsAudit == Audit!Spec

\* The command ends, whatever the host does.
InvocationEnds == <>(stage = "over")
=============================================================================
