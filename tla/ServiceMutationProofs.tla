----------------------- MODULE ServiceMutationProofs -----------------------
(***************************************************************************)
(* Theorems about ServiceMutation, for every set of operations, every list *)
(* of mechanisms a bridge can advertise and every value of FEZ_ESCALATION. *)
(***************************************************************************)
EXTENDS ServiceMutation, SequenceTheorems, TLAPS

\* The gates a mutation goes through before anything is asked of the host.
Passed == req.valid /\ (req.force \/ ~req.protected) /\ ~req.dryRun
Cleared == Passed /\ (ShouldPrompt => consent)

\* Calls are written only by an invocation that went through the gates, and those it
\* stopped at left nothing behind.
GatesFirst ==
  /\ stage = "prompt" => Passed
  /\ stage \notin {"parsed", "prompt", "over"} => Cleared
  /\ (\E k \in Calls : answer[k] # "unsent") =>
       Cleared /\ stage \notin {"parsed", "prompt", "attempt", "connect"}
  /\ exit \in {"Usage", "Protected", "DryRun", "Aborted"} =>
       stage = "over" /\ \A k \in Calls : answer[k] = "unsent"

\* The mechanism being started is there, and an escalation that succeeded has a root peer.
PeerThere ==
  /\ esc = "starting" => rest # <<>>
  /\ esc = "escalated" => Esc!RootPeers # {}

\* systemd's calls are made one after the other, behind the root peer, each of them after
\* those before it were performed.
InOrder ==
  /\ step <= Len(Work(req.op))
  /\ \A i \in 1..(step - 1) : ran[Work(req.op)[i]] = "ok"
  /\ \A k \in Calls : ran[k] # "no" => answer[k] # "unsent"
  /\ \A k \in Methods : answer[k] # "unsent" =>
       /\ \E i \in 1..step : k = Work(req.op)[i]
       /\ esc = "escalated"
  /\ stage \in {"call", "wait"} => esc = "escalated"

\* The records written are those of the stage, and a success is one.
OnRecord ==
  /\ stage \in {"parsed", "prompt", "attempt"} => trail = <<>>
  /\ stage \in {"connect", "escalate", "call", "wait", "result"} => Len(trail) = 1
  /\ stage = "over" => exit \in {"Usage", "Protected", "DryRun", "Aborted"} \/ Len(trail) \in {1, 2}
  /\ Len(trail) = 2 /\ trail[2] = "ok" => exit = "ok"
  /\ stage \notin {"result", "over"} => exit = "none"
  /\ exit = "ok" => step = Len(Work(req.op)) /\ ran[Method] = "ok"

\* What an enablement has changed so far.
Enabling == req.op = "enable" \/ req.op = "enable --now"
Disabling == req.op = "disable" \/ req.op = "disable --now"

InEffect ==
  Enabling \/ Disabling =>
    /\ ran[Work(req.op)[1]] = "ok" => file = Enabling
    /\ ran["Reload"] = "ok" => ran[Work(req.op)[1]] = "ok" /\ cached = Enabling

Inv == TypeOK /\ GatesFirst /\ PeerThere /\ InOrder /\ OnRecord /\ InEffect
-----------------------------------------------------------------------------
(* The calls of an operation. *)

\* An enablement changes the unit files first and reloads them second; what it does to
\* the unit itself comes third.
Shape(op, w) ==
  /\ op = "enable" => w = <<"EnableUnitFiles", "Reload">>
  /\ op = "enable --now" => w = <<"EnableUnitFiles", "Reload", "StartUnit">>
  /\ op = "disable" => w = <<"DisableUnitFiles", "Reload">>
  /\ op = "disable --now" => w = <<"DisableUnitFiles", "Reload", "StopUnit">>

\* The calls of an enablement, without and with what follows it.
LEMMA EnablementCalls ==
  ASSUME NEW m \in Methods, NEW f \in Methods
  PROVE  /\ Enablement(m, FALSE, f) = <<m, "Reload">>
         /\ Enablement(m, TRUE, f) = <<m, "Reload", f>>
         /\ <<m, "Reload">> \in Seq(Methods)
         /\ <<m, "Reload", f>> \in Seq(Methods)
  BY DEF Enablement, Methods

LEMMA WorkShape ==
  ASSUME NEW op \in AllOps
  PROVE  /\ Work(op) \in Seq(Methods)
         /\ Len(Work(op)) \in 1..3
         /\ Shape(op, Work(op))
  <1>1. /\ "EnableUnitFiles" \in Methods
        /\ "DisableUnitFiles" \in Methods
        /\ "StartUnit" \in Methods
        /\ "StopUnit" \in Methods
    BY DEF Methods
  <1>2. CASE op \in {"start", "stop", "restart", "reload"}
    <2>1. \E m \in Methods : Work(op) = <<m>>
      BY <1>2 DEF Work, Methods
    <2>2. Work(op) \in Seq(Methods) /\ Len(Work(op)) \in 1..3
      BY <2>1
    <2>3. Shape(op, Work(op))
      BY <1>2 DEF Shape
    <2> QED
      BY <2>2, <2>3
  <1>3. CASE op = "enable"
    <2>1. Work(op) = <<"EnableUnitFiles", "Reload">>
      BY <1>1, <1>3, EnablementCalls DEF Work
    <2>2. Work(op) \in Seq(Methods)
      BY <1>1, <2>1, EnablementCalls
    <2>3. Shape(op, Work(op))
      BY <1>3, <2>1 DEF Shape
    <2>4. Len(Work(op)) \in 1..3
      BY <2>1
    <2> QED
      BY <2>2, <2>3, <2>4
  <1>4. CASE op = "enable --now"
    <2>1. Work(op) = <<"EnableUnitFiles", "Reload", "StartUnit">>
      BY <1>1, <1>4, EnablementCalls DEF Work
    <2>2. Work(op) \in Seq(Methods)
      BY <1>1, <2>1, EnablementCalls
    <2>3. Shape(op, Work(op))
      BY <1>4, <2>1 DEF Shape
    <2>4. Len(Work(op)) \in 1..3
      BY <2>1
    <2> QED
      BY <2>2, <2>3, <2>4
  <1>5. CASE op = "disable"
    <2>1. Work(op) = <<"DisableUnitFiles", "Reload">>
      BY <1>1, <1>5, EnablementCalls DEF Work
    <2>2. Work(op) \in Seq(Methods)
      BY <1>1, <2>1, EnablementCalls
    <2>3. Shape(op, Work(op))
      BY <1>5, <2>1 DEF Shape
    <2>4. Len(Work(op)) \in 1..3
      BY <2>1
    <2> QED
      BY <2>2, <2>3, <2>4
  <1>6. CASE op = "disable --now"
    <2>1. Work(op) = <<"DisableUnitFiles", "Reload", "StopUnit">>
      BY <1>1, <1>6, EnablementCalls DEF Work
    <2>2. Work(op) \in Seq(Methods)
      BY <1>1, <2>1, EnablementCalls
    <2>3. Shape(op, Work(op))
      BY <1>6, <2>1 DEF Shape
    <2>4. Len(Work(op)) \in 1..3
      BY <2>1
    <2> QED
      BY <2>2, <2>3, <2>4
  <1> QED
    BY <1>2, <1>3, <1>4, <1>5, <1>6 DEF AllOps
-----------------------------------------------------------------------------
(* Steps that leave calls, escalation and unit as they are. *)

LEMMA Typed ==
  ASSUME TypeOK
  PROVE  /\ ran \in [Calls -> {"ok", "Dbus", "no"}]
         /\ answer \in [Calls -> {"ok", "Dbus", "unsent", "pending", "failed", "killed"}]
         /\ rest \in Seq(Mechanisms)
         /\ advertised \in Seq(Mechanisms)
         /\ req.op \in AllOps
         /\ Methods \subseteq Calls
         /\ Mechanisms \subseteq Calls
         /\ "Bridges" \in Calls
         /\ Methods \cap (Mechanisms \cup {"Bridges"}) = {}
  <1>1. Esc!TypeOK /\ req \in Request
    BY DEF TypeOK
  <1>2. Esc!Transport!TypeOK /\ rest \in Seq(Mechanisms) /\ advertised \in Lists
    BY <1>1 DEF Esc!TypeOK
  <1>3. req.op \in AllOps
    BY <1>1, OpsAssumption DEF Request
  <1> QED
    BY <1>2, <1>3, OpsAssumption, EscalationAssumption
       DEF Calls, Esc!Transport!TypeOK, Esc!Transport!Performed

LEMMA Quiet ==
  ASSUME Inv,
         UNCHANGED <<ran, answer, forced, advertised, esc, rest, req, file, cached, step>>,
         stage' \in {"call", "wait"} => esc = "escalated"
  PROVE  Esc!TypeOK' /\ PeerThere' /\ InOrder' /\ InEffect'
  <1>1. Esc!TypeOK'
    BY DEF Inv, TypeOK, Esc!TypeOK, Esc!Transport!TypeOK
  <1>2. PeerThere'
    BY DEF Inv, PeerThere, Esc!RootPeers
  <1>3. InOrder'
    BY DEF Inv, InOrder
  <1>4. InEffect'
    BY DEF Inv, InEffect, Enabling, Disabling
  <1> QED
    BY <1>1, <1>2, <1>3, <1>4

LEMMA GateKeeps ==
  ASSUME Inv, Gate
  PROVE  Inv'
  <1>1. /\ UNCHANGED <<ran, answer, forced, advertised, esc, rest, req, file, cached, step>>
        /\ UNCHANGED <<consent, trail>>
        /\ stage = "parsed"
    BY DEF Gate, callVars, escVars, userVars, unitVars
  <1>2. \/ stage' = "over" /\ exit' \in {"Usage", "Protected", "DryRun"}
        \/ stage' = "prompt" /\ exit' = exit /\ Passed
        \/ stage' = "attempt" /\ exit' = exit /\ Cleared
    BY DEF Gate, End, Cleared, Passed
  <1>3. \A k \in Calls : answer[k] = "unsent"
    BY <1>1 DEF Inv, GatesFirst
  <1>4. trail = <<>> /\ exit = "none"
    BY <1>1 DEF Inv, OnRecord
  <1>5. Esc!TypeOK' /\ PeerThere' /\ InOrder' /\ InEffect'
    BY <1>1, <1>2, Quiet
  <1>6. TypeOK'
    BY <1>1, <1>2, <1>5 DEF Inv, TypeOK, Stages, Exits
  <1>7. GatesFirst'
    BY <1>1, <1>2, <1>3, <1>4 DEF GatesFirst, Cleared, Passed, ShouldPrompt
  <1>8. OnRecord'
    BY <1>1, <1>2, <1>4 DEF OnRecord
  <1> QED
    BY <1>5, <1>6, <1>7, <1>8 DEF Inv

LEMMA ConfirmKeeps ==
  ASSUME Inv, Confirm
  PROVE  Inv'
  <1>1. /\ UNCHANGED <<ran, answer, forced, advertised, esc, rest, req, file, cached, step>>
        /\ UNCHANGED trail
        /\ stage = "prompt"
    BY DEF Confirm, callVars, escVars, unitVars
  <1>2. \/ stage' = "over" /\ exit' = "Aborted" /\ consent' = consent
        \/ stage' = "attempt" /\ exit' = exit /\ consent' = TRUE
    BY DEF Confirm, End
  <1>3. Passed /\ \A k \in Calls : answer[k] = "unsent"
    BY <1>1 DEF Inv, GatesFirst
  <1>4. trail = <<>> /\ exit = "none"
    BY <1>1 DEF Inv, OnRecord
  <1>5. Esc!TypeOK' /\ PeerThere' /\ InOrder' /\ InEffect'
    BY <1>1, <1>2, Quiet
  <1>6. TypeOK'
    BY <1>1, <1>2, <1>5 DEF Inv, TypeOK, Stages, Exits
  <1>7. GatesFirst'
    BY <1>1, <1>2, <1>3, <1>4 DEF GatesFirst, Cleared, Passed, ShouldPrompt
  <1>8. OnRecord'
    BY <1>1, <1>2, <1>4 DEF OnRecord
  <1> QED
    BY <1>5, <1>6, <1>7, <1>8 DEF Inv

\* What a record adds to the trail.
LEMMA Recorded ==
  ASSUME NEW t \in Seq({"attempt", "ok", "error"}), NEW r \in {"attempt", "ok", "error"}
  PROVE  /\ Append(t, r) \in Seq({"attempt", "ok", "error"})
         /\ Len(t) \in Nat
         /\ Len(Append(t, r)) = Len(t) + 1
         /\ Append(t, r)[Len(t) + 1] = r
  OBVIOUS

LEMMA AttemptKeeps ==
  ASSUME Inv, Attempt
  PROVE  Inv'
  <1>1. /\ UNCHANGED <<ran, answer, forced, advertised, esc, rest, req, file, cached, step>>
        /\ UNCHANGED <<consent, exit>>
        /\ stage = "attempt" /\ stage' = "connect"
    BY DEF Attempt, callVars, escVars, userVars, unitVars
  <1>2. /\ trail' \in Seq({"attempt", "ok", "error"})
        /\ Len(trail') = 1
        /\ exit = "none"
    BY <1>1, Recorded DEF Attempt, Inv, OnRecord, TypeOK
  <1>3. Cleared /\ \A k \in Calls : answer[k] = "unsent"
    BY <1>1 DEF Inv, GatesFirst
  <1>4. Esc!TypeOK' /\ PeerThere' /\ InOrder' /\ InEffect'
    BY <1>1, Quiet
  <1>5. TypeOK'
    BY <1>1, <1>2, <1>4 DEF Inv, TypeOK, Stages
  <1>6. GatesFirst'
    BY <1>1, <1>2, <1>3 DEF GatesFirst, Cleared, Passed, ShouldPrompt
  <1>7. OnRecord'
    BY <1>1, <1>2 DEF OnRecord
  <1> QED
    BY <1>4, <1>5, <1>6, <1>7 DEF Inv

LEMMA ResultKeeps ==
  ASSUME Inv, Result
  PROVE  Inv'
  <1>1. /\ UNCHANGED <<ran, answer, forced, advertised, esc, rest, req, file, cached, step>>
        /\ UNCHANGED <<consent, exit>>
        /\ stage = "result" /\ stage' = "over"
    BY DEF Result, callVars, escVars, userVars, unitVars
  <1>2. Len(trail) = 1 /\ trail \in Seq({"attempt", "ok", "error"})
    BY <1>1 DEF Inv, OnRecord, TypeOK
  <1>3. /\ trail' \in Seq({"attempt", "ok", "error"})
        /\ Len(trail') = 2
        /\ trail'[2] = "ok" => exit = "ok"
    <2> DEFINE r == IF exit = "ok" THEN "ok" ELSE "error"
    <2>1. trail' = Append(trail, r)
      BY DEF Result
    <2>2. r \in {"attempt", "ok", "error"} /\ (r = "ok" => exit = "ok")
      OBVIOUS
    <2> HIDE DEF r
    <2>3. /\ trail' \in Seq({"attempt", "ok", "error"})
          /\ Len(trail') = 1 + 1
          /\ trail'[1 + 1] = r
      BY <1>2, <2>1, <2>2, Recorded
    <2> QED
      BY <2>2, <2>3
  <1>4. Esc!TypeOK' /\ PeerThere' /\ InOrder' /\ InEffect'
    BY <1>1, Quiet
  <1>5. TypeOK'
    BY <1>1, <1>3, <1>4 DEF Inv, TypeOK, Stages
  <1>6. GatesFirst'
    BY <1>1 DEF Inv, GatesFirst, Cleared, Passed, ShouldPrompt
  <1>7. exit = "ok" => step' = Len(Work(req.op))' /\ ran'[Method'] = "ok"
    BY <1>1 DEF Inv, OnRecord, Method
  <1>8. OnRecord'
    BY <1>1, <1>3, <1>7 DEF OnRecord
  <1> QED
    BY <1>4, <1>5, <1>6, <1>8 DEF Inv
LEMMA ConnectKeeps ==
  ASSUME Inv, Connect
  PROVE  Inv'
  <1>1. /\ UNCHANGED <<ran, answer, forced, advertised, esc, rest, req, file, cached, step>>
        /\ UNCHANGED <<consent, trail>>
        /\ stage = "connect"
    BY DEF Connect, callVars, escVars, userVars, unitVars
  <1>2. \/ stage' = "escalate" /\ exit' = exit
        \/ stage' = "result" /\ exit' = "failed"
        \/ stage' = "over" /\ exit' = "killed"
    BY DEF Connect, Return, End
  <1>3. Cleared /\ \A k \in Calls : answer[k] = "unsent"
    BY <1>1 DEF Inv, GatesFirst
  <1>4. Len(trail) = 1 /\ exit = "none"
    BY <1>1 DEF Inv, OnRecord
  <1>5. Esc!TypeOK' /\ PeerThere' /\ InOrder' /\ InEffect'
    BY <1>1, <1>2, Quiet
  <1>6. TypeOK'
    BY <1>1, <1>2, <1>5 DEF Inv, TypeOK, Stages, Exits
  <1>7. GatesFirst'
    BY <1>1, <1>2, <1>3, <1>4 DEF GatesFirst, Cleared, Passed, ShouldPrompt
  <1>8. OnRecord'
    BY <1>1, <1>2, <1>4 DEF OnRecord
  <1> QED
    BY <1>5, <1>6, <1>7, <1>8 DEF Inv

LEMMA EscalatedKeeps ==
  ASSUME Inv, Escalated
  PROVE  Inv'
  <1>1. /\ UNCHANGED <<ran, answer, forced, advertised, esc, rest, req, file, cached, step>>
        /\ UNCHANGED <<consent, trail>>
        /\ stage = "escalate"
    BY DEF Escalated, callVars, escVars, userVars, unitVars
  <1>2. \/ stage' = "call" /\ exit' = exit /\ esc = "escalated"
        \/ stage' = "result" /\ exit' \in {"AccessDenied", "Dbus", "failed"}
        \/ stage' = "over" /\ exit' = "killed"
    BY DEF Escalated, Return, End
  <1>3. Cleared
    BY <1>1 DEF Inv, GatesFirst
  <1>4. Len(trail) = 1 /\ exit = "none"
    BY <1>1 DEF Inv, OnRecord
  <1>5. Esc!TypeOK' /\ PeerThere' /\ InOrder' /\ InEffect'
    BY <1>1, <1>2, Quiet
  <1>6. TypeOK'
    BY <1>1, <1>2, <1>5 DEF Inv, TypeOK, Stages, Exits
  <1>7. GatesFirst'
    BY <1>1, <1>2, <1>3, <1>4 DEF GatesFirst, Cleared, Passed, ShouldPrompt
  <1>8. OnRecord'
    BY <1>1, <1>2, <1>4 DEF OnRecord
  <1> QED
    BY <1>5, <1>6, <1>7, <1>8 DEF Inv
-----------------------------------------------------------------------------
(* Steps that write a call or take its answer. *)

\* A step that touches no answer but those of a set of calls, none of them performed by
\* the client, and stays where calls may be made.
LEMMA AnswersOnly ==
  ASSUME Inv, ran' = ran,
         answer' \in [Calls -> {"ok", "Dbus", "unsent", "pending", "failed", "killed"}],
         \A k \in Calls : answer[k] # "unsent" => answer'[k] # "unsent",
         UNCHANGED <<forced, advertised, req, consent, file, cached, trail>>,
         stage \in {"escalate", "call", "wait"},
         stage' \in {"escalate", "call", "wait", "result", "over"},
         exit' \in Exits \ {"Usage", "Protected", "DryRun", "Aborted"},
         stage' \notin {"result", "over"} => exit' = "none"
  PROVE  /\ Esc!Transport!TypeOK'
         /\ GatesFirst'
         /\ InEffect'
         /\ \A k \in Calls : ran'[k] # "no" => answer'[k] # "unsent"
         /\ Esc!RootPeers' = Esc!RootPeers
         /\ exit = "none" /\ Len(trail) = 1
  <1>1. Esc!Transport!TypeOK'
    BY Typed DEF Inv, Esc!Transport!TypeOK, Esc!Transport!Performed
  <1>2. Cleared
    BY DEF Inv, GatesFirst
  <1>3. GatesFirst'
    BY <1>2 DEF GatesFirst, Cleared, Passed, ShouldPrompt
  <1>4. InEffect'
    BY DEF Inv, InEffect, Enabling, Disabling
  <1>5. \A k \in Calls : ran'[k] # "no" => answer'[k] # "unsent"
    BY DEF Inv, InOrder
  <1>6. Esc!RootPeers' = Esc!RootPeers
    BY DEF Esc!RootPeers
  <1>7. exit = "none" /\ Len(trail) = 1
    BY DEF Inv, OnRecord
  <1> QED
    BY <1>1, <1>3, <1>4, <1>5, <1>6, <1>7

LEMMA CallKeeps ==
  ASSUME Inv, Call
  PROVE  Inv'
  <1>1. /\ UNCHANGED <<forced, advertised, esc, rest, req, consent, file, cached, step, trail>>
        /\ stage = "call" /\ ran' = ran
    BY DEF Call, escVars, userVars, unitVars, Transport!Send, Transport!SendKills
  <1>2. \/ answer' = [answer EXCEPT ![Method] = "pending"] /\ stage' = "wait" /\ exit' = exit
        \/ answer' = [answer EXCEPT ![Method] = "killed"] /\ stage' = "over" /\ exit' = "killed"
    BY DEF Call, End, Transport!Send, Transport!SendKills
  <1>3. TypeOK
    BY DEF Inv
  <1>4. exit = "none" /\ esc = "escalated" /\ Len(trail) = 1
    BY <1>1 DEF Inv, OnRecord, InOrder
  <1>5. step \in 1..3 /\ step <= Len(Work(req.op)) /\ Work(req.op) \in Seq(Methods)
    BY <1>3, Typed, WorkShape DEF Inv, TypeOK, InOrder
  <1>6. Method \in Methods /\ Method \in Calls
    BY <1>3, <1>5, Typed DEF Method
  <1>7. /\ answer' \in [Calls -> {"ok", "Dbus", "unsent", "pending", "failed", "killed"}]
        /\ answer'[Method] # "unsent"
        /\ \A k \in Calls : k = Method \/ answer'[k] = answer[k]
    BY <1>2, <1>3, <1>6, Typed
  <1>8. /\ Esc!Transport!TypeOK'
        /\ GatesFirst'
        /\ InEffect'
        /\ \A k \in Calls : ran'[k] # "no" => answer'[k] # "unsent"
        /\ Esc!RootPeers' = Esc!RootPeers
    BY <1>1, <1>2, <1>4, <1>7, AnswersOnly DEF Exits
  <1>9. TypeOK'
    BY <1>1, <1>2, <1>3, <1>8 DEF TypeOK, Esc!TypeOK, Stages, Exits
  <1>10. PeerThere'
    BY <1>1, <1>8 DEF Inv, PeerThere
  <1>11. InOrder'
    <2>1. \A i \in 1..(step' - 1) : ran'[Work(req.op)'[i]] = "ok"
      BY <1>1 DEF Inv, InOrder
    <2>2. ASSUME NEW k \in Methods, answer'[k] # "unsent"
          PROVE  (\E i \in 1..step' : k = Work(req.op)'[i]) /\ esc' = "escalated"
      <3>1. CASE k = Method
        BY <1>1, <1>4, <1>5, <3>1 DEF Method
      <3>2. CASE k # Method
        BY <1>1, <1>3, <1>7, <2>2, <3>2, Typed DEF Inv, InOrder
      <3> QED
        BY <3>1, <3>2
    <2> QED
      BY <1>1, <1>4, <1>5, <1>8, <2>1, <2>2 DEF InOrder
  <1>12. OnRecord'
    BY <1>1, <1>2, <1>4 DEF OnRecord
  <1> QED
    BY <1>8, <1>9, <1>10, <1>11, <1>12 DEF Inv
\* There is a next call as long as the last one is not reached.
LEMMA NextCall ==
  ASSUME NEW i \in 1..3, NEW n \in 1..3, i < n
  PROVE  i + 1 \in 1..3 /\ i <= i + 1 /\ i + 1 <= n
  OBVIOUS

\* The end of the wait for a call: its answer is replaced by what the caller is told.
LEMMA ToldKeeps ==
  ASSUME Inv, stage = "wait", ran' = ran,
         NEW told \in {"ok", "Dbus", "failed"},
         answer' = [answer EXCEPT ![Method] = told],
         answer[Method] # "unsent",
         UNCHANGED <<forced, advertised, esc, rest, req, consent, file, cached, trail>>,
         \/ /\ stage' = "call" /\ step' = step + 1 /\ exit' = exit
            /\ ran[Method] = "ok" /\ step # Len(Work(req.op))
         \/ /\ stage' = "result" /\ step' = step
            /\ exit' \in {"ok", "Dbus", "failed", "AccessDenied"}
            /\ exit' = "ok" => ran[Method] = "ok" /\ step = Len(Work(req.op))
  PROVE  Inv'
  <1>1. TypeOK
    BY DEF Inv
  <1>2. exit = "none" /\ esc = "escalated" /\ Len(trail) = 1
    BY DEF Inv, OnRecord, InOrder
  <1>3. /\ step \in 1..3 /\ step <= Len(Work(req.op))
        /\ Work(req.op) \in Seq(Methods) /\ Len(Work(req.op)) \in 1..3
    BY <1>1, Typed, WorkShape DEF Inv, TypeOK, InOrder
  <1>4. Method \in Methods /\ Method \in Calls
    BY <1>1, <1>3, Typed DEF Method
  <1>5. /\ answer' \in [Calls -> {"ok", "Dbus", "unsent", "pending", "failed", "killed"}]
        /\ \A k \in Calls : answer[k] # "unsent" <=> answer'[k] # "unsent"
    BY <1>1, <1>4, Typed
  <1>6. /\ Esc!Transport!TypeOK'
        /\ GatesFirst'
        /\ InEffect'
        /\ \A k \in Calls : ran'[k] # "no" => answer'[k] # "unsent"
        /\ Esc!RootPeers' = Esc!RootPeers
    BY <1>2, <1>5, AnswersOnly DEF Exits
  <1>7. step' \in 1..3 /\ step <= step' /\ step' <= Len(Work(req.op))
    <2>1. CASE step' = step
      BY <1>3, <2>1
    <2>2. CASE step' = step + 1 /\ step # Len(Work(req.op))
      <3>1. step \in 1..3 /\ Len(Work(req.op)) \in 1..3 /\ step < Len(Work(req.op))
        BY <1>3, <2>2
      <3> QED
        BY <2>2, <3>1, NextCall
    <2> QED
      BY <2>1, <2>2
  <1>8. TypeOK'
    BY <1>1, <1>2, <1>6, <1>7 DEF TypeOK, Esc!TypeOK, Stages, Exits
  <1>9. PeerThere'
    BY <1>6 DEF Inv, PeerThere
  <1>10. InOrder'
    <2>1. ASSUME NEW i \in 1..(step' - 1) PROVE ran[Work(req.op)[i]] = "ok"
      <3>1. i \in 1..(step - 1) \/ (i = step /\ step' = step + 1)
        BY <1>3
      <3> QED
        BY <3>1 DEF Inv, InOrder, Method
    <2>2. ASSUME NEW k \in Methods, answer'[k] # "unsent"
          PROVE  \E i \in 1..step' : k = Work(req.op)[i]
      <3>1. \E i \in 1..step : k = Work(req.op)[i]
        BY <1>1, <1>5, <2>2, Typed DEF Inv, InOrder
      <3> QED
        BY <1>3, <1>7, <3>1
    <2> QED
      BY <1>2, <1>6, <1>7, <2>1, <2>2 DEF InOrder
  <1>11. OnRecord'
    BY <1>2 DEF OnRecord, Method
  <1> QED
    BY <1>6, <1>8, <1>9, <1>10, <1>11 DEF Inv

LEMMA AnsweredKeeps ==
  ASSUME Inv, Answered
  PROVE  Inv'
  <1>1. /\ stage = "wait" /\ ran' = ran
        /\ UNCHANGED <<forced, advertised, esc, rest, req, consent, file, cached, trail>>
        /\ answer' = [answer EXCEPT ![Method] = ran[Method]]
        /\ ran[Method] \in {"ok", "Dbus"}
        /\ answer[Method] # "unsent"
    BY DEF Answered, escVars, userVars, unitVars, Transport!Return, Transport!Performed
  <1>2. \/ /\ stage' = "call" /\ step' = step + 1 /\ exit' = exit
           /\ ran[Method] = "ok" /\ step # Len(Work(req.op))
        \/ /\ stage' = "result" /\ step' = step /\ exit' = ran[Method]
           /\ ran[Method] = "ok" => step = Len(Work(req.op))
    BY DEF Answered, Return, LastCall
  <1> QED
    BY <1>1, <1>2, ToldKeeps

LEMMA UnansweredKeeps ==
  ASSUME Inv, Unanswered
  PROVE  Inv'
  <1>1. /\ stage = "wait" /\ ran' = ran
        /\ UNCHANGED <<forced, advertised, esc, rest, req, consent, file, cached, trail, step>>
        /\ answer' = [answer EXCEPT ![Method] = "failed"]
        /\ answer[Method] # "unsent"
        /\ stage' = "result" /\ exit' \in {"failed", "AccessDenied"}
    BY DEF Unanswered, escVars, userVars, unitVars, Transport!Fail, Return
  <1> QED
    BY <1>1, ToldKeeps
-----------------------------------------------------------------------------
(* The escalation and the other side. *)

\* The mechanism being tried is one, and so are those after it.
LEMMA RestParts ==
  ASSUME NEW s \in Seq(Mechanisms), s # <<>>
  PROVE  Head(s) \in Mechanisms /\ Tail(s) \in Seq(Mechanisms)
  <1>1. Len(s) \in Nat \ {0}
    BY EmptySeq, LenProperties
  <1> QED
    BY <1>1, HeadTailProperties

\* What a step of escalate() changes: the answer of a mechanism or of the listing.
LEMMA EscalateParts ==
  ASSUME Inv, Esc!Client
  PROVE  /\ ran' = ran
         /\ Esc!TypeOK'
         /\ PeerThere'
         /\ UNCHANGED <<forced, advertised>>
         /\ answer' \in [Calls -> {"ok", "Dbus", "unsent", "pending", "failed", "killed"}]
         /\ \A k \in Calls : answer[k] # "unsent" => answer'[k] # "unsent"
         /\ \A k \in Methods : answer'[k] = answer[k]
         /\ esc = "escalated" => esc' = "escalated"
  <1> DEFINE Answers == {"ok", "Dbus", "unsent", "pending", "failed", "killed"}
  <1>1. TypeOK /\ Esc!TypeOK /\ PeerThere
    BY DEF Inv, TypeOK
  <1>2. /\ rest # <<>> => Head(rest) \in Mechanisms /\ Tail(rest) \in Seq(Mechanisms)
        /\ esc = "starting" => rest # <<>>
    BY <1>1, Typed, RestParts DEF PeerThere
  <1>3. Esc!Candidates \in Seq(Mechanisms)
    <2>1. advertised \in Seq(Mechanisms) /\ <<>> \in Seq(Mechanisms)
      BY <1>1, Typed
    <2>2. forced \in Safe => <<forced>> \in Seq(Mechanisms)
      BY EscalationAssumption
    <2> QED
      BY <2>1, <2>2 DEF Esc!Candidates
  <1>4. ASSUME NEW k \in Mechanisms \cup {"Bridges"}, NEW told \in Answers \ {"unsent"},
               answer' = [answer EXCEPT ![k] = told]
        PROVE  /\ answer' \in [Calls -> Answers]
               /\ \A j \in Calls : answer[j] # "unsent" => answer'[j] # "unsent"
               /\ \A j \in Methods : answer'[j] = answer[j]
    BY <1>1, <1>4, Typed
  <1>5. /\ ran' = ran
        /\ UNCHANGED <<forced, advertised>>
        /\ rest' \in Seq(Mechanisms)
        /\ esc' \in {"idle", "choosing"} \cup Esc!Waiting \cup Esc!Ended
        /\ esc' = "starting" => rest' # <<>>
        /\ esc' = "escalated" => Esc!RootPeers # {}
        /\ esc # "escalated"
        /\ \/ answer' = answer
           \/ \E k \in Mechanisms \cup {"Bridges"}, told \in Answers \ {"unsent"} :
                answer' = [answer EXCEPT ![k] = told]
    <2>1. CASE Esc!Escalate
      BY <1>1, <2>1, Typed DEF Esc!Escalate, Esc!Ask, Esc!Transport!Send, Esc!Transport!SendKills,
                               Esc!Waiting, Esc!Ended
    <2>2. CASE Esc!Listed
      BY <1>1, <1>3, <2>2, Typed DEF Esc!Listed, Esc!Transport!Return, Esc!Transport!Performed,
                                     Esc!Waiting, Esc!Ended
    <2>3. CASE Esc!Choose
      BY <1>1, <1>2, <2>3, Typed DEF Esc!Choose, Esc!Ask, Esc!Transport!Send, Esc!Transport!SendKills,
                                     Esc!Waiting, Esc!Ended
    <2>4. CASE Esc!Started
      BY <1>1, <1>2, <2>4, Typed DEF Esc!Started, Esc!Transport!Return, Esc!Transport!Performed,
                                     Esc!Waiting, Esc!Ended, Esc!RootPeers
    <2>5. CASE Esc!Broken
      BY <1>1, <1>2, <2>5, Typed DEF Esc!Broken, Esc!Asked, Esc!Transport!Fail, Esc!Waiting, Esc!Ended
    <2> QED
      BY <2>1, <2>2, <2>3, <2>4, <2>5 DEF Esc!Client
  <1>6. /\ answer' \in [Calls -> Answers]
        /\ \A j \in Calls : answer[j] # "unsent" => answer'[j] # "unsent"
        /\ \A j \in Methods : answer'[j] = answer[j]
    BY <1>1, <1>4, <1>5, Typed
  <1>7. Esc!Transport!TypeOK'
    BY <1>1, <1>5, <1>6, Typed DEF Esc!Transport!TypeOK, Esc!Transport!Performed
  <1>8. Esc!TypeOK'
    BY <1>1, <1>5, <1>7 DEF Esc!TypeOK
  <1>9. PeerThere'
    BY <1>5 DEF PeerThere, Esc!RootPeers
  <1> QED
    BY <1>5, <1>6, <1>8, <1>9

LEMMA EscalateKeeps ==
  ASSUME Inv, Escalate
  PROVE  Inv'
  <1>1. /\ UNCHANGED <<req, consent, file, cached, stage, step, trail, exit>>
        /\ stage = "escalate" /\ Esc!Client
    BY DEF Escalate, userVars, unitVars
  <1>2. exit = "none" /\ TypeOK
    BY <1>1 DEF Inv, OnRecord
  <1>3. /\ GatesFirst'
        /\ InEffect'
        /\ \A k \in Calls : ran'[k] # "no" => answer'[k] # "unsent"
    BY <1>1, <1>2, EscalateParts, AnswersOnly DEF Exits
  <1>4. TypeOK'
    BY <1>1, <1>2, EscalateParts DEF TypeOK
  <1>5. InOrder'
    BY <1>1, <1>2, <1>3, EscalateParts, Typed DEF Inv, InOrder
  <1>6. OnRecord'
    BY <1>1, <1>2 DEF Inv, OnRecord
  <1> QED
    BY <1>1, <1>3, <1>4, <1>5, <1>6, EscalateParts DEF Inv
\* The bridge performs a mechanism or the listing: nothing that succeeded is undone.
LEMMA SuperuserKeeps ==
  ASSUME Inv, Superuser
  PROVE  Inv'
  <1>1. /\ UNCHANGED <<forced, advertised, esc, rest, req, consent, file, cached, stage, step, trail, exit>>
        /\ answer' = answer
    BY DEF Superuser, Esc!Bridge, Esc!escVars, Esc!Transport!Perform, userVars, unitVars
  <1>2. PICK k \in Mechanisms \cup {"Bridges"}, r \in {"ok", "Dbus"} :
          answer[k] \notin {"unsent", "killed"} /\ ran[k] = "no" /\ ran' = [ran EXCEPT ![k] = r]
    BY DEF Superuser, Esc!Bridge, Esc!Transport!Perform
  <1>3. TypeOK
    BY DEF Inv
  <1>4. /\ ran' \in [Calls -> {"ok", "Dbus", "no"}]
        /\ \A j \in Calls : j = k \/ ran'[j] = ran[j]
        /\ \A j \in Methods : ran'[j] = ran[j]
        /\ \A j \in Calls : ran[j] # "no" => ran'[j] = ran[j]
    BY <1>2, <1>3, Typed
  <1>5. Esc!TypeOK'
    BY <1>1, <1>3, <1>4, Typed DEF TypeOK, Esc!TypeOK, Esc!Transport!TypeOK, Esc!Transport!Performed
  <1>6. TypeOK'
    BY <1>1, <1>3, <1>5 DEF TypeOK
  <1>7. GatesFirst'
    BY <1>1 DEF Inv, GatesFirst, Cleared, Passed, ShouldPrompt
  <1>8. PeerThere'
    <2>1. Esc!RootPeers \subseteq Esc!RootPeers'
      BY <1>3, <1>4, Typed DEF Esc!RootPeers
    <2> QED
      BY <1>1, <2>1 DEF Inv, PeerThere
  <1>9. Work(req.op) \in Seq(Methods) /\ Len(Work(req.op)) \in 1..3
    BY <1>3, Typed, WorkShape
  <1>10. \A i \in 1..Len(Work(req.op)) : ran'[Work(req.op)[i]] = ran[Work(req.op)[i]]
    BY <1>4, <1>9
  <1>11. step \in 1..3 /\ step <= Len(Work(req.op))
    BY <1>3 DEF Inv, InOrder, TypeOK
  <1>12. InOrder'
    <2>1. \A i \in 1..(step - 1) : ran'[Work(req.op)[i]] = "ok"
      BY <1>9, <1>10, <1>11 DEF Inv, InOrder
    <2>2. \A j \in Calls : ran'[j] # "no" => answer[j] # "unsent"
      BY <1>2, <1>4 DEF Inv, InOrder
    <2> QED
      BY <1>1, <2>1, <2>2 DEF Inv, InOrder
  <1>13. ran'[Method] = ran[Method]
    BY <1>9, <1>10, <1>11 DEF Method
  <1>14. OnRecord'
    BY <1>1, <1>13 DEF Inv, OnRecord, Method
  <1>15. InEffect'
    <2>1. ran'[Work(req.op)[1]] = ran[Work(req.op)[1]]
      BY <1>9, <1>10
    <2>2. ran'["Reload"] = ran["Reload"]
      BY <1>4 DEF Methods
    <2> QED
      BY <1>1, <2>1, <2>2 DEF Inv, InEffect, Enabling, Disabling
  <1> QED
    BY <1>6, <1>7, <1>8, <1>12, <1>14, <1>15 DEF Inv

\* What an enablement asks for, by the position of the call.
LEMMA Positions ==
  ASSUME Inv, Enabling \/ Disabling, NEW k \in Methods, answer[k] # "unsent"
  PROVE  /\ k = "EnableUnitFiles" => Enabling /\ k = Work(req.op)[1]
         /\ k = "DisableUnitFiles" => Disabling /\ k = Work(req.op)[1]
         /\ k = "Reload" => ran[Work(req.op)[1]] = "ok"
         /\ k \in {"StartUnit", "StopUnit"} =>
              ran[Work(req.op)[1]] = "ok" /\ ran["Reload"] = "ok"
         /\ ~(Enabling /\ Disabling)
         /\ Work(req.op)[1] \in {"EnableUnitFiles", "DisableUnitFiles"}
  <1>1. TypeOK /\ step \in 1..3 /\ step <= Len(Work(req.op))
    BY DEF Inv, TypeOK, InOrder
  <1>2. PICK i \in 1..step : k = Work(req.op)[i]
    BY DEF Inv, InOrder
  <1>3. \A j \in 1..(step - 1) : ran[Work(req.op)[j]] = "ok"
    BY DEF Inv, InOrder
  <1>4. Shape(req.op, Work(req.op)) /\ req.op \in AllOps
    BY <1>1, Typed, WorkShape
  <1>5. i \in 1..3 /\ (i >= 2 => ran[Work(req.op)[1]] = "ok") /\ (i = 3 => ran[Work(req.op)[2]] = "ok")
    BY <1>1, <1>3
  <1>6. CASE req.op = "enable"
    <2>1. Work(req.op) = <<"EnableUnitFiles", "Reload">>
      BY <1>4, <1>6 DEF Shape
    <2> QED
      BY <1>1, <1>2, <1>5, <1>6, <2>1 DEF Enabling, Disabling
  <1>7. CASE req.op = "enable --now"
    <2>1. Work(req.op) = <<"EnableUnitFiles", "Reload", "StartUnit">>
      BY <1>4, <1>7 DEF Shape
    <2>2. /\ Work(req.op)[1] = "EnableUnitFiles" /\ Work(req.op)[2] = "Reload" /\ Work(req.op)[3] = "StartUnit"
      BY <2>1
    <2>3. Enabling /\ ~(Enabling /\ Disabling)
      BY <1>7 DEF Enabling, Disabling
    <2>4. i = 1 \/ i = 2 \/ i = 3
      BY <1>5
    <2>5. k = "EnableUnitFiles" \/ k = "Reload" \/ k = "StartUnit"
      BY <1>2, <2>2, <2>4
    <2>6. k = "Reload" => i = 2
      BY <1>2, <2>2, <2>4
    <2>7. k = "StartUnit" => i = 3
      BY <1>2, <2>2, <2>4
    <2> QED
      BY <1>5, <2>2, <2>3, <2>5, <2>6, <2>7
  <1>8. CASE req.op = "disable"
    <2>1. Work(req.op) = <<"DisableUnitFiles", "Reload">>
      BY <1>4, <1>8 DEF Shape
    <2> QED
      BY <1>1, <1>2, <1>5, <1>8, <2>1 DEF Enabling, Disabling
  <1>9. CASE req.op = "disable --now"
    <2>1. Work(req.op) = <<"DisableUnitFiles", "Reload", "StopUnit">>
      BY <1>4, <1>9 DEF Shape
    <2>2. /\ Work(req.op)[1] = "DisableUnitFiles" /\ Work(req.op)[2] = "Reload" /\ Work(req.op)[3] = "StopUnit"
      BY <2>1
    <2>3. Disabling /\ ~(Enabling /\ Disabling)
      BY <1>9 DEF Enabling, Disabling
    <2>4. i = 1 \/ i = 2 \/ i = 3
      BY <1>5
    <2>5. k = "DisableUnitFiles" \/ k = "Reload" \/ k = "StopUnit"
      BY <1>2, <2>2, <2>4
    <2>6. k = "Reload" => i = 2
      BY <1>2, <2>2, <2>4
    <2>7. k = "StopUnit" => i = 3
      BY <1>2, <2>2, <2>4
    <2> QED
      BY <1>5, <2>2, <2>3, <2>5, <2>6, <2>7
  <1> QED
    BY <1>6, <1>7, <1>8, <1>9 DEF Enabling, Disabling
LEMMA NotEnabling ==
  ASSUME NEW on \in BOOLEAN, ~on, ~Enabling
  PROVE  on = Enabling
  <1>1. on = FALSE
    OBVIOUS
  <1> QED
    BY <1>1, Zenon DEF Enabling

LEMMA SystemdKeeps ==
  ASSUME Inv, NEW k \in Methods, NEW r \in {"ok", "Dbus"}, Systemd(k, r)
  PROVE  Inv'
  <1>1. /\ UNCHANGED <<forced, advertised, esc, rest, req, consent, stage, step, trail, exit>>
        /\ answer' = answer /\ answer[k] # "unsent" /\ ran[k] = "no"
        /\ ran' = [ran EXCEPT ![k] = r]
    BY DEF Systemd, escVars, userVars, Transport!Perform
  <1>2. TypeOK
    BY DEF Inv
  <1>3. /\ ran' \in [Calls -> {"ok", "Dbus", "no"}]
        /\ ran'[k] = r
        /\ \A j \in Calls : j = k \/ ran'[j] = ran[j]
        /\ \A j \in Calls : ran[j] # "no" => ran'[j] = ran[j]
    BY <1>1, <1>2, Typed
  <1>4. Esc!TypeOK'
    BY <1>1, <1>2, <1>3, Typed DEF TypeOK, Esc!TypeOK, Esc!Transport!TypeOK, Esc!Transport!Performed
  <1>5. file' \in BOOLEAN /\ cached' \in BOOLEAN
    BY <1>2 DEF Systemd, TypeOK
  <1>6. TypeOK'
    BY <1>1, <1>2, <1>4, <1>5 DEF TypeOK
  <1>7. GatesFirst'
    BY <1>1 DEF Inv, GatesFirst, Cleared, Passed, ShouldPrompt
  <1>8. PeerThere'
    <2>1. Esc!RootPeers \subseteq Esc!RootPeers'
      BY <1>2, <1>3, Typed DEF Esc!RootPeers
    <2> QED
      BY <1>1, <2>1 DEF Inv, PeerThere
  <1>9. /\ Work(req.op) \in Seq(Methods) /\ Len(Work(req.op)) \in 1..3
        /\ step \in 1..3 /\ step <= Len(Work(req.op))
    BY <1>2, Typed, WorkShape DEF Inv, InOrder, TypeOK
  <1>10. \A i \in 1..Len(Work(req.op)) : Work(req.op)[i] \in Calls
    BY <1>2, <1>9, Typed
  <1>11. InOrder'
    <2>1. ASSUME NEW i \in 1..(step - 1) PROVE ran'[Work(req.op)[i]] = "ok"
      <3>1. i \in 1..Len(Work(req.op)) /\ ran[Work(req.op)[i]] = "ok"
        BY <1>9 DEF Inv, InOrder
      <3> QED
        BY <1>3, <1>10, <3>1
    <2>2. \A j \in Calls : ran'[j] # "no" => answer[j] # "unsent"
      BY <1>1, <1>3 DEF Inv, InOrder
    <2> QED
      BY <1>1, <2>1, <2>2 DEF Inv, InOrder
  <1>12. OnRecord'
    <2>1. ran[Method] = "ok" => ran'[Method] = "ok"
      BY <1>3, <1>9, <1>10 DEF Method
    <2> QED
      BY <1>1, <2>1 DEF Inv, OnRecord, Method
  <1>13. InEffect'
    <2>1. SUFFICES ASSUME Enabling \/ Disabling
                   PROVE  /\ ran'[Work(req.op)[1]] = "ok" => file' = Enabling
                          /\ ran'["Reload"] = "ok" =>
                               ran'[Work(req.op)[1]] = "ok" /\ cached' = Enabling
      BY <1>1 DEF InEffect, Enabling, Disabling
    <2> DEFINE first == Work(req.op)[1]
    <2>2. first \in Calls /\ "Reload" \in Calls
      BY <1>2, <1>9, <1>10, Typed DEF Methods
    <2>3. /\ ran[first] = "ok" => file = Enabling
          /\ ran["Reload"] = "ok" => ran[first] = "ok" /\ cached = Enabling
      BY <2>1 DEF Inv, InEffect
    <2>4. /\ k = "EnableUnitFiles" => Enabling /\ k = first
          /\ k = "DisableUnitFiles" => Disabling /\ k = first
          /\ k = "Reload" => ran[first] = "ok"
          /\ ~(Enabling /\ Disabling)
          /\ first \in {"EnableUnitFiles", "DisableUnitFiles"}
      BY <1>1, <2>1, Positions
    <2> HIDE DEF first
    <2>5. /\ file' = (IF r = "Dbus" THEN file
                      ELSE IF k = "EnableUnitFiles" THEN TRUE
                      ELSE IF k = "DisableUnitFiles" THEN FALSE
                      ELSE file)
          /\ cached' = (IF r = "ok" /\ k = "Reload" THEN file ELSE cached)
      BY DEF Systemd
    <2>6. CASE r = "Dbus"
      BY <1>1, <1>3, <2>2, <2>3, <2>5, <2>6 DEF first
    <2>7. CASE r = "ok" /\ k = "EnableUnitFiles"
      BY <1>1, <1>3, <2>2, <2>3, <2>4, <2>5, <2>7 DEF first
    <2>8. CASE r = "ok" /\ k = "DisableUnitFiles"
      <3>1. file' = Enabling
        <4>1. ~Enabling
          BY <2>4, <2>8
        <4>2. file' \in BOOLEAN /\ ~file'
          BY <2>5, <2>8
        <4> QED
          BY <4>1, <4>2, NotEnabling
      <3>2. ran'["Reload"] = ran["Reload"] /\ ran["Reload"] # "ok"
        BY <1>1, <1>3, <2>2, <2>3, <2>4, <2>8
      <3> QED
        BY <3>1, <3>2 DEF first
    <2>9. CASE r = "ok" /\ k = "Reload"
      BY <1>1, <1>3, <2>2, <2>3, <2>4, <2>5, <2>9 DEF first
    <2>10. CASE r = "ok" /\ k \notin {"EnableUnitFiles", "DisableUnitFiles", "Reload"}
      BY <1>1, <1>3, <2>2, <2>3, <2>4, <2>5, <2>10 DEF first
    <2> QED
      BY <2>6, <2>7, <2>8, <2>9, <2>10
  <1> QED
    BY <1>6, <1>7, <1>8, <1>11, <1>12, <1>13 DEF Inv
-----------------------------------------------------------------------------
(* The invariant. *)

LEMMA InvInit == Init => Inv
  <1> SUFFICES ASSUME Init PROVE Inv
    OBVIOUS
  <1>1. Esc!TypeOK
    BY DEF Init, Esc!Init, Esc!Transport!Init, Esc!TypeOK, Esc!Transport!TypeOK, Esc!Transport!Performed
  <1>2. trail \in Seq({"attempt", "ok", "error"}) /\ Len(trail) = 0
    BY DEF Init
  <1>3. TypeOK
    <2>1. req \in Request /\ file \in BOOLEAN /\ cached \in BOOLEAN /\ consent \in BOOLEAN
      BY DEF Init
    <2>2. stage \in Stages /\ exit \in Exits /\ step \in 1..3
      BY DEF Init, Stages, Exits
    <2> QED
      BY <1>1, <1>2, <2>1, <2>2 DEF TypeOK
  <1>4. \A k \in Calls : answer[k] = "unsent" /\ ran[k] = "no"
    BY DEF Init, Esc!Init, Esc!Transport!Init
  <1>5. GatesFirst
    BY <1>4 DEF Init, GatesFirst
  <1>6. PeerThere
    BY DEF Init, Esc!Init, PeerThere
  <1>7. Len(Work(req.op)) \in 1..3 /\ Work(req.op) \in Seq(Methods) /\ step = 1
    BY <1>3, Typed, WorkShape DEF Init
  <1>8. InOrder
    <2>1. \A n \in 1..3 : 1 <= n
      OBVIOUS
    <2>3. step <= Len(Work(req.op))
      BY <1>7, <2>1
    <2>4. 1..(step - 1) = {}
      BY <1>7
    <2>2. Methods \subseteq Calls /\ stage = "parsed"
      BY <1>3, Typed DEF Init
    <2> QED
      BY <1>4, <2>2, <2>3, <2>4 DEF InOrder
  <1>9. OnRecord
    BY <1>2 DEF Init, OnRecord
  <1>10. InEffect
    <2>1. Work(req.op)[1] \in Calls /\ "Reload" \in Calls
      BY <1>3, <1>7, Typed DEF Methods
    <2> QED
      BY <1>4, <2>1 DEF InEffect
  <1> QED
    BY <1>3, <1>5, <1>6, <1>8, <1>9, <1>10 DEF Inv

LEMMA InvStep == Inv /\ [Next]_vars => Inv'
  <1> SUFFICES ASSUME Inv, [Next]_vars PROVE Inv'
    OBVIOUS
  <1>1. CASE Gate
    BY <1>1, GateKeeps
  <1>2. CASE Confirm
    BY <1>2, ConfirmKeeps
  <1>3. CASE Attempt
    BY <1>3, AttemptKeeps
  <1>4. CASE Connect
    BY <1>4, ConnectKeeps
  <1>5. CASE Escalate
    BY <1>5, EscalateKeeps
  <1>6. CASE Escalated
    BY <1>6, EscalatedKeeps
  <1>7. CASE Call
    BY <1>7, CallKeeps
  <1>8. CASE Answered
    BY <1>8, AnsweredKeeps
  <1>9. CASE Unanswered
    BY <1>9, UnansweredKeeps
  <1>10. CASE Result
    BY <1>10, ResultKeeps
  <1>11. CASE Superuser
    BY <1>11, SuperuserKeeps
  <1>12. CASE \E method \in Methods, r \in {"ok", "Dbus"} : Systemd(method, r)
    BY <1>12, SystemdKeeps
  <1>13. CASE UNCHANGED vars
    <2>1. /\ UNCHANGED <<ran, answer, forced, advertised, esc, rest, req, file, cached, step>>
          /\ UNCHANGED <<consent, stage, trail, exit>>
      BY <1>13 DEF vars, callVars, escVars, userVars, unitVars
    <2>2. Esc!TypeOK' /\ PeerThere' /\ InOrder' /\ InEffect'
      BY <2>1, Quiet DEF Inv, InOrder
    <2>3. TypeOK'
      BY <2>1, <2>2 DEF Inv, TypeOK
    <2>4. GatesFirst' /\ OnRecord'
      BY <2>1 DEF Inv, GatesFirst, Cleared, Passed, ShouldPrompt, OnRecord, Method
    <2> QED
      BY <2>2, <2>3, <2>4 DEF Inv
  <1> QED
    BY <1>1, <1>2, <1>3, <1>4, <1>5, <1>6, <1>7, <1>8, <1>9, <1>10, <1>11, <1>12, <1>13
       DEF Next, Client, Over

LEMMA Invariance == Spec => []Inv
  BY InvInit, InvStep, PTL DEF Spec
-----------------------------------------------------------------------------
(* What the invariant says. *)

\* Every reachable state of a mutation is type correct.
THEOREM TypeCorrect == Spec => []TypeOK
  <1>1. Inv => TypeOK
    BY DEF Inv
  <1> QED
    BY <1>1, Invariance, PTL

\* No call leaves fez that the policy on protected units, a dry run or a user at the
\* terminal should have stopped, whatever else happens.
THEOREM GatesHold == Spec => []Gated
  <1>1. Inv => Gated
    BY DEF Inv, GatesFirst, Gated, Cleared, Passed
  <1> QED
    BY <1>1, Invariance, PTL

\* After an outcome that says nothing was done, no systemd call is on its way, for good.
THEOREM RefusalsAreFinal == Spec => []RefusalIsFinal
  <1>1. ASSUME Inv PROVE RefusalIsFinal
    BY <1>1, Typed DEF Inv, GatesFirst, InOrder, RefusalIsFinal
  <1> QED
    BY <1>1, Invariance, PTL

\* systemd acts only behind a root peer, and the second half of an enablement is asked
\* for only when its first half is in effect and loaded.
THEOREM LoadsFirst == Spec => []LoadedFirst
  <1>1. ASSUME Inv PROVE LoadedFirst
    <2>1. TypeOK
      BY <1>1 DEF Inv
    <2>2. Performed \cap Methods # {} => Esc!RootPeers # {}
      BY <1>1, <2>1, Typed DEF Inv, InOrder, PeerThere, Performed
    <2>3. ASSUME req.op \in {"enable --now", "disable --now"},
                 NEW m \in {"StartUnit", "StopUnit"}, answer[m] # "unsent"
          PROVE  file = (req.op = "enable --now") /\ cached = file
      <3>1. Enabling \/ Disabling
        BY <2>3 DEF Enabling, Disabling
      <3>2. m \in Methods
        BY DEF Methods
      <3>3. ran[Work(req.op)[1]] = "ok" /\ ran["Reload"] = "ok"
        BY <1>1, <2>3, <3>1, <3>2, Positions
      <3>4. file = Enabling /\ cached = Enabling
        BY <1>1, <3>1, <3>3 DEF Inv, InEffect
      <3> QED
        <4>1. CASE req.op = "enable --now"
          BY <3>4, <4>1 DEF Enabling
        <4>2. CASE req.op = "disable --now"
          <5>1. file \in BOOLEAN /\ ~Enabling
            BY <2>1, <4>2 DEF Enabling, TypeOK
          <5>2. ~file
            BY <3>4, <5>1 DEF Enabling
          <5>3. ~(req.op = "enable --now") /\ cached = file
            BY <3>4, <4>2
          <5> QED
            BY <5>1, <5>2, <5>3
        <4> QED
          BY <2>3, <4>1, <4>2
    <2> QED
      BY <2>2, <2>3 DEF LoadedFirst
  <1> QED
    BY <1>1, Invariance, PTL

\* When success was reported every call of the operation was performed.
LEMMA AllDone ==
  ASSUME Inv, exit = "ok"
  PROVE  Goal \subseteq Performed
  <1>1. TypeOK /\ step = Len(Work(req.op)) /\ ran[Method] = "ok"
    BY DEF Inv, OnRecord
  <1>2. Work(req.op) \in Seq(Methods) /\ Len(Work(req.op)) \in 1..3
    BY <1>1, Typed, WorkShape
  <1>3. ASSUME NEW i \in DOMAIN Work(req.op) PROVE Work(req.op)[i] \in Performed
    <2>1. i \in 1..Len(Work(req.op)) /\ Work(req.op)[i] \in Calls
      BY <1>1, <1>2, Typed
    <2>2. i \in 1..(step - 1) \/ i = step
      BY <1>1, <1>2, <2>1
    <2>3. ran[Work(req.op)[i]] = "ok"
      BY <1>1, <2>2 DEF Inv, InOrder, Method
    <2> QED
      BY <2>1, <2>3 DEF Performed
  <1> QED
    BY <1>3 DEF Goal

\* A success that is reported or on record is one, in effect and loaded.
THEOREM SuccessHolds == Spec => []SuccessIsReal
  <1>1. ASSUME Inv, exit = "ok" \/ trail = <<"attempt", "ok">>
        PROVE  /\ Goal \subseteq Performed
               /\ exit = "ok"
               /\ req.op \in {"enable", "enable --now"} => file /\ cached
               /\ req.op \in {"disable", "disable --now"} => ~file /\ ~cached
    <2>1. exit = "ok"
      BY <1>1 DEF Inv, OnRecord
    <2>2. Goal \subseteq Performed
      BY <1>1, <2>1, AllDone
    <2>3. ASSUME Enabling \/ Disabling PROVE file = Enabling /\ cached = Enabling
      <3>1. TypeOK /\ Shape(req.op, Work(req.op)) /\ Work(req.op) \in Seq(Methods) /\ Len(Work(req.op)) \in 1..3
        BY <1>1, Typed, WorkShape DEF Inv
      <3>2. 2 \in DOMAIN Work(req.op) /\ Work(req.op)[2] = "Reload"
        <4>1. \A a, b : Len(<<a, "Reload">>) = 2 /\ <<a, "Reload">>[2] = "Reload"
          OBVIOUS
        <4>2. \A a, b : Len(<<a, "Reload", b>>) = 3 /\ <<a, "Reload", b>>[2] = "Reload"
          OBVIOUS
        <4>3. Len(Work(req.op)) \in {2, 3} /\ Work(req.op)[2] = "Reload"
          BY <2>3, <3>1, <4>1, <4>2 DEF Shape, Enabling, Disabling
        <4> QED
          BY <3>1, <4>3
      <3>3. ran["Reload"] = "ok"
        BY <2>2, <3>2 DEF Goal, Performed
      <3> QED
        BY <1>1, <2>3, <3>3 DEF Inv, InEffect
    <2>4. TypeOK
      BY <1>1 DEF Inv
    <2>5. ~(Enabling /\ Disabling)
      BY DEF Enabling, Disabling
    <2> QED
      BY <2>1, <2>2, <2>3, <2>4, <2>5 DEF Enabling, Disabling, TypeOK
  <1>2. Inv => SuccessIsReal
    BY <1>1 DEF SuccessIsReal
  <1> QED
    BY <1>2, Invariance, PTL-----------------------------------------------------------------------------
(* The mutation keeps the promises of the audit trail. *)

Done == Performed \cap Methods

LEMMA GoalIsMethods ==
  ASSUME TypeOK
  PROVE  Goal \subseteq Methods
  <1>1. Work(req.op) \in Seq(Methods)
    BY Typed, WorkShape
  <1> QED
    BY <1>1 DEF Goal

\* A step that performs no method and writes no record is none of the audit's.
LEMMA Stutters ==
  ASSUME UNCHANGED <<req, trail>>, \A k \in Methods : ran'[k] = ran[k], Methods \subseteq Calls
  PROVE  UNCHANGED Audit!vars
  <1>1. Goal' = Goal
    BY DEF Goal
  <1>2. Done' = Done
    BY DEF Done, Performed
  <1> QED
    BY <1>1, <1>2 DEF Audit!vars, Done

LEMMA SystemdDoes ==
  ASSUME Inv, NEW k \in Methods, NEW r \in {"ok", "Dbus"}, Systemd(k, r)
  PROVE  [Audit!Next]_(Audit!vars)
  <1>1. /\ UNCHANGED <<req, trail>>
        /\ answer[k] # "unsent" /\ ran[k] = "no"
        /\ ran' = [ran EXCEPT ![k] = r]
    BY DEF Systemd, userVars, Transport!Perform
  <1>2. TypeOK
    BY DEF Inv
  <1>3. ran'[k] = r /\ \A j \in Calls : j = k \/ ran'[j] = ran[j]
    BY <1>1, <1>2, Typed
  <1>4. CASE r = "Dbus"
    <2>1. Goal' = Goal
      BY <1>1 DEF Goal
    <2>2. Done' = Done
      BY <1>1, <1>2, <1>3, <1>4, Typed DEF Done, Performed
    <2> QED
      BY <1>1, <2>1, <2>2 DEF Audit!vars, Done
  <1>5. CASE r = "ok"
    <2>1. Goal' = Goal
      BY <1>1 DEF Goal
    <2>2. k \in Goal \ Done
      <3>1. \E i \in 1..step : k = Work(req.op)[i]
        BY <1>1 DEF Inv, InOrder
      <3>2. step \in 1..3 /\ step <= Len(Work(req.op)) /\ Work(req.op) \in Seq(Methods) /\ Len(Work(req.op)) \in 1..3
        BY <1>2, Typed, WorkShape DEF Inv, InOrder, TypeOK
      <3>3. \E i \in DOMAIN Work(req.op) : k = Work(req.op)[i]
        BY <3>1, <3>2
      <3> QED
        BY <1>1, <3>3 DEF Goal, Done, Performed
    <2>3. Done' = Done \cup {k}
      BY <1>2, <1>3, <1>5, Typed DEF Done, Performed
    <2>4. trail # <<>>
      <3>1. /\ stage \notin {"parsed", "prompt", "attempt", "connect"}
            /\ exit \notin {"Usage", "Protected", "DryRun", "Aborted"}
        BY <1>1, <1>2, Typed DEF Inv, GatesFirst
      <3>2. Len(trail) \in {1, 2}
        BY <1>2, <3>1 DEF Inv, OnRecord, TypeOK, Stages
      <3> QED
        BY <3>2
    <2>5. Audit!Do(k)
      BY <1>1, <2>1, <2>2, <2>3, <2>4 DEF Audit!Do, Done
    <2> QED
      BY <2>5 DEF Audit!Next
  <1> QED
    BY <1>4, <1>5
LEMMA AttemptRecords ==
  ASSUME Inv, Attempt
  PROVE  Audit!Next
  <1>1. UNCHANGED <<req, ran>> /\ trail = <<>> /\ trail' = Append(trail, "attempt")
    BY DEF Attempt, Inv, OnRecord, callVars, userVars
  <1>2. Append(<<>>, "attempt") = <<"attempt">>
    OBVIOUS
  <1>3. Goal' = Goal /\ Done' = Done
    BY <1>1 DEF Goal, Done, Performed
  <1> QED
    BY <1>1, <1>2, <1>3 DEF Audit!Next, Audit!Attempt, Done

LEMMA ResultRecords ==
  ASSUME Inv, Result
  PROVE  Audit!Next
  <1>1. UNCHANGED <<req, ran>> /\ Len(trail) = 1
    BY DEF Result, Inv, OnRecord, callVars, userVars
  <1>2. Goal' = Goal /\ Done' = Done
    BY <1>1 DEF Goal, Done, Performed
  <1>3. CASE exit = "ok"
    <2>1. trail' = Append(trail, "ok")
      BY <1>3 DEF Result
    <2>2. Goal \subseteq Done
      BY <1>3, AllDone, GoalIsMethods DEF Inv, Done
    <2>3. Audit!Record("ok")
      BY <1>1, <1>2, <2>1, <2>2 DEF Audit!Record, Done
    <2> QED
      BY <2>3 DEF Audit!Next
  <1>4. CASE exit # "ok"
    <2>1. trail' = Append(trail, "error")
      BY <1>4 DEF Result
    <2>2. Audit!Record("error")
      BY <1>1, <1>2, <2>1 DEF Audit!Record, Done
    <2> QED
      BY <2>2 DEF Audit!Next
  <1> QED
    BY <1>3, <1>4

LEMMA AuditInit == Init => Audit!Init
  <1> SUFFICES ASSUME Init PROVE Audit!Init
    OBVIOUS
  <1>1. Goal \subseteq Methods
    BY InvInit, GoalIsMethods DEF Inv
  <1>2. Done = {} /\ trail = <<>>
    BY DEF Init, Esc!Init, Esc!Transport!Init, Done, Performed
  <1> QED
    BY <1>1, <1>2 DEF Audit!Init, Done

LEMMA AuditStep == Inv /\ [Next]_vars => [Audit!Next]_(Audit!vars)
  <1> SUFFICES ASSUME Inv, [Next]_vars PROVE [Audit!Next]_(Audit!vars)
    OBVIOUS
  <1>1. Methods \subseteq Calls /\ TypeOK /\ \A k \in Methods : k \notin Mechanisms \cup {"Bridges"}
    BY Typed DEF Inv
  <1>2. CASE Attempt
    BY <1>2, AttemptRecords
  <1>3. CASE Result
    BY <1>3, ResultRecords
  <1>4. CASE Gate \/ Confirm \/ Connect \/ Escalated \/ Call \/ Answered \/ Unanswered
    <2>1. UNCHANGED <<ran, req, trail>>
      BY <1>4 DEF Gate, Confirm, Connect, Escalated, Call, Answered, Unanswered, callVars, userVars,
                  Transport!Send, Transport!SendKills, Transport!Return, Transport!Fail
    <2> QED
      BY <1>1, <2>1, Stutters
  <1>5. CASE Escalate
    <2>1. UNCHANGED <<ran, req, trail>>
      BY <1>5, EscalateParts DEF Escalate, userVars
    <2> QED
      BY <1>1, <2>1, Stutters
  <1>6. CASE Superuser
    <2>1. PICK k \in Mechanisms \cup {"Bridges"}, r \in {"ok", "Dbus"} : ran' = [ran EXCEPT ![k] = r]
      BY <1>6 DEF Superuser, Esc!Bridge, Esc!Transport!Perform
    <2>2. \A j \in Methods : ran'[j] = ran[j]
      BY <1>1, <2>1, Typed
    <2>3. UNCHANGED <<req, trail>>
      BY <1>6 DEF Superuser, userVars
    <2> QED
      BY <1>1, <2>2, <2>3, Stutters
  <1>7. CASE \E method \in Methods, r \in {"ok", "Dbus"} : Systemd(method, r)
    BY <1>7, SystemdDoes
  <1>8. CASE UNCHANGED vars
    <2>1. UNCHANGED <<ran, req, trail>>
      BY <1>8 DEF vars, callVars, userVars
    <2> QED
      BY <1>1, <2>1, Stutters
  <1> QED
    BY <1>2, <1>3, <1>4, <1>5, <1>6, <1>7, <1>8 DEF Next, Client, Over

\* A service mutation keeps every promise of the audit trail: nothing is done before the
\* attempt is on record, one result follows it, and `ok` means that all was done.
THEOREM AuditHolds == Spec => ImplementsAudit
  BY AuditInit, AuditStep, Invariance, PTL DEF Spec, ImplementsAudit, Audit!Spec
=============================================================================
