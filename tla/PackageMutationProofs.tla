----------------------- MODULE PackageMutationProofs -----------------------
(***************************************************************************)
(* Theorems about PackageMutation, for every list of mechanisms a bridge   *)
(* can advertise, every value of FEZ_ESCALATION and every set of plans the *)
(* request can come to.                                                    *)
(*                                                                         *)
(* The two backends are two paths from open_session through the calls.     *)
(* The argument is about the place of the call an invocation is at: what   *)
(* was sent lies behind it on one path only, and the calls that change     *)
(* packages lie beyond the guardrails and the attempt on record.           *)
(***************************************************************************)
EXTENDS PackageMutation, SequenceTheorems, FiniteSetTheorems, TLAPS

Own == DnfCalls \cup PkCalls
Early == {"open_session", "stage", "resolve", "create1", "Resolve", "create2", "Simulate"}
Late == {"do_transaction", "create3", "Exec"}

\* The calls made by the time an invocation is at k.
Reached(k) ==
  CASE k = "open_session"   -> {"open_session"}
    [] k = "stage"          -> {"open_session", "stage"}
    [] k = "resolve"        -> {"open_session", "stage", "resolve"}
    [] k = "do_transaction" -> DnfCalls \ {"close_session"}
    [] k = "close_session"  -> DnfCalls
    [] k = "create1"        -> {"open_session", "create1"}
    [] k = "Resolve"        -> {"open_session", "create1", "Resolve"}
    [] k = "create2"        -> {"open_session", "create1", "Resolve", "create2"}
    [] k = "Simulate"       -> {"open_session", "create1", "Resolve", "create2", "Simulate"}
    [] k = "create3"        -> {"open_session"} \cup (PkCalls \ {"Exec"})
    [] k = "Exec"           -> {"open_session"} \cup PkCalls

\* What was sent lies on the path to the present call, and PackageKit's path is taken only
\* where the bus does not know dnf5daemon.
OnPath ==
  /\ \A k \in Own : Sent(k) => k \in Reached(at)
  /\ \A k \in Own : ran[k] # "no" => Sent(k)
  /\ \A k \in Own : answer[k] = "ok" => ran[k] = "ok"
  /\ \A k \in unknown : ran[k] = "Dbus"
  /\ "open_session" \in unknown => Absent("dnf5daemon")
  /\ at \in PkCalls => "open_session" \in unknown
  /\ at \in DnfCalls \ {"open_session"} => SessionOpen
  /\ stage \in {"connect", "validate", "escalate"} => at = "open_session"

\* A backend reported that the packages were changed.
CarriedOut == ran["do_transaction"] = "ok" \/ (ran["Exec"] = "ok" /\ "Exec" \notin errors)

\* The outcomes that say that nothing was done and leave nothing on record.
Refusals == {"Usage", "DryRun", "NotFound", "DangerousTransaction"}

\* Where an invocation stands says what is on record and how it can have ended.
InTurn ==
  /\ stage \in {"connect", "validate", "escalate"} => Len(trail) = 0 /\ exit = "none"
  /\ stage \in {"call", "wait"} /\ at \in Early => Len(trail) = 0 /\ exit = "none"
  /\ stage \in {"decide", "attempt"} =>
       at \in {"resolve", "Simulate"} /\ Len(trail) = 0 /\ exit = "none"
  /\ stage \in {"call", "wait"} /\ at \in Late => Len(trail) = 1 /\ exit = "none"
  /\ stage = "record" =>
       at \in {"do_transaction", "Exec"} /\ Len(trail) = 1
         /\ exit \notin Refusals \cup {"DependencyMissing"}
  /\ exit = "DependencyMissing" => at \in Creating /\ Len(trail) < 2
  /\ Len(trail) # 0 => trail[1] = "attempt"
  /\ exit = "ok" \/ (Len(trail) = 2 /\ trail[2] = "ok") => CarriedOut

\* Nothing that changes packages happens before the guardrails were passed.
Passes == req.force \/ CheckRemovalPlan(RemoveNames(plan))
Accepted == ~req.dryRun /\ plan # "none" /\ Passes

Guarded ==
  /\ stage = "attempt" \/ Len(trail) # 0 => Accepted
  /\ stage = "decide" => plan # "none"
  /\ Len(trail) # 0 => exit \notin Refusals
  /\ \A k \in Late : Sent(k) => Len(trail) # 0

\* The plan shown is the goal of the session, and the goal is what dnf5daemon applies.
AsPlanned ==
  /\ ran["resolve"] = "ok" \/ ran["Simulate"] = "ok" => goal # "none"
  /\ plan # "none" => plan = goal /\ (ran["resolve"] = "ok" \/ ran["Simulate"] = "ok")
  /\ applied # "none" => ran["do_transaction"] = "ok" \/ ran["Exec"] = "ok"
  /\ ran["do_transaction"] = "ok" => applied = goal /\ goal # "none"
  /\ ran["Exec"] = "ok" /\ "Exec" \notin errors => applied # "none"

\* The mechanism being started is there.
PeerThere == esc = "starting" => rest # <<>>

Inv == TypeOK /\ PeerThere /\ OnPath /\ InTurn /\ Guarded /\ AsPlanned /\ SessionClosed

\* What the guardrails said holds as long as plan, request and session do.
LEMMA PassesStill ==
  ASSUME plan' = plan, req' = req, SessionOpen' <=> SessionOpen
  PROVE  Passes' <=> Passes
  <1>1. RemoveNames(plan)' = RemoveNames(plan)
    BY DEF RemoveNames, ParsePlan, PlanFrom
  <1> QED
    BY <1>1 DEF Passes, CheckRemovalPlan
-----------------------------------------------------------------------------
(* The paths. *)

\* The call that may follow k.
Follows(k, n) ==
  \/ k = "open_session" /\ n \in {"stage", "create1"}
  \/ k = "stage" /\ n = "resolve"
  \/ k = "resolve" /\ n = "do_transaction"
  \/ k \in {"stage", "resolve", "do_transaction"} /\ n = "close_session"
  \/ k = "create1" /\ n = "Resolve"
  \/ k = "Resolve" /\ n = "create2"
  \/ k = "create2" /\ n = "Simulate"
  \/ k = "Simulate" /\ n = "create3"
  \/ k = "create3" /\ n = "Exec"

LEMMA ReachedSelf ==
  ASSUME NEW k \in Own
  PROVE  k \in Reached(k)
  BY DEF Own, Reached, DnfCalls, PkCalls, Creating, Collecting

LEMMA ReachedGrows ==
  ASSUME NEW k, NEW n, Follows(k, n)
  PROVE  k \in Own /\ n \in Own /\ Reached(k) \subseteq Reached(n)
  <1>1. k \in Own /\ n \in Own
    BY DEF Follows, Own, DnfCalls, PkCalls, Creating, Collecting
  <1>2. Reached(k) \subseteq Reached(n)
    BY DEF Follows, Reached, DnfCalls, PkCalls, Creating, Collecting
  <1> QED
    BY <1>1, <1>2

\* The two paths have open_session in common and no more, and the calls that change
\* packages come late on them.
LEMMA Paths ==
  ASSUME NEW k \in Own
  PROVE  /\ Reached(k) \cap (DnfCalls \ {"open_session"}) # {} => k \in DnfCalls \ {"open_session"}
         /\ Reached(k) \cap PkCalls # {} => k \in PkCalls
         /\ Reached(k) \cap Late # {} => k \in Late \cup {"close_session"}
         /\ k \in Early \cup Late \cup {"close_session"}
         /\ k \in DnfCalls => k \notin PkCalls
  <1>1. Reached(k) \cap (DnfCalls \ {"open_session"}) # {} => k \in DnfCalls \ {"open_session"}
    BY DEF Own, Reached, DnfCalls, PkCalls, Creating, Collecting
  <1>2. Reached(k) \cap PkCalls # {} => k \in PkCalls
    BY DEF Own, Reached, DnfCalls, PkCalls, Creating, Collecting
  <1>3. Reached(k) \cap Late # {} => k \in Late \cup {"close_session"}
    BY DEF Own, Reached, DnfCalls, PkCalls, Creating, Collecting, Late
  <1>4. k \in Early \cup Late \cup {"close_session"}
    BY DEF Own, DnfCalls, PkCalls, Creating, Collecting, Early, Late
  <1>5. k \in DnfCalls => k \notin PkCalls
    BY DEF DnfCalls, PkCalls, Creating, Collecting
  <1> QED
    BY <1>1, <1>2, <1>3, <1>4, <1>5

LEMMA Typed ==
  ASSUME TypeOK
  PROVE  /\ ran \in [Calls -> {"ok", "Dbus", "no"}]
         /\ answer \in [Calls -> {"ok", "Dbus", "unsent", "pending", "failed", "killed"}]
         /\ rest \in Seq(Mechanisms)
         /\ advertised \in Seq(Mechanisms)
         /\ Own \subseteq Calls
         /\ Mechanisms \subseteq Calls
         /\ "Bridges" \in Calls
         /\ Own \cap (Mechanisms \cup {"Bridges"}) = {}
         /\ at \in Own
  <1>1. Esc!TypeOK /\ at \in Own
    BY DEF TypeOK, Own
  <1>2. Esc!Transport!TypeOK /\ rest \in Seq(Mechanisms) /\ advertised \in Lists
    BY <1>1 DEF Esc!TypeOK
  <1> QED
    BY <1>1, <1>2, CallsAssumption, EscalationAssumption
       DEF Calls, Own, Esc!Transport!TypeOK, Esc!Transport!Performed
-----------------------------------------------------------------------------
(* Steps of the client after the escalation. *)

\* Such a step performs nothing, and takes no call back.
Kept ==
  /\ UNCHANGED <<ran, forced, advertised, esc, rest, present, unknown, world, goal, errors, applied, req>>
  /\ answer' \in [Calls -> {"ok", "Dbus", "unsent", "pending", "failed", "killed"}]
  /\ \A k \in Own : Sent(k) <=> answer'[k] # "unsent"
  /\ \A k \in Own : answer'[k] = "ok" => ran[k] = "ok"
  /\ SessionOpen => answer'["open_session"] = "ok"
  /\ at # "open_session" => (SessionOpen' <=> SessionOpen)

LEMMA PathKept ==
  ASSUME Inv, Kept, at' = at \/ Follows(at, at'),
         at' \in PkCalls => "open_session" \in unknown,
         at' \in DnfCalls \ {"open_session"} => SessionOpen',
         stage' \in {"connect", "validate", "escalate"} => at' = "open_session"
  PROVE  Esc!TypeOK' /\ PeerThere' /\ OnPath' /\ at' \in Own
  <1>1. TypeOK
    BY DEF Inv
  <1>2. Esc!TypeOK'
    BY <1>1 DEF Kept, TypeOK, Esc!TypeOK, Esc!Transport!TypeOK, Esc!Transport!Performed
  <1>3. PeerThere'
    BY DEF Kept, Inv, PeerThere
  <1>4. at' \in Own /\ Reached(at) \subseteq Reached(at')
    BY <1>1, Typed, ReachedGrows
  <1>5. OnPath'
    <2>1. \A k \in Own : answer'[k] # "unsent" => k \in Reached(at')
      BY <1>4 DEF Kept, Inv, OnPath
    <2>2. \A k \in Own : ran'[k] # "no" => answer'[k] # "unsent"
      BY DEF Kept, Inv, OnPath
    <2>3. \A k \in Own : answer'[k] = "ok" => ran'[k] = "ok"
      BY DEF Kept
    <2>4. /\ \A k \in unknown' : ran'[k] = "Dbus"
          /\ "open_session" \in unknown' => Absent("dnf5daemon")'
      BY DEF Kept, Inv, OnPath, Absent
    <2>5. at' \in PkCalls => "open_session" \in unknown'
      BY DEF Kept
    <2> QED
      BY <2>1, <2>2, <2>3, <2>4, <2>5 DEF OnPath, Sent
  <1> QED
    BY <1>2, <1>3, <1>4, <1>5

\* Away from dnf5daemon's path its session holds nothing.
LEMMA NotStaged ==
  ASSUME Inv, at \notin DnfCalls \ {"open_session"}
  PROVE  ~Sent("stage")
  <1>1. "stage" \in DnfCalls \ {"open_session"} /\ "stage" \in Own
    BY DEF DnfCalls, Own
  <1> QED
    BY <1>1, Typed, Paths DEF Inv, OnPath

\* A plan comes from a session or a transaction that was opened for it.
LEMMA PlannedLater ==
  ASSUME Inv, plan # "none"
  PROVE  at # "open_session"
  <1>1. "resolve" \in Own /\ "Simulate" \in Own
    BY DEF Own, DnfCalls, PkCalls, Collecting
  <1>2. Sent("resolve") \/ Sent("Simulate")
    BY <1>1 DEF Inv, AsPlanned, OnPath
  <1> QED
    BY <1>1, <1>2 DEF Inv, OnPath, Reached

\* How the wait for a call can end.
Onward ==
  /\ stage' = "call" /\ exit' = exit /\ plan' = plan
  /\ Follows(at, at') /\ at' \notin {"do_transaction", "create3", "close_session"}
  /\ at' \in PkCalls => "open_session" \in unknown
  /\ at' \in DnfCalls => SessionOpen'

Closing ==
  /\ SessionOpen /\ at \in {"stage", "resolve"}
  /\ stage' = "call" /\ at' = "close_session" /\ plan' = plan
  /\ exit' \in {"Dbus", "failed", "AccessDenied"}

Ending ==
  /\ stage' = "over" /\ at' = at /\ plan' = plan
  /\ \/ at = "close_session" /\ exit' = exit
     \/ /\ ~SessionOpen
        /\ exit' \in {"Dbus", "failed", "AccessDenied", "NotFound", "DependencyMissing"}
        /\ exit' \in Refusals => at \in Early
        /\ exit' = "DependencyMissing" => at \in Creating

Returned ==
  /\ stage' = "record" /\ at' = at /\ plan' = plan
  /\ at \in {"do_transaction", "Exec"}
  /\ exit' \in {"ok", "Dbus", "failed", "AccessDenied"}
  /\ exit' = "ok" => CarriedOut

Planned ==
  /\ stage' = "decide" /\ at' = at /\ exit' = exit
  /\ at \in {"resolve", "Simulate"} /\ ran[at] = "ok"
  /\ plan' = goal

LEMMA WaitOver ==
  ASSUME Inv, Kept, stage = "wait", answer[at] = "pending", UNCHANGED trail,
         Onward \/ Closing \/ Ending \/ Returned \/ Planned
  PROVE  Inv'
  <1>1. TypeOK /\ at \in Own /\ Sent(at) /\ at \in Early \cup Late \cup {"close_session"}
    BY Typed, Paths DEF Inv, Sent
  <1>2. /\ at' = at \/ Follows(at, at')
        /\ at' \in PkCalls => "open_session" \in unknown
        /\ at' \in DnfCalls \ {"open_session"} => SessionOpen'
        /\ stage' \in {"call", "over", "record", "decide"}
    <2>1. CASE Onward
      BY <2>1 DEF Onward
    <2>2. CASE Closing
      BY <2>2 DEF Closing, Follows, Kept, SessionOpen, PkCalls, Creating, Collecting
    <2>3. CASE Ending \/ Returned \/ Planned
      BY <2>3 DEF Ending, Returned, Planned, Inv, OnPath, Kept, SessionOpen
    <2> QED
      BY <2>1, <2>2, <2>3
  <1>3. Esc!TypeOK' /\ PeerThere' /\ OnPath' /\ at' \in Own
    BY <1>2, PathKept
  <1>4. exit' \in Exits /\ stage' \in Stages /\ plan' \in Plans \cup {"none"}
    BY <1>1, <1>2 DEF TypeOK, Exits, Stages, Onward, Closing, Ending, Returned, Planned
  <1>5. TypeOK'
    BY <1>1, <1>3, <1>4 DEF TypeOK, Kept, Own
  <1>6. CarriedOut' = CarriedOut
    BY DEF CarriedOut, Kept
  <1>7. InTurn'
    <2>1. CASE Onward
      <3>1. at \in Early \cup Late /\ (at \in Early <=> at' \in Early) /\ (at \in Late <=> at' \in Late)
        BY <1>1, <2>1 DEF Onward, Follows, Early, Late
      <3> QED
        BY <1>6, <2>1, <3>1 DEF Onward, Inv, InTurn
    <2>2. CASE Closing
      <3>1. at \in Early /\ at' \notin Early /\ at' \notin Late
        BY <2>2 DEF Closing, Early, Late
      <3> QED
        BY <1>6, <2>2, <3>1 DEF Closing, Inv, InTurn
    <2>3. CASE Ending
      <3>1. at \in Creating => Len(trail) < 2
        <4>1. at \in Creating => at \in Early \/ at \in Late
          BY DEF Creating, Early, Late
        <4>2. at \in Creating => Len(trail) = 0 \/ Len(trail) = 1
          BY <4>1 DEF Inv, InTurn
        <4>3. 0 < 2 /\ 1 < 2
          OBVIOUS
        <4> QED
          BY <4>2, <4>3
      <3>2. "close_session" \notin Creating
        BY DEF Creating
      <3>3. exit' = "DependencyMissing" => at \in Creating
        BY <2>3, <3>2 DEF Ending, Inv, InTurn
      <3> QED
        BY <1>6, <2>3, <3>1, <3>3 DEF Ending, Inv, InTurn
    <2>4. CASE Returned
      BY <1>6, <2>4 DEF Returned, Inv, InTurn, Late, Refusals
    <2>5. CASE Planned
      BY <1>6, <2>5 DEF Planned, Inv, InTurn, Early
    <2> QED
      BY <2>1, <2>2, <2>3, <2>4, <2>5
  <1>8. Guarded'
    <2>1. \A k \in Late : k \in Own
      BY DEF Late, Own, DnfCalls, PkCalls, Creating, Collecting
    <2>2. \A k \in Late : Sent(k)' => Len(trail') # 0
      BY <2>1 DEF Kept, Inv, Guarded, Sent
    <2>3. CASE Planned
      <3>1. goal # "none"
        BY <2>3 DEF Planned, Inv, AsPlanned
      <3>2. Len(trail) = 0
        BY <2>3 DEF Planned, Inv, InTurn, Early
      <3> QED
        BY <2>2, <2>3, <3>1, <3>2 DEF Planned, Guarded
    <2>4. CASE Onward \/ Closing \/ Ending \/ Returned
      <3>1. plan' = plan /\ stage' \notin {"attempt", "decide"}
        BY <2>4 DEF Onward, Closing, Ending, Returned
      <3>2. Len(trail) # 0 => exit' \notin Refusals
        BY <2>4 DEF Onward, Closing, Ending, Returned, Inv, Guarded, InTurn, Refusals
      <3>3. Accepted => Accepted'
        <4>1. Accepted => (SessionOpen' <=> SessionOpen)
          BY PlannedLater DEF Kept, Accepted
        <4> QED
          BY <3>1, <4>1, PassesStill DEF Kept, Accepted
      <3> QED
        BY <2>2, <3>1, <3>2, <3>3 DEF Inv, Guarded, Refusals
    <2> QED
      BY <2>3, <2>4
  <1>9. AsPlanned'
    BY DEF Onward, Closing, Ending, Returned, Planned, Kept, Inv, AsPlanned
  <1>10. SessionClosed'
    <2>1. CASE Ending
      <3>1. CASE at = "close_session"
        BY <1>1, <3>1 DEF Kept, SessionClosed, Sent
      <3>2. CASE ~SessionOpen
        <4>1. ~Sent("stage")
          BY <3>2, NotStaged DEF Inv, OnPath
        <4>2. "stage" \in Own
          BY DEF Own, DnfCalls
        <4> QED
          BY <4>1, <4>2 DEF Kept, SessionClosed, Sent
      <3> QED
        BY <2>1, <3>1, <3>2 DEF Ending
    <2>2. CASE Onward \/ Closing \/ Returned \/ Planned
      BY <2>2 DEF Onward, Closing, Returned, Planned, SessionClosed
    <2> QED
      BY <2>1, <2>2
  <1> QED
    BY <1>3, <1>5, <1>7, <1>8, <1>9, <1>10 DEF Inv

\* A call whose answer is told leaves the others as they are.
LEMMA ToldKept ==
  ASSUME Inv, answer[at] = "pending", ran' = ran,
         NEW told \in {"ok", "Dbus", "failed"}, told = "ok" => ran[at] = "ok",
         answer' = [answer EXCEPT ![at] = told],
         UNCHANGED <<forced, advertised, esc, rest, present, unknown, world, goal, errors, applied, req>>
  PROVE  /\ Kept
         /\ answer'[at] = told
         /\ at = "open_session" => ~SessionOpen
  <1>1. TypeOK
    BY DEF Inv
  <1>2. /\ answer' \in [Calls -> {"ok", "Dbus", "unsent", "pending", "failed", "killed"}]
        /\ answer'[at] = told
        /\ \A k \in Calls : k = at \/ answer'[k] = answer[k]
    BY <1>1, Typed
  <1>3. \A k \in Own : Sent(k) <=> answer'[k] # "unsent"
    BY <1>1, <1>2, Typed DEF Sent
  <1>4. \A k \in Own : answer'[k] = "ok" => ran[k] = "ok"
    BY <1>1, <1>2, Typed DEF Inv, OnPath
  <1>5. SessionOpen => answer'["open_session"] = "ok"
    BY <1>1, <1>2, Typed DEF SessionOpen, Own, DnfCalls
  <1>6. at # "open_session" => (SessionOpen' <=> SessionOpen)
    BY <1>1, <1>2, Typed DEF SessionOpen, Own, DnfCalls
  <1> QED
    BY <1>2, <1>3, <1>4, <1>5, <1>6 DEF Kept, SessionOpen

\* On PackageKit's path there is no dnf5daemon session.
LEMMA PkUnopened ==
  ASSUME Inv, at \in PkCalls
  PROVE  ~SessionOpen
  <1>1. ran["open_session"] = "Dbus"
    BY DEF Inv, OnPath
  <1>2. "open_session" \in Own
    BY DEF Own, DnfCalls
  <1> QED
    BY <1>1, <1>2 DEF Inv, OnPath, SessionOpen

\* What follows a success, a refusal and any other error are ends of the wait.
LEMMA ProceedEnds ==
  ASSUME Inv, stage = "wait", Proceed, ran[at] = "ok", at # "close_session",
         at = "Exec" => at \notin errors,
         at = "open_session" => SessionOpen' /\ ~SessionOpen,
         at \in {"stage", "resolve"} => SessionOpen',
         plan' = IF at \in {"resolve", "Simulate"} THEN goal ELSE plan
  PROVE  Onward \/ Closing \/ Ending \/ Returned \/ Planned
  <1>1. at \in Own /\ TypeOK
    BY Typed DEF Inv
  <1>2. /\ at \in PkCalls => "open_session" \in unknown
        /\ at \in PkCalls => ~SessionOpen
    BY <1>1, PkUnopened DEF Inv, OnPath
  <1>3. CASE at = "open_session"
    BY <1>3 DEF Proceed, Goto, End, Onward, Ending, Follows, Refusals, PkCalls, Creating, Collecting
  <1>4. CASE at = "stage"
    BY <1>4 DEF Proceed, Goto, Onward, Follows, PkCalls, Creating, Collecting
  <1>5. CASE at \in {"resolve", "Simulate"}
    BY <1>5 DEF Proceed, Planned
  <1>6. CASE at = "do_transaction"
    BY <1>6 DEF Proceed, Recorded, Returned, CarriedOut
  <1>7. CASE at = "Exec"
    BY <1>7 DEF Proceed, Recorded, Returned, CarriedOut
  <1>8. CASE at = "create1"
    BY <1>2, <1>8 DEF Proceed, Goto, Onward, Follows, DnfCalls, PkCalls, Creating, Collecting
  <1>9. CASE at = "Resolve"
    BY <1>2, <1>9 DEF Proceed, Goto, Conclude, End, Onward, Ending, Follows, Early, DnfCalls,
                      PkCalls, Creating, Collecting
  <1>10. CASE at = "create2"
    BY <1>2, <1>10 DEF Proceed, Goto, Onward, Follows, DnfCalls, PkCalls, Creating, Collecting
  <1>11. CASE at = "create3"
    BY <1>2, <1>11 DEF Proceed, Goto, Onward, Follows, DnfCalls, PkCalls, Creating, Collecting
  <1> QED
    BY <1>1, <1>3, <1>4, <1>5, <1>6, <1>7, <1>8, <1>9, <1>10, <1>11
       DEF Own, DnfCalls, PkCalls, Creating, Collecting

LEMMA ConcludeEnds ==
  ASSUME Inv, stage = "wait", plan' = plan, at \in Own \ {"close_session", "do_transaction", "Exec"},
         at = "open_session" => ~SessionOpen,
         NEW how \in {"Dbus", "failed", "AccessDenied", "DependencyMissing"},
         how = "DependencyMissing" => at \in Creating, Conclude(how)
  PROVE  Closing \/ Ending
  <1>1. TypeOK
    BY DEF Inv
  <1>2. at \in PkCalls => ~SessionOpen
    BY PkUnopened
  <1>3. CASE SessionOpen
    <2>1. at \in {"stage", "resolve"}
      BY <1>2, <1>3 DEF Own, DnfCalls
    <2>2. how # "DependencyMissing"
      BY <2>1 DEF Creating
    <2> QED
      BY <1>3, <2>1, <2>2 DEF Conclude, Closing
  <1>4. CASE ~SessionOpen
    <2>1. how \in Refusals => at \in Early
      BY DEF Refusals, Early
    <2> QED
      BY <1>4, <2>1 DEF Conclude, End, Ending
  <1> QED
    BY <1>3, <1>4

LEMMA RefusedEnds ==
  ASSUME Inv, stage = "wait", Refused, plan' = plan, at # "Exec",
         at = "open_session" => ~SessionOpen
  PROVE  Onward \/ Closing \/ Ending \/ Returned
  <1>1. at \in Own /\ TypeOK
    BY Typed DEF Inv
  <1>2. CASE at = "open_session" /\ ServiceUnknown(at)
    BY <1>2 DEF Refused, ServiceUnknown, Goto, Onward, Follows, DnfCalls, Creating
  <1>3. CASE at = "close_session"
    BY <1>3 DEF Refused, End, Ending, Creating
  <1>4. CASE at = "do_transaction"
    BY <1>4 DEF Refused, Recorded, Returned, Creating
  <1>5. CASE at \in Own \ {"close_session", "do_transaction", "Exec"}
             /\ ~(at = "open_session" /\ ServiceUnknown(at))
    <2>1. CASE at \in Creating /\ ServiceUnknown(at)
      <3>1. Conclude("DependencyMissing")
        BY <1>5, <2>1 DEF Refused, Creating
      <3> QED
        BY <1>5, <2>1, <3>1, ConcludeEnds
    <2>2. CASE ~(at \in Creating /\ ServiceUnknown(at))
      <3>1. Conclude("Dbus")
        BY <1>5, <2>2 DEF Refused
      <3> QED
        BY <1>5, <3>1, ConcludeEnds
    <2> QED
      BY <2>1, <2>2
  <1> QED
    BY <1>1, <1>2, <1>3, <1>4, <1>5

LEMMA BrokenEnds ==
  ASSUME Inv, stage = "wait", NEW how \in {"Dbus", "failed", "AccessDenied"}, Broken(how), plan' = plan,
         at = "open_session" => ~SessionOpen
  PROVE  Closing \/ Ending \/ Returned
  <1>1. at \in Own /\ TypeOK
    BY Typed DEF Inv
  <1>2. CASE at = "close_session"
    BY <1>2 DEF Broken, End, Ending
  <1>3. CASE at \in {"do_transaction", "Exec"}
    BY <1>3 DEF Broken, Recorded, Returned
  <1>4. CASE at \in Own \ {"close_session", "do_transaction", "Exec"}
    <2>1. Conclude(how)
      BY <1>4 DEF Broken
    <2> QED
      BY <1>4, <2>1, ConcludeEnds
  <1> QED
    BY <1>1, <1>2, <1>3, <1>4

LEMMA AnsweredKeeps ==
  ASSUME Inv, Answered
  PROVE  Inv'
  <1>1. /\ stage = "wait" /\ at \notin Collecting
        /\ answer[at] = "pending" /\ ran[at] \in {"ok", "Dbus"}
        /\ ran' = ran /\ answer' = [answer EXCEPT ![at] = ran[at]]
        /\ UNCHANGED <<forced, advertised, esc, rest, present, unknown, world, goal, errors, applied, req, trail>>
        /\ plan' = IF at = "resolve" /\ ran[at] = "ok" THEN goal ELSE plan
    BY DEF Answered, Transport!Return, Transport!Performed, escVars, hostVars
  <1>2. Kept /\ answer'[at] = ran[at] /\ (at = "open_session" => ~SessionOpen)
    BY <1>1, ToldKept
  <1>3. at # "Exec" /\ at # "Simulate"
    BY <1>1 DEF Collecting
  <1>4. CASE ran[at] = "Dbus"
    <2>1. Refused /\ plan' = plan
      BY <1>1, <1>4 DEF Answered
    <2> QED
      BY <1>1, <1>2, <1>3, <2>1, RefusedEnds, WaitOver
  <1>5. CASE ran[at] = "ok" /\ at = "close_session"
    <2>1. End(exit) /\ plan' = plan
      BY <1>1, <1>5 DEF Answered
    <2>2. Ending
      BY <1>5, <2>1 DEF End, Ending
    <2> QED
      BY <1>1, <1>2, <2>2, WaitOver
  <1>6. CASE ran[at] = "ok" /\ at # "close_session"
    <2>1. Proceed
      BY <1>6 DEF Answered
    <2>2. plan' = IF at \in {"resolve", "Simulate"} THEN goal ELSE plan
      BY <1>1, <1>3, <1>6
    <2>3. at = "open_session" => SessionOpen'
      BY <1>2, <1>6 DEF SessionOpen
    <2>4. at \in {"stage", "resolve"} => SessionOpen'
      BY <1>2 DEF Inv, OnPath, DnfCalls, Kept, SessionOpen
    <2> QED
      BY <1>1, <1>2, <1>3, <1>6, <2>1, <2>2, <2>3, <2>4, ProceedEnds, WaitOver
  <1> QED
    BY <1>1, <1>4, <1>5, <1>6

LEMMA CollectedKeeps ==
  ASSUME Inv, Collected
  PROVE  Inv'
  <1>1. /\ stage = "wait" /\ at \in Collecting
        /\ answer[at] = "pending" /\ ran[at] = "ok"
        /\ ran' = ran /\ answer' = [answer EXCEPT ![at] = "ok"]
        /\ UNCHANGED <<forced, advertised, esc, rest, present, unknown, world, goal, errors, applied, req, trail>>
        /\ plan' = IF at = "Simulate" /\ at \notin errors THEN goal ELSE plan
    BY DEF Collected, Transport!Return, Transport!Performed, escVars, hostVars
  <1>2. Kept
    BY <1>1, ToldKept
  <1>3. at \notin {"open_session", "stage", "resolve", "close_session"}
    BY <1>1 DEF Collecting
  <1>4. CASE at \in errors
    <2>1. PICK how \in {"Dbus", "AccessDenied"} : Broken(how)
      BY <1>4 DEF Collected
    <2>2. plan' = plan
      BY <1>1, <1>4
    <2>3. Closing \/ Ending \/ Returned
      BY <1>1, <1>3, <2>1, <2>2, BrokenEnds
    <2> QED
      BY <1>1, <1>2, <2>3, WaitOver
  <1>5. CASE at \notin errors
    <2>1. Proceed
      BY <1>5 DEF Collected
    <2>2. plan' = IF at \in {"resolve", "Simulate"} THEN goal ELSE plan
      BY <1>1, <1>3, <1>5
    <2>3. Onward \/ Closing \/ Ending \/ Returned \/ Planned
      BY <1>1, <1>3, <1>5, <2>1, <2>2, ProceedEnds
    <2> QED
      BY <1>1, <1>2, <2>3, WaitOver
  <1> QED
    BY <1>4, <1>5

LEMMA UnansweredKeeps ==
  ASSUME Inv, Unanswered
  PROVE  Inv'
  <1>1. /\ stage = "wait" /\ answer[at] = "pending"
        /\ ran' = ran /\ answer' = [answer EXCEPT ![at] = "failed"]
        /\ UNCHANGED <<forced, advertised, esc, rest, present, unknown, world, goal, errors, applied, req, trail, plan>>
    BY DEF Unanswered, Transport!Fail, escVars, hostVars
  <1>2. Kept /\ (at = "open_session" => ~SessionOpen)
    BY <1>1, ToldKept
  <1>3. PICK how \in {"failed", "AccessDenied"} : Broken(how)
    BY DEF Unanswered
  <1>4. Closing \/ Ending \/ Returned
    BY <1>1, <1>2, <1>3, BrokenEnds
  <1> QED
    BY <1>1, <1>2, <1>4, WaitOver

\* A step that touches neither calls nor host keeps them.
LEMMA StillKept ==
  ASSUME Inv, UNCHANGED <<ran, answer, forced, advertised, esc, rest, present, unknown, world, goal, errors, applied, req>>
  PROVE  Kept /\ CarriedOut' = CarriedOut /\ SessionOpen' = SessionOpen
  BY Typed DEF Kept, Inv, OnPath, Sent, CarriedOut, SessionOpen

LEMMA ConnectKeeps ==
  ASSUME Inv, Connect \/ Validate \/ Escalated
  PROVE  Inv'
  <1>1. UNCHANGED <<ran, answer, forced, advertised, esc, rest, present, unknown, world, goal, errors, applied, req,
                    plan, trail>>
    BY DEF Connect, Validate, Escalated, callVars, escVars, hostVars
  <1>2. stage \in {"connect", "validate", "escalate"} /\ at = "open_session" /\ at' = at
    BY DEF Connect, Validate, Escalated, Goto, End, Inv, OnPath
  <1>3. \/ stage' \in {"validate", "escalate", "call"} /\ exit' = exit
        \/ stage' = "over" /\ exit' \in Exits \ {"ok", "DependencyMissing"}
    BY DEF Connect, Validate, Escalated, Goto, End, Exits
  <1>4. Len(trail) = 0 /\ exit = "none" /\ TypeOK
    BY <1>2 DEF Inv, InTurn
  <1>5. Kept /\ CarriedOut' = CarriedOut
    BY <1>1, StillKept
  <1>6. Esc!TypeOK' /\ PeerThere' /\ OnPath' /\ at' \in Own
    <2>1. at' \notin PkCalls /\ at' \notin DnfCalls \ {"open_session"}
      BY <1>2 DEF PkCalls, Creating, Collecting
    <2> QED
      BY <1>2, <1>5, <2>1, PathKept
  <1>7. TypeOK'
    BY <1>1, <1>3, <1>4, <1>6 DEF TypeOK, Stages, Own
  <1>8. InTurn'
    BY <1>1, <1>2, <1>3, <1>4, <1>5 DEF InTurn, Early, Late, Creating
  <1>9. Guarded' /\ AsPlanned'
    BY <1>1, <1>3, <1>4 DEF Inv, Guarded, AsPlanned, Sent
  <1>10. SessionClosed'
    BY <1>1, <1>2, NotStaged DEF SessionClosed, Sent
  <1> QED
    BY <1>6, <1>7, <1>8, <1>9, <1>10 DEF Inv

LEMMA DecideKeeps ==
  ASSUME Inv, Decide
  PROVE  Inv'
  <1>1. UNCHANGED <<ran, answer, forced, advertised, esc, rest, present, unknown, world, goal, errors, applied, req,
                    plan, trail>>
    BY DEF Decide, callVars, escVars, hostVars
  <1>2. stage = "decide" /\ at \in {"resolve", "Simulate"} /\ Len(trail) = 0 /\ exit = "none" /\ plan # "none" /\ TypeOK
    BY DEF Decide, Inv, InTurn, Guarded
  <1>3. \/ /\ SessionOpen /\ at = "resolve"
           /\ stage' = "call" /\ at' = "close_session" /\ exit' \in Exits \ {"ok", "DependencyMissing"}
        \/ /\ ~SessionOpen
           /\ stage' = "over" /\ at' = at /\ exit' \in Exits \ {"ok", "DependencyMissing"}
        \/ /\ stage' = "attempt" /\ at' = at /\ exit' = exit
           /\ ~req.dryRun /\ Passes
    <2>1. SessionOpen => at = "resolve"
      BY <1>2 DEF Inv, OnPath, SessionOpen, Own, DnfCalls, PkCalls, Collecting
    <2> QED
      BY <2>1 DEF Decide, Conclude, End, Exits, Passes
  <1>4. stage' = "attempt" => Accepted
    BY <1>2, <1>3 DEF Accepted
  <1>5. Kept /\ CarriedOut' = CarriedOut
    BY <1>1, StillKept
  <1>6. Esc!TypeOK' /\ PeerThere' /\ OnPath' /\ at' \in Own
    <2>1. /\ at' = at \/ Follows(at, at')
          /\ at' \notin PkCalls \/ at' = at
          /\ at' \in DnfCalls \ {"open_session"} => SessionOpen
      BY <1>3 DEF Follows, PkCalls, Creating, Collecting, Inv, OnPath
    <2>2. SessionOpen' = SessionOpen
      BY <1>1 DEF SessionOpen
    <2> QED
      BY <1>3, <1>5, <2>1, <2>2, PathKept DEF Inv, OnPath
  <1>7. TypeOK'
    BY <1>1, <1>2, <1>3, <1>6 DEF TypeOK, Stages, Exits, Own
  <1>8. InTurn'
    BY <1>1, <1>2, <1>3, <1>5 DEF InTurn, Early, Late
  <1>9. Guarded' /\ AsPlanned'
    <2>1. Passes' <=> Passes
      BY <1>1, PassesStill DEF SessionOpen
    <2> QED
      BY <1>1, <1>2, <1>3, <1>4, <2>1 DEF Inv, Guarded, Accepted, AsPlanned, Sent
  <1>10. SessionClosed'
    <2>1. CASE ~SessionOpen
      BY <1>1, <2>1, NotStaged DEF Inv, OnPath, SessionClosed, Sent
    <2>2. CASE SessionOpen
      BY <1>3, <2>2 DEF SessionClosed
    <2> QED
      BY <2>1, <2>2
  <1> QED
    BY <1>6, <1>7, <1>8, <1>9, <1>10 DEF Inv

\* What a record adds to the trail.
LEMMA TrailGrows ==
  ASSUME NEW t \in Seq({"attempt", "ok", "error"}), NEW r \in {"attempt", "ok", "error"}
  PROVE  /\ Append(t, r) \in Seq({"attempt", "ok", "error"})
         /\ Len(t) \in Nat
         /\ Len(Append(t, r)) = Len(t) + 1
         /\ Append(t, r)[Len(t) + 1] = r
         /\ Len(t) # 0 => Append(t, r)[1] = t[1]
  OBVIOUS

LEMMA AttemptKeeps ==
  ASSUME Inv, Attempt
  PROVE  Inv'
  <1>1. UNCHANGED <<ran, answer, forced, advertised, esc, rest, present, unknown, world, goal, errors, applied, req, plan>>
    BY DEF Attempt, callVars, escVars, hostVars
  <1>2. /\ stage = "attempt" /\ at \in {"resolve", "Simulate"} /\ Len(trail) = 0 /\ exit = "none"
        /\ TypeOK /\ Accepted
    BY DEF Attempt, Inv, InTurn, Guarded
  <1>3. /\ stage' = "call" /\ exit' = exit
        /\ at' = IF at = "resolve" THEN "do_transaction" ELSE "create3"
    BY DEF Attempt, Goto
  <1>4. trail' \in Seq({"attempt", "ok", "error"}) /\ Len(trail') = 1 /\ trail'[1] = "attempt"
    BY <1>2, TrailGrows DEF Attempt, TypeOK
  <1>5. Kept /\ CarriedOut' = CarriedOut
    BY <1>1, StillKept
  <1>6. Esc!TypeOK' /\ PeerThere' /\ OnPath' /\ at' \in Own
    <2>1. CASE at = "resolve"
      <3>1. SessionOpen'
        BY <1>1, <2>1 DEF Inv, OnPath, DnfCalls, SessionOpen
      <3>2. Follows(at, at') /\ at' \notin PkCalls
        BY <1>3, <2>1 DEF Follows, PkCalls, Creating, Collecting
      <3> QED
        BY <1>3, <1>5, <3>1, <3>2, PathKept
    <2>2. CASE at = "Simulate"
      <3>1. "open_session" \in unknown
        BY <2>2 DEF Inv, OnPath, PkCalls, Collecting
      <3>2. Follows(at, at') /\ at' \notin DnfCalls
        BY <1>3, <2>2 DEF Follows, DnfCalls
      <3> QED
        BY <1>3, <1>5, <3>1, <3>2, PathKept
    <2> QED
      BY <1>2, <2>1, <2>2
  <1>7. TypeOK'
    BY <1>1, <1>2, <1>3, <1>4, <1>6 DEF TypeOK, Stages, Own
  <1>8. InTurn'
    BY <1>1, <1>2, <1>3, <1>4, <1>5 DEF InTurn, Early, Late
  <1>9. Guarded'
    <2>1. Passes' <=> Passes
      BY <1>1, PassesStill DEF SessionOpen
    <2> QED
      BY <1>1, <1>2, <1>3, <1>4, <2>1 DEF Inv, Guarded, Accepted, Refusals
  <1>10. AsPlanned' /\ SessionClosed'
    BY <1>1, <1>3 DEF Inv, AsPlanned, SessionClosed
  <1> QED
    BY <1>6, <1>7, <1>8, <1>9, <1>10 DEF Inv

LEMMA RecordKeeps ==
  ASSUME Inv, Record
  PROVE  Inv'
  <1>1. UNCHANGED <<ran, answer, forced, advertised, esc, rest, present, unknown, world, goal, errors, applied, req, plan>>
    BY DEF Record, callVars, escVars, hostVars
  <1>2. /\ stage = "record" /\ at \in {"do_transaction", "Exec"} /\ Len(trail) = 1
        /\ exit \notin Refusals \cup {"DependencyMissing"} /\ TypeOK /\ Accepted
    BY DEF Record, Inv, InTurn, Guarded
  <1>3. \/ /\ SessionOpen /\ at = "do_transaction"
           /\ stage' = "call" /\ at' = "close_session" /\ exit' = exit
        \/ /\ ~SessionOpen
           /\ stage' = "over" /\ at' = at /\ exit' = exit
    <2>1. SessionOpen => at = "do_transaction"
      BY <1>2 DEF Inv, OnPath, SessionOpen, Own, DnfCalls, PkCalls, Collecting
    <2> QED
      BY <2>1 DEF Record, Conclude, End
  <1>4. /\ trail' \in Seq({"attempt", "ok", "error"}) /\ Len(trail') = 2
        /\ trail'[2] = "ok" => exit = "ok"
        /\ trail'[1] = "attempt"
    <2> DEFINE r == IF exit = "ok" THEN "ok" ELSE "error"
    <2>1. trail' = Append(trail, r)
      BY DEF Record
    <2>2. r \in {"attempt", "ok", "error"} /\ (r = "ok" => exit = "ok")
      OBVIOUS
    <2> HIDE DEF r
    <2>3. trail \in Seq({"attempt", "ok", "error"}) /\ Len(trail) = 1 /\ trail[1] = "attempt"
      BY <1>2 DEF TypeOK, Inv, InTurn
    <2>4. /\ trail' \in Seq({"attempt", "ok", "error"})
          /\ Len(trail') = Len(trail) + 1
          /\ trail'[Len(trail) + 1] = r
          /\ Len(trail) # 0 => trail'[1] = trail[1]
      BY <2>1, <2>2, <2>3, TrailGrows
    <2>5. Len(trail') = 2 /\ trail'[2] = r /\ trail'[1] = "attempt"
      BY <2>3, <2>4
    <2> QED
      BY <2>2, <2>4, <2>5
  <1>5. Kept /\ CarriedOut' = CarriedOut
    BY <1>1, StillKept
  <1>6. Esc!TypeOK' /\ PeerThere' /\ OnPath' /\ at' \in Own
    <2>1. /\ at' = at \/ Follows(at, at')
          /\ at' \notin PkCalls \/ at' = at
          /\ at' \in DnfCalls \ {"open_session"} => SessionOpen
      BY <1>3 DEF Follows, PkCalls, Creating, Collecting, Inv, OnPath
    <2>2. SessionOpen' = SessionOpen
      BY <1>1 DEF SessionOpen
    <2> QED
      BY <1>3, <1>5, <2>1, <2>2, PathKept DEF Inv, OnPath
  <1>7. TypeOK'
    BY <1>1, <1>2, <1>3, <1>4, <1>6 DEF TypeOK, Stages, Own
  <1>8. exit = "ok" => CarriedOut
    BY DEF Inv, InTurn
  <1>9. InTurn'
    BY <1>2, <1>3, <1>4, <1>5, <1>8 DEF InTurn, Early, Late
  <1>10. Guarded'
    <2>1. Passes' <=> Passes
      BY <1>1, PassesStill DEF SessionOpen
    <2> QED
      BY <1>1, <1>2, <1>3, <1>4, <2>1 DEF Inv, Guarded, Accepted, Refusals
  <1>11. AsPlanned'
    BY <1>1 DEF Inv, AsPlanned
  <1>12. SessionClosed'
    <2>1. CASE ~SessionOpen
      BY <1>1, <2>1, NotStaged DEF Inv, OnPath, SessionClosed, Sent
    <2>2. CASE SessionOpen
      BY <1>3, <2>2 DEF SessionClosed
    <2> QED
      BY <2>1, <2>2
  <1> QED
    BY <1>6, <1>7, <1>9, <1>10, <1>11, <1>12 DEF Inv

LEMMA CallKeeps ==
  ASSUME Inv, Call
  PROVE  Inv'
  <1>1. /\ UNCHANGED <<ran, forced, advertised, esc, rest, present, unknown, world, goal, errors, applied, req,
                       plan, trail>>
        /\ stage = "call" /\ at' = at /\ answer[at] = "unsent"
    BY DEF Call, End, escVars, hostVars, Transport!Send, Transport!SendKills
  <1>2. \/ answer' = [answer EXCEPT ![at] = "pending"] /\ stage' = "wait" /\ exit' = exit
        \/ answer' = [answer EXCEPT ![at] = "killed"] /\ stage' = "over" /\ exit' = "killed"
    BY DEF Call, End, Transport!Send, Transport!SendKills
  <1>3. TypeOK /\ at \in Own /\ at \in Calls /\ Own \subseteq Calls /\ "open_session" \in Own
    BY Typed DEF Inv, Own, DnfCalls
  <1>4. /\ answer' \in [Calls -> {"ok", "Dbus", "unsent", "pending", "failed", "killed"}]
        /\ answer'[at] \in {"pending", "killed"}
        /\ \A k \in Own : k = at \/ answer'[k] = answer[k]
    BY <1>2, <1>3, Typed
  <1>5. SessionOpen' = SessionOpen /\ CarriedOut' = CarriedOut
    BY <1>1, <1>3, <1>4 DEF SessionOpen, CarriedOut
  <1>6. Esc!TypeOK' /\ PeerThere'
    BY <1>1, <1>3, <1>4 DEF TypeOK, Esc!TypeOK, Esc!Transport!TypeOK, Esc!Transport!Performed, Inv, PeerThere
  <1>7. TypeOK'
    BY <1>1, <1>2, <1>3, <1>6 DEF TypeOK, Stages, Exits
  <1>8. OnPath'
    <2>1. \A k \in Own : Sent(k)' => k \in Reached(at)
      BY <1>3, <1>4, ReachedSelf DEF Inv, OnPath, Sent
    <2>2. \A k \in Own : ran[k] # "no" => Sent(k)'
      BY <1>4 DEF Inv, OnPath, Sent
    <2>3. \A k \in Own : answer'[k] = "ok" => ran[k] = "ok"
      BY <1>4 DEF Inv, OnPath
    <2>4. stage' \notin {"connect", "validate", "escalate"}
      BY <1>2
    <2> QED
      BY <1>1, <1>5, <2>1, <2>2, <2>3, <2>4 DEF Inv, OnPath, Absent
  <1>9. InTurn'
    BY <1>1, <1>2, <1>5 DEF Inv, InTurn
  <1>10. Guarded'
    <2>1. \A k \in Late : Sent(k)' => Len(trail) # 0
      <3>1. \A k \in Late : k \in Own
        BY DEF Late, Own, DnfCalls, PkCalls, Creating, Collecting
      <3> QED
        BY <1>1, <1>4, <3>1 DEF Inv, InTurn, Guarded, Sent
    <2>2. Passes' <=> Passes
      BY <1>1, <1>5, PassesStill
    <2> QED
      BY <1>1, <1>2, <2>1, <2>2 DEF Inv, Guarded, Accepted, Refusals
  <1>11. AsPlanned'
    BY <1>1 DEF Inv, AsPlanned
  <1>12. SessionClosed'
    BY <1>2 DEF SessionClosed
  <1> QED
    BY <1>6, <1>7, <1>8, <1>9, <1>10, <1>11, <1>12 DEF Inv
-----------------------------------------------------------------------------
(* The escalation. *)

\* The mechanism being tried is one, and so are those after it.
LEMMA RestParts ==
  ASSUME NEW s \in Seq(Mechanisms), s # <<>>
  PROVE  Head(s) \in Mechanisms /\ Tail(s) \in Seq(Mechanisms)
  <1>1. Len(s) \in Nat \ {0}
    BY EmptySeq, LenProperties
  <1> QED
    BY <1>1, HeadTailProperties

\* escalate() sends no call of the two backends.
LEMMA EscalateParts ==
  ASSUME Inv, Esc!Client
  PROVE  /\ ran' = ran
         /\ Esc!TypeOK'
         /\ PeerThere'
         /\ UNCHANGED <<forced, advertised>>
         /\ \A k \in Own : answer'[k] = answer[k]
  <1> DEFINE Answers == {"ok", "Dbus", "unsent", "pending", "failed", "killed"}
  <1>1. TypeOK /\ Esc!TypeOK /\ PeerThere
    BY DEF Inv, TypeOK
  <1>2. /\ rest # <<>> => Head(rest) \in Mechanisms /\ Tail(rest) \in Seq(Mechanisms)
        /\ esc = "starting" => rest # <<>>
    BY <1>1, Typed, RestParts DEF PeerThere
  <1>3. Esc!Candidates \in Seq(Mechanisms)
    <2>1. advertised \in Seq(Mechanisms) /\ <<>> \in Seq(Mechanisms)
      BY <1>1, Typed
    <2>2. forced \in Safe => <<forced>> \in Seq(Mechanisms)
      BY EscalationAssumption
    <2> QED
      BY <2>1, <2>2 DEF Esc!Candidates
  <1>4. ASSUME NEW k \in Mechanisms \cup {"Bridges"}, NEW told \in Answers,
               answer' = [answer EXCEPT ![k] = told]
        PROVE  answer' \in [Calls -> Answers] /\ \A j \in Own : answer'[j] = answer[j]
    BY <1>1, <1>4, Typed
  <1>5. /\ ran' = ran
        /\ UNCHANGED <<forced, advertised>>
        /\ rest' \in Seq(Mechanisms)
        /\ esc' \in {"idle", "choosing"} \cup Esc!Waiting \cup Esc!Ended
        /\ esc' = "starting" => rest' # <<>>
        /\ \/ answer' = answer
           \/ \E k \in Mechanisms \cup {"Bridges"}, told \in Answers :
                answer' = [answer EXCEPT ![k] = told]
    <2>1. CASE Esc!Escalate
      BY <1>1, <2>1, Typed DEF Esc!Escalate, Esc!Ask, Esc!Transport!Send, Esc!Transport!SendKills,
                               Esc!Waiting, Esc!Ended
    <2>2. CASE Esc!Listed
      BY <1>1, <1>3, <2>2, Typed DEF Esc!Listed, Esc!Transport!Return, Esc!Transport!Performed,
                                     Esc!Waiting, Esc!Ended
    <2>3. CASE Esc!Choose
      BY <1>1, <1>2, <2>3, Typed DEF Esc!Choose, Esc!Ask, Esc!Transport!Send, Esc!Transport!SendKills,
                                     Esc!Waiting, Esc!Ended
    <2>4. CASE Esc!Started
      BY <1>1, <1>2, <2>4, Typed DEF Esc!Started, Esc!Transport!Return, Esc!Transport!Performed,
                                     Esc!Waiting, Esc!Ended
    <2>5. CASE Esc!Broken
      BY <1>1, <1>2, <2>5, Typed DEF Esc!Broken, Esc!Asked, Esc!Transport!Fail, Esc!Waiting, Esc!Ended
    <2> QED
      BY <2>1, <2>2, <2>3, <2>4, <2>5 DEF Esc!Client
  <1>6. answer' \in [Calls -> Answers] /\ \A j \in Own : answer'[j] = answer[j]
    BY <1>1, <1>4, <1>5, Typed
  <1>7. Esc!Transport!TypeOK'
    BY <1>1, <1>5, <1>6, Typed DEF Esc!Transport!TypeOK, Esc!Transport!Performed
  <1>8. Esc!TypeOK'
    BY <1>1, <1>5, <1>7 DEF Esc!TypeOK
  <1>9. PeerThere'
    BY <1>5 DEF PeerThere
  <1> QED
    BY <1>5, <1>6, <1>8, <1>9

\* A step in which every call of the two backends stands still.
LEMMA OwnStill ==
  ASSUME Inv, Esc!TypeOK', PeerThere',
         \A k \in Own : ran'[k] = ran[k] /\ answer'[k] = answer[k],
         present' \subseteq present,
         UNCHANGED <<unknown, goal, errors, applied, req, stage, at, plan, trail, exit>>,
         world' \in Plans
  PROVE  Inv'
  <1>1. TypeOK /\ TypeOK'
    BY DEF Inv, TypeOK
  <1>2. /\ DnfCalls \subseteq Own /\ PkCalls \subseteq Own /\ Late \subseteq Own
        /\ \A k \in {"open_session", "stage", "resolve", "do_transaction", "close_session",
                     "Simulate", "Exec"} : k \in Own
    BY DEF Own, Late, DnfCalls, PkCalls, Creating, Collecting
  <1>3. /\ \A k \in Own : Sent(k)' <=> Sent(k)
        /\ SessionOpen' <=> SessionOpen
        /\ CarriedOut' <=> CarriedOut
    BY <1>2 DEF Sent, SessionOpen, CarriedOut
  <1>4. OnPath'
    <2>1. \A k \in unknown' : ran'[k] = "Dbus"
      BY <1>1, <1>2 DEF Inv, OnPath, TypeOK
    <2> QED
      BY <1>2, <1>3, <2>1 DEF Inv, OnPath, Absent
  <1>5. InTurn'
    BY <1>3 DEF Inv, InTurn
  <1>6. Guarded'
    <2>1. Passes' <=> Passes
      BY <1>3, PassesStill
    <2> QED
      BY <1>2, <1>3, <2>1 DEF Inv, Guarded, Accepted
  <1>7. AsPlanned'
    BY <1>2 DEF Inv, AsPlanned
  <1>8. SessionClosed'
    BY <1>2, <1>3 DEF Inv, SessionClosed
  <1> QED
    BY <1>1, <1>4, <1>5, <1>6, <1>7, <1>8 DEF Inv

LEMMA EscalateKeeps ==
  ASSUME Inv, Escalate
  PROVE  Inv'
  <1>1. UNCHANGED <<present, unknown, world, goal, errors, applied, req, stage, at, plan, trail, exit>> /\ Esc!Client
    BY DEF Escalate, hostVars
  <1>2. world' \in Plans
    BY <1>1 DEF Inv, TypeOK
  <1> QED
    BY <1>1, <1>2, EscalateParts, OwnStill

LEMMA SuperuserKeeps ==
  ASSUME Inv, Superuser
  PROVE  Inv'
  <1>1. /\ UNCHANGED <<present, unknown, world, goal, errors, applied, req, stage, at, plan, trail, exit>>
        /\ UNCHANGED <<forced, advertised, esc, rest, answer>>
    BY DEF Superuser, Esc!Bridge, Esc!escVars, Esc!Transport!Perform, hostVars
  <1>2. PICK k \in Mechanisms \cup {"Bridges"}, r \in {"ok", "Dbus"} : ran' = [ran EXCEPT ![k] = r]
    BY DEF Superuser, Esc!Bridge, Esc!Transport!Perform
  <1>3. TypeOK
    BY DEF Inv
  <1>4. ran' \in [Calls -> {"ok", "Dbus", "no"}] /\ \A j \in Own : ran'[j] = ran[j]
    BY <1>2, <1>3, Typed
  <1>5. Esc!TypeOK'
    BY <1>1, <1>3, <1>4, Typed DEF TypeOK, Esc!TypeOK, Esc!Transport!TypeOK, Esc!Transport!Performed
  <1>6. PeerThere' /\ world' \in Plans
    BY <1>1 DEF Inv, PeerThere, TypeOK
  <1> QED
    BY <1>1, <1>4, <1>5, <1>6, OwnStill

LEMMA WorldKeeps ==
  ASSUME Inv, WorldChanges
  PROVE  Inv'
  <1>1. /\ UNCHANGED <<present, unknown, goal, errors, applied, req, stage, at, plan, trail, exit>>
        /\ UNCHANGED <<ran, answer, forced, advertised, esc, rest>> /\ world' \in Plans
    BY DEF WorldChanges, callVars, escVars
  <1>2. Esc!TypeOK' /\ PeerThere'
    BY <1>1 DEF Inv, PeerThere, TypeOK, Esc!TypeOK, Esc!Transport!TypeOK, Esc!Transport!Performed
  <1> QED
    BY <1>1, <1>2, OwnStill

LEMMA LeavesKeeps ==
  ASSUME Inv, DaemonLeaves
  PROVE  Inv'
  <1>1. /\ UNCHANGED <<unknown, goal, errors, applied, req, stage, at, plan, trail, exit>>
        /\ UNCHANGED <<ran, answer, forced, advertised, esc, rest, world>>
        /\ present' \subseteq present
    BY DEF DaemonLeaves, callVars, escVars
  <1>2. Esc!TypeOK' /\ PeerThere' /\ world' \in Plans
    BY <1>1 DEF Inv, PeerThere, TypeOK, Esc!TypeOK, Esc!Transport!TypeOK, Esc!Transport!Performed
  <1> QED
    BY <1>1, <1>2, OwnStill
-----------------------------------------------------------------------------
(* The daemons. *)

\* The calls by name.
LEMMA Named ==
  /\ \A k \in {"open_session", "stage", "resolve", "do_transaction", "close_session"} : k \in DnfCalls
  /\ \A k \in {"create1", "Resolve", "create2", "Simulate", "create3", "Exec"} : k \in PkCalls
  /\ DnfCalls \subseteq Own /\ PkCalls \subseteq Own /\ Late \subseteq Own
  /\ DnfCalls \cap PkCalls = {}
  BY DEF Own, Late, DnfCalls, PkCalls, Creating, Collecting

\* Nothing is asked of both backends.
LEMMA OnePath ==
  ASSUME Inv
  PROVE  /\ \A k \in PkCalls : Sent(k) => at \in PkCalls
         /\ \A k \in DnfCalls \ {"open_session"} : Sent(k) => at \in DnfCalls
         /\ at \in DnfCalls => at \notin PkCalls
         /\ Sent("resolve") \/ Sent("do_transaction") => ~Sent("Simulate") /\ ~Sent("Exec")
  <1>1. at \in Own
    BY Typed DEF Inv
  <1>2. \A k \in Own : Sent(k) => k \in Reached(at)
    BY DEF Inv, OnPath
  <1>3. /\ \A k \in PkCalls : Sent(k) => at \in PkCalls
        /\ \A k \in DnfCalls \ {"open_session"} : Sent(k) => at \in DnfCalls
        /\ at \in DnfCalls => at \notin PkCalls
    BY <1>1, <1>2, Paths, Named
  <1> QED
    BY <1>3, Named

\* Nothing changes packages before the guardrails were passed.
LEMMA LateAccepted ==
  ASSUME Inv, NEW k \in Late, Sent(k)
  PROVE  Len(trail) # 0 /\ Accepted /\ plan # "none" /\ plan = goal
  BY DEF Inv, Guarded, Accepted, AsPlanned

\* What the answers of the daemons have in common.
LEMMA HostKeeps ==
  ASSUME Inv, NEW k \in Own, NEW r \in {"ok", "Dbus"}, NEW daemon, Serve(daemon, k, r),
         k = "open_session" => daemon = "dnf5daemon",
         UNCHANGED <<escVars, present, world, req, stage, at, plan, trail, exit>>,
         goal' \in Plans \cup {"none"}, applied' \in Plans \cup {"none"},
         errors' = errors \/ (k \in Collecting /\ r = "ok" /\ errors' = errors \cup {k}),
         AsPlanned'
  PROVE  Inv'
  <1>1. TypeOK /\ k \in Calls
    BY Typed DEF Inv
  <1>2. /\ answer' = answer /\ answer[k] # "unsent" /\ ran[k] = "no"
        /\ ran' = [ran EXCEPT ![k] = r]
        /\ UNCHANGED <<forced, advertised, esc, rest>>
        /\ \/ unknown' = unknown
           \/ r = "Dbus" /\ Absent(daemon) /\ unknown' = unknown \cup {k}
    BY DEF Serve, Transport!Perform, escVars
  <1>3. /\ ran' \in [Calls -> {"ok", "Dbus", "no"}]
        /\ ran'[k] = r
        /\ \A j \in Own : j = k \/ ran'[j] = ran[j]
    BY <1>1, <1>2, Typed
  <1>4. Esc!TypeOK' /\ PeerThere'
    BY <1>1, <1>2, <1>3, Typed DEF Inv, PeerThere, TypeOK, Esc!TypeOK, Esc!Transport!TypeOK,
                                   Esc!Transport!Performed
  <1>5. TypeOK'
    <2>1. errors' \subseteq Collecting
      BY <1>1 DEF TypeOK
    <2>2. unknown' \subseteq DnfCalls \cup PkCalls
      BY <1>1, <1>2 DEF TypeOK, Own
    <2> QED
      BY <1>1, <1>4, <2>1, <2>2 DEF TypeOK
  <1>6. OnPath'
    <2>1. \A j \in Own : ran'[j] # "no" => Sent(j)
      BY <1>2, <1>3 DEF Inv, OnPath, Sent
    <2>2. \A j \in Own : answer[j] = "ok" => ran'[j] = "ok"
      BY <1>2, <1>3 DEF Inv, OnPath
    <2>3. /\ \A j \in unknown' : ran'[j] = "Dbus"
          /\ "open_session" \in unknown' => Absent("dnf5daemon")
          /\ at \in PkCalls => "open_session" \in unknown'
      <3>1. \A j \in unknown : j \in Own
        BY <1>1 DEF TypeOK, Own
      <3> QED
        BY <1>2, <1>3, <3>1 DEF Inv, OnPath
    <2> QED
      BY <1>2, <2>1, <2>2, <2>3 DEF Inv, OnPath, Sent, SessionOpen, Absent
  <1>7. InTurn'
    <2>1. CarriedOut => CarriedOut'
      BY <1>2, <1>3, Named DEF CarriedOut
    <2> QED
      BY <2>1 DEF Inv, InTurn
  <1>8. Guarded'
    <2>1. Passes' <=> Passes
      BY <1>2, PassesStill DEF SessionOpen
    <2> QED
      BY <1>2, <2>1 DEF Inv, Guarded, Accepted, Sent
  <1>9. SessionClosed'
    BY <1>2 DEF Inv, SessionClosed, Sent
  <1> QED
    BY <1>4, <1>5, <1>6, <1>7, <1>8, <1>9 DEF Inv

LEMMA Dnf5daemonKeeps ==
  ASSUME Inv, NEW k \in DnfCalls, NEW r \in {"ok", "Dbus"}, Dnf5daemon(k, r)
  PROVE  Inv'
  <1>1. TypeOK /\ k \in Calls /\ k \in Own /\ k \notin PkCalls
    BY Typed, Named DEF Inv
  <1>2. /\ answer[k] # "unsent" /\ ran[k] = "no"
        /\ ran' = [ran EXCEPT ![k] = r]
        /\ UNCHANGED <<escVars, present, world, errors, req, stage, at, plan, trail, exit>>
        /\ goal' = IF k = "resolve" /\ r = "ok" THEN world ELSE goal
        /\ applied' = IF k = "do_transaction" /\ r = "ok" THEN goal ELSE applied
        /\ k = "do_transaction" /\ r = "ok" => goal # "none"
    BY DEF Dnf5daemon, Serve, Transport!Perform
  <1>3. /\ ran'[k] = r
        /\ \A j \in Own : j = k \/ ran'[j] = ran[j]
    BY <1>1, <1>2, Typed
  <1>4. world \in Plans /\ goal \in Plans \cup {"none"} /\ applied \in Plans \cup {"none"}
        /\ "none" \notin Plans
    BY <1>1, PlansAssumption DEF TypeOK
  <1>5. /\ ran["Simulate"] # "no" => Sent("Simulate")
        /\ ran["do_transaction"] # "no" => Sent("do_transaction") /\ plan # "none"
        /\ k = "resolve" => ran["Simulate"] = "no"
    <2>1. \A j \in Own : ran[j] # "no" => Sent(j)
      BY DEF Inv, OnPath
    <2> QED
      BY <1>2, <2>1, Named, OnePath, LateAccepted DEF Sent, Late
  <1>6. AsPlanned'
    <2>1. /\ ran'["Simulate"] = ran["Simulate"] /\ ran'["Exec"] = ran["Exec"]
          /\ k # "resolve" => ran'["resolve"] = ran["resolve"]
          /\ k # "do_transaction" => ran'["do_transaction"] = ran["do_transaction"]
      BY <1>1, <1>3, Named
    <2>2. CASE r = "Dbus"
      BY <1>2, <1>3, <2>1, <2>2 DEF Inv, AsPlanned
    <2>3. CASE r = "ok" /\ k = "resolve"
      <3>1. plan = "none" /\ ran["do_transaction"] = "no"
        BY <1>2, <1>4, <1>5, <2>3 DEF Inv, AsPlanned
      <3> QED
        BY <1>2, <1>3, <1>4, <2>1, <2>3, <3>1 DEF Inv, AsPlanned
    <2>4. CASE r = "ok" /\ k = "do_transaction"
      BY <1>2, <1>3, <1>4, <2>1, <2>4 DEF Inv, AsPlanned
    <2>5. CASE r = "ok" /\ k \notin {"resolve", "do_transaction"}
      BY <1>2, <2>1, <2>5 DEF Inv, AsPlanned
    <2> QED
      BY <2>2, <2>3, <2>4, <2>5
  <1> QED
    BY <1>1, <1>2, <1>4, <1>6, HostKeeps DEF Dnf5daemon

LEMMA PackageKitKeeps ==
  ASSUME Inv, NEW k \in PkCalls, NEW r \in {"ok", "Dbus"}, PackageKit(k, r)
  PROVE  Inv'
  <1>1. TypeOK /\ k \in Calls /\ k \in Own /\ k \notin DnfCalls
    BY Typed, Named DEF Inv
  <1>2. /\ answer[k] # "unsent" /\ ran[k] = "no"
        /\ ran' = [ran EXCEPT ![k] = r]
        /\ UNCHANGED <<escVars, present, world, req, stage, at, plan, trail, exit>>
        /\ goal' = IF k = "Simulate" /\ r = "ok" THEN world ELSE goal
    BY DEF PackageKit, Serve, Transport!Perform
  <1>3. /\ ran'[k] = r
        /\ \A j \in Own : j = k \/ ran'[j] = ran[j]
    BY <1>1, <1>2, Typed
  <1>4. world \in Plans /\ goal \in Plans \cup {"none"} /\ applied \in Plans \cup {"none"}
        /\ "none" \notin Plans
    BY <1>1, PlansAssumption DEF TypeOK
  <1>5. errors' = errors \/ (k \in Collecting /\ r = "ok" /\ errors' = errors \cup {k})
    BY DEF PackageKit
  <1>6. /\ applied' = applied \/ applied' = world
        /\ k # "Exec" \/ r # "ok" => applied' = applied
        /\ k = "Exec" /\ r = "ok" /\ "Exec" \notin errors' => applied' = world
    BY DEF PackageKit
  <1>7. /\ k \in {"Simulate", "Exec"} => ran["resolve"] = "no" /\ ran["do_transaction"] = "no"
    <2>1. \A j \in Own : ran[j] # "no" => Sent(j)
      BY DEF Inv, OnPath
    <2> QED
      BY <1>2, <2>1, Named, OnePath DEF Sent
  <1>8. AsPlanned'
    <2>1. /\ ran'["resolve"] = ran["resolve"] /\ ran'["do_transaction"] = ran["do_transaction"]
          /\ k # "Simulate" => ran'["Simulate"] = ran["Simulate"]
          /\ k # "Exec" => ran'["Exec"] = ran["Exec"]
      BY <1>1, <1>3, Named
    <2>2. CASE r = "Dbus"
      BY <1>2, <1>3, <1>5, <1>6, <2>1, <2>2 DEF Inv, AsPlanned
    <2>3. CASE r = "ok" /\ k = "Simulate"
      <3>1. plan = "none"
        BY <1>2, <1>7, <2>3 DEF Inv, AsPlanned
      <3> QED
        BY <1>2, <1>3, <1>4, <1>5, <1>6, <1>7, <2>1, <2>3, <3>1 DEF Inv, AsPlanned
    <2>4. CASE r = "ok" /\ k = "Exec"
      BY <1>2, <1>3, <1>4, <1>5, <1>6, <1>7, <2>1, <2>4 DEF Inv, AsPlanned
    <2>5. CASE r = "ok" /\ k \notin {"Simulate", "Exec"}
      BY <1>2, <1>5, <1>6, <2>1, <2>5 DEF Inv, AsPlanned
    <2> QED
      BY <2>2, <2>3, <2>4, <2>5
  <1> QED
    BY <1>1, <1>2, <1>4, <1>5, <1>6, <1>8, Named, HostKeeps DEF PackageKit
-----------------------------------------------------------------------------
(* The invariant. *)

LEMMA InvInit == Init => Inv
  <1> SUFFICES ASSUME Init PROVE Inv
    OBVIOUS
  <1>1. Esc!TypeOK /\ PeerThere
    BY DEF Init, Esc!Init, Esc!Transport!Init, Esc!TypeOK, Esc!Transport!TypeOK, Esc!Transport!Performed,
           PeerThere
  <1>2. trail \in Seq({"attempt", "ok", "error"}) /\ Len(trail) = 0
    BY DEF Init
  <1>3. TypeOK
    <2>1. stage \in Stages /\ exit \in Exits /\ at \in DnfCalls \cup PkCalls
      BY DEF Init, Stages, Exits, DnfCalls
    <2>2. /\ req \in Request /\ plan \in Plans \cup {"none"} /\ world \in Plans
          /\ present \subseteq {"dnf5daemon", "PackageKit"} /\ unknown \subseteq DnfCalls \cup PkCalls
          /\ goal \in Plans \cup {"none"} /\ applied \in Plans \cup {"none"} /\ errors \subseteq Collecting
      BY DEF Init
    <2> QED
      BY <1>1, <1>2, <2>1, <2>2 DEF TypeOK
  <1>4. \A k \in Own : ran[k] = "no" /\ answer[k] = "unsent"
    BY <1>3, Typed DEF Init, Esc!Init, Esc!Transport!Init
  <1>5. OnPath
    <2>1. at \notin PkCalls /\ at = "open_session"
      BY DEF Init, PkCalls, Creating, Collecting
    <2>2. unknown = {}
      BY DEF Init
    <2> QED
      BY <1>4, <2>1, <2>2, Named DEF OnPath, Sent
  <1>6. InTurn
    BY <1>2 DEF Init, InTurn
  <1>7. Guarded
    BY <1>2, <1>4, Named DEF Init, Guarded, Sent
  <1>8. AsPlanned
    BY <1>4, Named DEF Init, AsPlanned
  <1>9. SessionClosed
    BY DEF Init, SessionClosed
  <1> QED
    BY <1>1, <1>3, <1>5, <1>6, <1>7, <1>8, <1>9 DEF Inv

LEMMA InvStep == Inv /\ [Next]_vars => Inv'
  <1> SUFFICES ASSUME Inv, [Next]_vars PROVE Inv'
    OBVIOUS
  <1>1. CASE Connect \/ Validate \/ Escalated
    BY <1>1, ConnectKeeps
  <1>2. CASE Escalate
    BY <1>2, EscalateKeeps
  <1>3. CASE Call
    BY <1>3, CallKeeps
  <1>4. CASE Answered
    BY <1>4, AnsweredKeeps
  <1>5. CASE Collected
    BY <1>5, CollectedKeeps
  <1>6. CASE Unanswered
    BY <1>6, UnansweredKeeps
  <1>7. CASE Decide
    BY <1>7, DecideKeeps
  <1>8. CASE Attempt
    BY <1>8, AttemptKeeps
  <1>9. CASE Record
    BY <1>9, RecordKeeps
  <1>10. CASE Superuser
    BY <1>10, SuperuserKeeps
  <1>11. CASE \E k \in DnfCalls, r \in {"ok", "Dbus"} : Dnf5daemon(k, r)
    BY <1>11, Dnf5daemonKeeps
  <1>12. CASE \E k \in PkCalls, r \in {"ok", "Dbus"} : PackageKit(k, r)
    BY <1>12, PackageKitKeeps
  <1>13. CASE WorldChanges
    BY <1>13, WorldKeeps
  <1>15. CASE DaemonLeaves
    BY <1>15, LeavesKeeps
  <1>14. CASE UNCHANGED vars
    <2>1. /\ UNCHANGED <<ran, answer, forced, advertised, esc, rest, present, unknown, world, goal, errors, applied>>
          /\ UNCHANGED <<req, stage, at, plan, trail, exit>>
      BY <1>14 DEF vars, callVars, escVars, hostVars
    <2>2. Esc!TypeOK' /\ PeerThere' /\ world' \in Plans
      BY <2>1 DEF Inv, PeerThere, TypeOK, Esc!TypeOK, Esc!Transport!TypeOK, Esc!Transport!Performed
    <2> QED
      BY <2>1, <2>2, OwnStill
  <1> QED
    BY <1>1, <1>2, <1>3, <1>4, <1>5, <1>6, <1>7, <1>8, <1>9, <1>10, <1>11, <1>12, <1>13, <1>14, <1>15
       DEF Next, Client, Over

LEMMA Invariance == Spec => []Inv
  BY InvInit, InvStep, PTL DEF Spec
-----------------------------------------------------------------------------
(* What the invariant says. *)

\* Every reachable state of a package mutation is type correct.
THEOREM TypeCorrect == Spec => []TypeOK
  <1>1. Inv => TypeOK
    BY DEF Inv
  <1> QED
    BY <1>1, Invariance, PTL

\* Packages were changed by one backend, beyond the guardrails.
LEMMA AppliedLate ==
  ASSUME Inv, applied # "none"
  PROVE  /\ \E k \in Late : Sent(k)
         /\ Sent("do_transaction") => ran["do_transaction"] = "ok"
  <1>1. ran["do_transaction"] = "ok" \/ ran["Exec"] = "ok"
    BY DEF Inv, AsPlanned
  <1>2. \A j \in Own : ran[j] # "no" => Sent(j)
    BY DEF Inv, OnPath
  <1> QED
    BY <1>1, <1>2, Named, OnePath DEF Late

\* Without a transaction nothing was applied.
LEMMA NeverRan ==
  ASSUME Inv, ~Sent("do_transaction"), ~Sent("Exec")
  PROVE  applied = "none"
  <1>1. \A j \in Own : ran[j] # "no" => Sent(j)
    BY DEF Inv, OnPath
  <1> QED
    BY <1>1, Named DEF Inv, AsPlanned

\* The first record is the attempt.
LEMMA FirstRecord ==
  ASSUME Inv, Len(trail) # 0, Len(trail) < 2
  PROVE  trail = <<"attempt">>
  <1>1. trail \in Seq({"attempt", "ok", "error"}) /\ trail[1] = "attempt"
    BY DEF Inv, TypeOK, InTurn
  <1>2. Len(trail) = 1
    <2>1. Len(trail) \in Nat
      BY <1>1, LenProperties
    <2>2. \A n \in Nat : n # 0 /\ n < 2 => n = 1
      OBVIOUS
    <2> QED
      BY <2>1, <2>2
  <1>3. trail = <<trail[1]>>
    BY <1>1, <1>2
  <1> QED
    BY <1>1, <1>3

\* An outcome that says nothing was done says the truth, for good: neither backend has
\* been asked to change packages and nothing is on record.
THEOREM RefusalsAreFinal == Spec => []RefusalIsFinal
  <1>1. ASSUME Inv PROVE RefusalIsFinal
    <2>1. SUFFICES ASSUME req.dryRun \/ exit \in {"Usage", "NotFound", "DangerousTransaction", "DependencyMissing"}
                   PROVE  /\ ~Sent("do_transaction") /\ ~Sent("Exec")
                          /\ applied = "none"
                          /\ trail = <<>> \/ (exit = "DependencyMissing" /\ ~req.dryRun /\ trail = <<"attempt">>)
                          /\ Sent("create3") => trail # <<>>
      BY DEF RefusalIsFinal
    <2>2. CASE Len(trail) = 0
      <3>1. \A k \in Late : ~Sent(k)
        BY <1>1, <2>2 DEF Inv, Guarded
      <3>2. applied = "none"
        BY <1>1, <3>1, AppliedLate
      <3>3. trail = <<>>
        BY <1>1, <2>2, EmptySeq DEF Inv, TypeOK
      <3> QED
        BY <3>1, <3>2, <3>3 DEF Late
    <2>3. CASE Len(trail) # 0
      <3>1. exit = "DependencyMissing" /\ ~req.dryRun /\ at \in Creating /\ Len(trail) < 2
        BY <1>1, <2>1, <2>3 DEF Inv, Guarded, InTurn, Accepted, Refusals
      <3>2. ~Sent("do_transaction") /\ ~Sent("Exec")
        <4>1. "do_transaction" \notin Reached(at) /\ "Exec" \notin Reached(at)
          BY <3>1 DEF Reached, Creating, DnfCalls, PkCalls, Collecting
        <4> QED
          BY <1>1, <4>1, Named DEF Inv, OnPath
      <3>3. applied = "none"
        BY <1>1, <3>1, <3>2, NeverRan
      <3>4. trail = <<"attempt">>
        BY <1>1, <2>3, <3>1, FirstRecord
      <3> QED
        BY <3>1, <3>2, <3>3, <3>4
    <2> QED
      BY <2>2, <2>3
  <1> QED
    BY <1>1, Invariance, PTL

\* Of a plan fez can read whole, nothing that leaves the host escapes the guardrails.
LEMMA LegibleLeaving ==
  ASSUME NEW p \in Plans, Legible(p), CheckRemovalPlan(ParsePlan(p))
  PROVE  CheckRemovalPlan(Leaving(p))
  <1>1. Leaving(p) \subseteq ParsePlan(p) /\ ParsePlan(p) \subseteq Items[p]
    BY DEF Leaving, ParsePlan, Legible
  <1>2. IsFiniteSet(ParsePlan(p))
    BY <1>1, PlansAssumption, FS_Subset
  <1>3. /\ IsFiniteSet(Leaving(p))
        /\ Cardinality(Leaving(p)) <= Cardinality(ParsePlan(p))
    BY <1>1, <1>2, FS_Subset
  <1>4. /\ Cardinality(Leaving(p)) \in Nat /\ Cardinality(ParsePlan(p)) \in Nat
        /\ CascadeLimit \in Nat
    BY <1>2, <1>3, PlansAssumption, FS_CardinalityType
  <1>5. Cardinality(Leaving(p)) <= CascadeLimit
    BY <1>3, <1>4 DEF CheckRemovalPlan
  <1> QED
    BY <1>1, <1>5 DEF CheckRemovalPlan

\* Without --force no package changes unless fez saw a plan the guardrails accept, and
\* dnf5daemon carries out exactly the plan that was shown: if fez could read all of it, no
\* protected package leaves the host and no cascade.
THEOREM GuardsHold == Spec => []GuardHolds
  <1>1. ASSUME Inv PROVE GuardHolds
    <2>1. SUFFICES ASSUME applied # "none"
                   PROVE  /\ Passes
                          /\ Sent("do_transaction") =>
                               /\ applied = plan
                               /\ Legible(applied) => req.force \/ CheckRemovalPlan(Leaving(applied))
      BY DEF GuardHolds, Passes
    <2>2. Accepted /\ plan = goal
      BY <1>1, <2>1, AppliedLate, LateAccepted
    <2>3. Sent("do_transaction") => applied = goal
      BY <1>1, <2>1, AppliedLate DEF Inv, AsPlanned
    <2>4. ASSUME Sent("do_transaction"), Legible(applied), ~req.force
          PROVE  CheckRemovalPlan(Leaving(applied))
      <3>1. SessionOpen
        <4>1. at \in Own /\ "do_transaction" \in Own \cap (DnfCalls \ {"open_session"})
          BY <1>1, Typed, Named DEF Inv
        <4>2. "do_transaction" \in Reached(at)
          BY <1>1, <2>4, <4>1 DEF Inv, OnPath
        <4>3. at \in DnfCalls \ {"open_session"}
          BY <4>1, <4>2, Paths
        <4> QED
          BY <1>1, <4>3 DEF Inv, OnPath
      <3>2. CheckRemovalPlan(ParsePlan(applied)) /\ applied \in Plans
        BY <1>1, <2>1, <2>2, <2>3, <2>4, <3>1 DEF Accepted, Passes, RemoveNames, Inv, TypeOK
      <3> QED
        BY <2>4, <3>2, LegibleLeaving
    <2> QED
      BY <2>2, <2>3, <2>4 DEF Accepted
  <1> QED
    BY <1>1, Invariance, PTL

\* PackageKit is asked for anything only where dnf5daemon is absent, and no package is
\* ever changed through both.
THEOREM OneBackendServes == Spec => []OneBackend
  <1>1. ASSUME Inv PROVE OneBackend
    <2>1. SUFFICES ASSUME NEW k \in PkCalls, Sent(k)
                   PROVE  /\ Absent("dnf5daemon") /\ ServiceUnknown("open_session")
                          /\ \A j \in DnfCalls \ {"open_session"} : ~Sent(j)
      BY DEF OneBackend
    <2>2. at \in PkCalls
      BY <1>1, <2>1, OnePath
    <2> QED
      BY <1>1, <2>2, OnePath DEF Inv, OnPath, ServiceUnknown
  <1> QED
    BY <1>1, Invariance, PTL

\* On every path the dnf5daemon session fez worked in is closed, unless fez was killed.
THEOREM SessionsClose == Spec => []SessionClosed
  <1>1. Inv => SessionClosed
    BY DEF Inv
  <1> QED
    BY <1>1, Invariance, PTL

\* A reported or recorded success is one, by dnf5daemon according to the plan shown.
THEOREM SuccessHolds == Spec => []SuccessIsReal
  <1>1. ASSUME Inv PROVE SuccessIsReal
    <2>1. SUFFICES ASSUME exit = "ok" \/ trail = <<"attempt", "ok">>
                   PROVE  /\ applied # "none"
                          /\ Sent("do_transaction") => applied = plan
                          /\ ~Sent("do_transaction") => "Exec" \notin errors
      BY DEF SuccessIsReal
    <2>2. trail = <<"attempt", "ok">> => Len(trail) = 2 /\ trail[2] = "ok"
      OBVIOUS
    <2>3. CarriedOut
      BY <1>1, <2>1, <2>2 DEF Inv, InTurn
    <2>4. applied # "none"
      BY <1>1, <2>3 DEF CarriedOut, Inv, AsPlanned
    <2>5. Sent("do_transaction") => applied = plan
      BY <1>1, <2>4, AppliedLate, LateAccepted DEF Inv, AsPlanned
    <2>6. ran["do_transaction"] = "ok" => Sent("do_transaction")
      BY <1>1, Named DEF Inv, OnPath
    <2> QED
      BY <2>3, <2>4, <2>5, <2>6 DEF CarriedOut
  <1> QED
    BY <1>1, Invariance, PTL
-----------------------------------------------------------------------------
(* The audit trail. *)

Done == IF applied = "none" THEN {} ELSE {"transaction"}

LEMMA AuditInit == Init => Audit!Init
  BY DEF Init, Audit!Init


\* The packages change after the attempt only.
LEMMA HostDoes ==
  ASSUME Inv, Inv', trail' = trail, applied # "none" => applied' # "none"
  PROVE  [Audit!Next]_(Audit!vars)
  <1>1. CASE applied # "none" \/ applied' = "none"
    <2>1. Done' = Done
      BY <1>1 DEF Done
    <2> QED
      BY <2>1 DEF Audit!vars, Done
  <1>2. CASE applied = "none" /\ applied' # "none"
    <2>1. \E k \in Late : Sent(k)'
      <3>1. ran'["do_transaction"] = "ok" \/ ran'["Exec"] = "ok"
        BY <1>2 DEF Inv, AsPlanned
      <3>2. \A j \in Own : ran'[j] # "no" => Sent(j)'
        BY DEF Inv, OnPath
      <3> QED
        BY <3>1, <3>2, Named DEF Late
    <2>2. Len(trail) # 0
      BY <2>1 DEF Inv, Guarded
    <2>3. Audit!Do("transaction")
      BY <1>2, <2>2 DEF Audit!Do
    <2> QED
      BY <2>3 DEF Audit!Next
  <1> QED
    BY <1>1, <1>2

LEMMA AttemptRecords ==
  ASSUME Inv, Attempt
  PROVE  Audit!Next
  <1>1. applied' = applied /\ Len(trail) = 0 /\ TypeOK /\ trail' = Append(trail, "attempt")
    BY DEF Attempt, Inv, InTurn, hostVars
  <1>2. trail = <<>>
    BY <1>1, EmptySeq DEF TypeOK
  <1>3. Append(<<>>, "attempt") = <<"attempt">>
    OBVIOUS
  <1>4. Audit!Attempt
    BY <1>1, <1>2, <1>3 DEF Audit!Attempt
  <1> QED
    BY <1>4 DEF Audit!Next

LEMMA ResultRecords ==
  ASSUME Inv, Record
  PROVE  Audit!Next
  <1>1. applied' = applied /\ Len(trail) = 1
    BY DEF Record, Inv, InTurn, hostVars
  <1>2. CASE exit = "ok"
    <2>1. applied # "none"
      BY <1>2 DEF Inv, InTurn, CarriedOut, AsPlanned
    <2>2. trail' = Append(trail, "ok")
      BY <1>2 DEF Record
    <2>3. Audit!Record("ok")
      BY <1>1, <2>1, <2>2 DEF Audit!Record
    <2> QED
      BY <2>3 DEF Audit!Next
  <1>3. CASE exit # "ok"
    <2>1. trail' = Append(trail, "error")
      BY <1>3 DEF Record
    <2>2. Audit!Record("error")
      BY <1>1, <2>1 DEF Audit!Record
    <2> QED
      BY <2>2 DEF Audit!Next
  <1> QED
    BY <1>2, <1>3

LEMMA AuditStep == Inv /\ Inv' /\ [Next]_vars => [Audit!Next]_(Audit!vars)
  <1> SUFFICES ASSUME Inv, Inv', [Next]_vars PROVE [Audit!Next]_(Audit!vars)
    OBVIOUS
  <1>1. CASE Attempt
    BY <1>1, AttemptRecords
  <1>2. CASE Record
    BY <1>2, ResultRecords
  <1>3. CASE Connect \/ Validate \/ Escalate \/ Escalated \/ Call \/ Answered \/ Collected
             \/ Unanswered \/ Decide \/ Superuser \/ WorldChanges \/ DaemonLeaves
    <2>1. UNCHANGED <<applied, trail>>
      BY <1>3 DEF Connect, Validate, Escalate, Escalated, Call, Answered, Collected, Unanswered,
                  Decide, Superuser, WorldChanges, DaemonLeaves, hostVars
    <2> QED
      BY <2>1, HostDoes
  <1>4. CASE \E k \in DnfCalls, r \in {"ok", "Dbus"} : Dnf5daemon(k, r)
    <2>1. trail' = trail /\ (applied # "none" => applied' # "none")
      BY <1>4 DEF Dnf5daemon
    <2> QED
      BY <2>1, HostDoes
  <1>5. CASE \E k \in PkCalls, r \in {"ok", "Dbus"} : PackageKit(k, r)
    <2>1. world # "none"
      BY PlansAssumption DEF Inv, TypeOK
    <2>2. trail' = trail /\ (applied # "none" => applied' # "none")
      BY <1>5, <2>1 DEF PackageKit
    <2> QED
      BY <2>2, HostDoes
  <1>6. CASE UNCHANGED vars
    <2>1. UNCHANGED <<applied, trail>>
      BY <1>6 DEF vars, hostVars
    <2> QED
      BY <2>1, HostDoes
  <1> QED
    BY <1>1, <1>2, <1>3, <1>4, <1>5, <1>6 DEF Next, Client, Over

\* A package mutation keeps every promise of the audit trail: no package changes before
\* the attempt is on record, one result at most follows it, and `ok` means that the
\* transaction was carried out.
THEOREM AuditHolds == Spec => ImplementsAudit
  BY AuditInit, AuditStep, Invariance, PTL DEF Spec, ImplementsAudit, Audit!Spec
=============================================================================
