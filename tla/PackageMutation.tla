-------------------------- MODULE PackageMutation --------------------------
(***************************************************************************)
(* `fez packages install|remove|upgrade`: dnf5daemon first, PackageKit if  *)
(* dnf5daemon is absent.  Both resolve a plan, put it before the removal   *)
(* guardrails, and carry it out under the audit trail.                     *)
(*                                                                         *)
(* dnf5daemon works in a session that holds the resolved goal; PackageKit  *)
(* uses one transaction object per step and reports by signals.            *)
(***************************************************************************)
EXTENDS Naturals, Sequences, FiniteSets

CONSTANTS
  Mechanisms, Safe, Lists, Overrides,   \* see Escalation
  Plans,         \* what the request can come to on the host, by name
  Items,         \* the items of each plan, as the daemons report them
  Protected,     \* the package names PROTECTED_PACKAGES matches
  CascadeLimit   \* the most packages a plan removes without --force

DnfCalls == {"open_session", "stage", "resolve", "do_transaction", "close_session"}
Creating == {"create1", "create2", "create3"}         \* CreateTransaction
Collecting == {"Resolve", "Simulate", "Exec"}         \* dbus_call_collect
PkCalls == Creating \cup Collecting
Calls == DnfCalls \cup PkCalls \cup Mechanisms \cup {"Bridges"}

\* An item: what happens to one version of a package, and whether fez can decode it.
Item == [action : {"Install", "Upgrade", "Downgrade", "Remove", "Obsoleted", "Replaced"},
         name : STRING, evr : Nat, decodes : BOOLEAN]

ASSUME CallsAssumption == (DnfCalls \cup PkCalls) \cap (Mechanisms \cup {"Bridges"}) = {}

ASSUME EscalationAssumption ==
  /\ Safe \subseteq Mechanisms
  /\ Lists \subseteq Seq(Mechanisms)
  /\ "Bridges" \notin Mechanisms

ASSUME PlansAssumption ==
  /\ "none" \notin Plans
  /\ CascadeLimit \in Nat
  /\ \A p \in Plans : Items[p] \subseteq Item /\ IsFiniteSet(Items[p])

VARIABLES
  ran, answer,                     \* the calls, as in BridgeCall
  forced, advertised, esc, rest,   \* the escalation, as in Escalation
  req,       \* the request: --force, --dry-run, whether every spec is valid
  stage,     \* where the invocation stands
  at,        \* the call it is at
  plan,      \* the plan it was shown, "none" before
  trail,     \* the audit records written
  exit,      \* how the invocation ends
  present,   \* the package daemons installed on the host
  unknown,   \* the calls the bus refused with ServiceUnknown
  world,     \* what the requested change amounts to on the host as it is now
  goal,      \* the resolved goal in dnf5daemon's session
  errors,    \* PackageKit transactions that emitted ErrorCode
  applied    \* the plan carried out on the host, "none" before

callVars == <<ran, answer>>
escVars == <<forced, advertised, esc, rest>>
hostVars == <<present, unknown, world, goal, errors, applied>>
vars == <<callVars, escVars, hostVars, req, stage, at, plan, trail, exit>>

Esc == INSTANCE Escalation
Transport == INSTANCE BridgeCall

Request == [force : BOOLEAN, dryRun : BOOLEAN, valid : BOOLEAN]
Stages == {"connect", "validate", "escalate", "call", "wait", "decide", "attempt",
           "record", "over"}
Exits == {"none", "ok", "DryRun", "Usage", "AccessDenied", "Dbus", "NotFound", "failed",
          "DangerousTransaction", "DependencyMissing", "killed"}

TypeOK ==
  /\ Esc!TypeOK
  /\ req \in Request
  /\ stage \in Stages
  /\ at \in DnfCalls \cup PkCalls
  /\ plan \in Plans \cup {"none"}
  /\ trail \in Seq({"attempt", "ok", "error"})
  /\ exit \in Exits
  /\ present \subseteq {"dnf5daemon", "PackageKit"}
  /\ unknown \subseteq DnfCalls \cup PkCalls
  /\ world \in Plans
  /\ goal \in Plans \cup {"none"}
  /\ errors \subseteq Collecting
  /\ applied \in Plans \cup {"none"}

Init ==
  /\ Esc!Init
  /\ req \in Request
  /\ stage = "connect"
  /\ at = "open_session"
  /\ plan = "none"
  /\ trail = <<>>
  /\ exit = "none"
  /\ present \in SUBSET {"dnf5daemon", "PackageKit"}
  /\ unknown = {}
  /\ world \in Plans
  /\ goal = "none"
  /\ errors = {}
  /\ applied = "none"
-----------------------------------------------------------------------------
(* How the client moves from call to call. *)

Goto(k) ==
  /\ stage' = "call"
  /\ at' = k
  /\ UNCHANGED exit

End(how) ==
  /\ stage' = "over"
  /\ exit' = how
  /\ UNCHANGED at

SessionOpen == answer["open_session"] = "ok"

\* Mutant of ParsePlan: the packages that make room for others are forgotten.
ParsePlanRemovals(p) == {i \in Items[p] : i.decodes /\ i.action = "Remove"}

\* The removals fez reads in a plan.  An item that does not decode is dropped.  For
\* dnf5daemon the version an upgrade replaces counts; PackageKit reports the new one only.
ParsePlan(p) == {i \in Items[p] : i.decodes /\ i.action \in {"Remove", "Obsoleted", "Replaced"}}
PlanFrom(p) == {i \in Items[p] : i.decodes /\ i.action \in {"Remove", "Obsoleted"}}
RemoveNames(p) == IF SessionOpen THEN ParsePlan(p) ELSE PlanFrom(p)

\* check_removal_plan, without --force.
CheckRemovalPlan(removed) ==
  /\ \A i \in removed : i.name \notin Protected
  /\ Cardinality(removed) <= CascadeLimit

\* Mutant of Conclude: an error returns at once, past close_session.
ConcludeAtOnce(how) == End(how)

\* The work is over: a dnf5daemon session is closed on every path.
Conclude(how) ==
  IF SessionOpen
  THEN /\ stage' = "call"
       /\ at' = "close_session"
       /\ exit' = how
  ELSE End(how)

\* The audited action returned.
Recorded(how) ==
  /\ stage' = "record"
  /\ exit' = how
  /\ UNCHANGED at

\* What follows a call that succeeded.  An open_session that names no session is an error,
\* and a Resolve that names no package the end.
Proceed ==
  CASE at = "open_session"   -> Goto("stage") \/ End("Dbus")
    [] at = "stage"          -> Goto("resolve")
    [] at = "do_transaction" -> Recorded("ok")
    [] at = "create1"        -> Goto("Resolve")
    [] at = "Resolve"        -> Goto("create2") \/ Conclude("NotFound")
    [] at = "create2"        -> Goto("Simulate")
    [] at = "create3"        -> Goto("Exec")
    [] at = "Exec"           -> Recorded("ok")
    [] at \in {"resolve", "Simulate"} -> stage' = "decide" /\ UNCHANGED <<at, exit>>

ServiceUnknown(k) == k \in unknown

\* Mutant of Refused: any refusal by dnf5daemon sends fez to PackageKit.
RefusedFallsBack ==
  CASE at \in DnfCalls \ {"close_session"} -> Goto("create1")
    [] at = "close_session" -> End(exit)
    [] at = "Exec"          -> Recorded("Dbus")
    [] OTHER -> Conclude(IF ServiceUnknown(at) THEN "DependencyMissing" ELSE "Dbus")

\* What follows a D-Bus error.  Only a dnf5daemon unknown to the bus at open_session leads
\* to PackageKit, and a PackageKit unknown at any CreateTransaction, the one behind the
\* attempt record too, to DependencyMissing; the error of close_session is ignored.
Refused ==
  CASE at = "open_session" /\ ServiceUnknown(at) -> Goto("create1")
    [] at = "close_session"  -> End(exit)
    [] at = "do_transaction" -> Recorded("Dbus")
    [] at \in Creating /\ ServiceUnknown(at) -> Conclude("DependencyMissing")
    [] OTHER -> Conclude("Dbus")

\* What follows any other error, AccessDenied among them.
Broken(how) ==
  CASE at = "close_session" -> End(exit)
    [] at \in {"do_transaction", "Exec"} -> Recorded(how)
    [] OTHER -> Conclude(how)
-----------------------------------------------------------------------------
(* The client. *)

Connect ==
  /\ stage = "connect"
  /\ \/ stage' = "validate" /\ UNCHANGED <<at, exit>>
     \/ End("failed")
     \/ End("killed")
  /\ UNCHANGED <<callVars, escVars, hostVars, req, plan, trail>>

Validate ==
  /\ stage = "validate"
  /\ IF req.valid THEN stage' = "escalate" /\ UNCHANGED <<at, exit>> ELSE End("Usage")
  /\ UNCHANGED <<callVars, escVars, hostVars, req, plan, trail>>

Escalate ==
  /\ stage = "escalate"
  /\ Esc!Client
  /\ UNCHANGED <<hostVars, req, stage, at, plan, trail, exit>>

\* dbus_open_privileged for dnf5daemon.  The one for PackageKit finds the connection
\* escalated; its open control is written with the call that follows.
Escalated ==
  /\ stage = "escalate"
  /\ CASE esc = "escalated" -> Goto("open_session")
       [] esc = "denied"    -> End("AccessDenied")
       [] esc = "dbus"      -> End("Dbus")
       [] esc \in {"failed", "killed"} -> End(esc)
       [] OTHER             -> FALSE
  /\ UNCHANGED <<callVars, escVars, hostVars, req, plan, trail>>

Call ==
  /\ stage = "call"
  /\ \/ Transport!Send(at) /\ stage' = "wait" /\ UNCHANGED <<at, exit>>
     \/ Transport!SendKills(at) /\ End("killed")
  /\ UNCHANGED <<escVars, hostVars, req, plan, trail>>

\* A reply, and with `resolve` the plan.
Answered ==
  /\ stage = "wait"
  /\ at \notin Collecting
  /\ Transport!Return(at)
  /\ IF ran[at] = "Dbus" THEN Refused
     ELSE IF at = "close_session" THEN End(exit)
     ELSE Proceed
  /\ plan' = IF at = "resolve" /\ ran[at] = "ok" THEN goal ELSE plan
  /\ UNCHANGED <<escVars, hostVars, req, trail>>

\* Mutant of Collected: the stream is not searched for ErrorCode.
CollectedBlindly ==
  /\ stage = "wait"
  /\ at \in Collecting
  /\ ran[at] = "ok"
  /\ Transport!Return(at)
  /\ Proceed
  /\ plan' = IF at = "Simulate" THEN goal ELSE plan
  /\ UNCHANGED <<escVars, hostVars, req, trail>>

\* The signals up to Finished; an ErrorCode among them is an error, NOT_AUTHORIZED one
\* of its own.  The error reply to a collecting call is never seen.
Collected ==
  /\ stage = "wait"
  /\ at \in Collecting
  /\ ran[at] = "ok"
  /\ Transport!Return(at)
  /\ IF at \in errors THEN \E how \in {"Dbus", "AccessDenied"} : Broken(how) ELSE Proceed
  /\ plan' = IF at = "Simulate" /\ at \notin errors THEN goal ELSE plan
  /\ UNCHANGED <<escVars, hostVars, req, trail>>

\* Mutant of Unanswered: a wait without a deadline.
UnansweredNever == FALSE /\ UNCHANGED vars

Unanswered ==
  /\ stage = "wait"
  /\ Transport!Fail(at)
  /\ \E how \in {"failed", "AccessDenied"} : Broken(how)
  /\ UNCHANGED <<escVars, hostVars, req, plan, trail>>

\* Mutant of Decide: the dry run is tested after the guardrails only.
DecideLateDryRun ==
  /\ stage = "decide"
  /\ IF ~req.force /\ ~CheckRemovalPlan(RemoveNames(plan)) THEN Conclude("DangerousTransaction")
     ELSE stage' = "attempt" /\ UNCHANGED <<at, exit>>
  /\ UNCHANGED <<callVars, escVars, hostVars, req, plan, trail>>

\* The plan is known: a dry run shows it; otherwise check_removal_plan.
Decide ==
  /\ stage = "decide"
  /\ IF req.dryRun THEN Conclude("DryRun")
     ELSE IF ~req.force /\ ~CheckRemovalPlan(RemoveNames(plan)) THEN Conclude("DangerousTransaction")
     ELSE stage' = "attempt" /\ UNCHANGED <<at, exit>>
  /\ UNCHANGED <<callVars, escVars, hostVars, req, plan, trail>>

Attempt ==
  /\ stage = "attempt"
  /\ trail' = Append(trail, "attempt")
  /\ Goto(IF at = "resolve" THEN "do_transaction" ELSE "create3")
  /\ UNCHANGED <<callVars, escVars, hostVars, req, plan>>

\* Mutant of Record: the error itself is the record's result.
RecordVerbatim ==
  /\ stage = "record"
  /\ trail' = Append(trail, exit)
  /\ Conclude(exit)
  /\ UNCHANGED <<callVars, escVars, hostVars, req, plan>>

\* Mutant of Record: the result is on record as `ok` once the call has returned.
RecordOk ==
  /\ stage = "record"
  /\ trail' = Append(trail, "ok")
  /\ Conclude(exit)
  /\ UNCHANGED <<callVars, escVars, hostVars, req, plan>>

Record ==
  /\ stage = "record"
  /\ trail' = Append(trail, IF exit = "ok" THEN "ok" ELSE "error")
  /\ Conclude(exit)
  /\ UNCHANGED <<callVars, escVars, hostVars, req, plan>>

Client ==
  \/ Connect
  \/ Validate
  \/ Escalate
  \/ Escalated
  \/ Call
  \/ Answered
  \/ Collected
  \/ Unanswered
  \/ Decide
  \/ Attempt
  \/ Record
-----------------------------------------------------------------------------
(* The other side. *)

\* The bridge's superuser controller.
Superuser ==
  /\ Esc!Bridge
  /\ UNCHANGED <<hostVars, req, stage, at, plan, trail, exit>>

Absent(daemon) == daemon \notin present

\* Who answers for a daemon.  Without it nothing succeeds: the bus refuses the call with
\* ServiceUnknown, or with another error if the daemon left with the call in its hands.
Serve(daemon, k, r) ==
  /\ r = "ok" => ~Absent(daemon)
  /\ Transport!Perform(k, r)
  /\ unknown' \in {unknown} \cup (IF r = "Dbus" /\ Absent(daemon) THEN {unknown \cup {k}} ELSE {})

\* dnf5daemon answers: `resolve` fixes the session's goal, `do_transaction` applies it.
Dnf5daemon(k, r) ==
  /\ Serve("dnf5daemon", k, r)
  /\ k = "do_transaction" /\ r = "ok" => goal # "none"
  /\ goal' = IF k = "resolve" /\ r = "ok" THEN world ELSE goal
  /\ applied' = IF k = "do_transaction" /\ r = "ok" THEN goal ELSE applied
  /\ UNCHANGED <<escVars, present, world, errors, req, stage, at, plan, trail, exit>>

\* PackageKit answers CreateTransaction, or runs a transaction and emits its signals up
\* to Finished.  It resolves the request anew in each transaction; one that emits
\* ErrorCode may have changed the host all the same.
PackageKit(k, r) ==
  /\ Serve("PackageKit", k, r)
  /\ errors' \in {errors} \cup (IF k \in Collecting /\ r = "ok" THEN {errors \cup {k}} ELSE {})
  /\ goal' = IF k = "Simulate" /\ r = "ok" THEN world ELSE goal
  /\ IF k = "Exec" /\ r = "ok"
     THEN applied' \in {world} \cup (IF k \in errors' THEN {applied} ELSE {})
     ELSE UNCHANGED applied
  /\ UNCHANGED <<escVars, present, world, req, stage, at, plan, trail, exit>>

\* Other programs install and remove packages: the same request comes to another plan.
WorldChanges ==
  /\ world' \in Plans \ {world}
  /\ UNCHANGED <<callVars, escVars, present, unknown, goal, errors, applied, req, stage, at, plan, trail, exit>>

\* The package of a daemon is removed from the host, at any moment.
DaemonLeaves ==
  /\ \E d \in present : present' = present \ {d}
  /\ UNCHANGED <<callVars, escVars, unknown, world, goal, errors, applied, req, stage, at, plan, trail, exit>>

Over == stage = "over" /\ UNCHANGED vars

Next ==
  \/ Client
  \/ Superuser
  \/ \E k \in DnfCalls, r \in {"ok", "Dbus"} : Dnf5daemon(k, r)
  \/ \E k \in PkCalls, r \in {"ok", "Dbus"} : PackageKit(k, r)
  \/ WorldChanges
  \/ DaemonLeaves
  \/ Over

\* BridgeClient ends every call, so the client goes on; nothing is assumed of the daemons.
Spec == Init /\ [][Next]_vars
FairSpec == Spec /\ WF_vars(Client)
-----------------------------------------------------------------------------
(* Properties *)

Sent(k) == answer[k] # "unsent"

\* An outcome that says nothing was done says the truth, for good: after a dry run, a
\* refusal by the guardrails or a request that came to nothing, neither backend has been
\* asked to change packages and nothing is on record.  DependencyMissing alone can come
\* with an attempt on record, from a PackageKit that left after the plan: still no
\* transaction was run, and no result claims one.
RefusalIsFinal ==
  req.dryRun \/ exit \in {"Usage", "NotFound", "DangerousTransaction", "DependencyMissing"} =>
    /\ ~Sent("do_transaction") /\ ~Sent("Exec")
    /\ applied = "none"
    /\ trail = <<>> \/ (exit = "DependencyMissing" /\ ~req.dryRun /\ trail = <<"attempt">>)
    /\ Sent("create3") => trail # <<>>

\* The packages a plan takes off the host, and whether fez can read all of it.
Leaving(p) == {i \in Items[p] : i.action \in {"Remove", "Obsoleted"}}
Legible(p) == \A i \in Items[p] : i.decodes

\* Without --force no package changes unless fez saw a plan the guardrails accept, and
\* dnf5daemon carries out exactly that plan, however the host changed in between: if fez
\* could read all of it, no protected package leaves the host and no cascade.
\* (PackageKit resolves anew: there the plan shown and the one applied may differ.)
GuardHolds ==
  applied # "none" =>
    /\ req.force \/ CheckRemovalPlan(RemoveNames(plan))
    /\ Sent("do_transaction") =>
         /\ applied = plan
         /\ Legible(applied) => req.force \/ CheckRemovalPlan(Leaving(applied))

\* PackageKit is tried only when dnf5daemon is absent and the bus said so: once dnf5daemon
\* has opened a session, or refused for any other reason, nothing is asked of PackageKit,
\* and no package is ever changed through both, whatever leaves the host meanwhile.
OneBackend ==
  (\E k \in PkCalls : Sent(k)) =>
    /\ Absent("dnf5daemon") /\ ServiceUnknown("open_session")
    /\ \A k \in DnfCalls \ {"open_session"} : ~Sent(k)

\* fez leaves no dnf5daemon session behind: on every path, failures and timeouts
\* included, the session it worked in is closed, unless fez was killed.
SessionClosed ==
  stage = "over" /\ Sent("stage") => Sent("close_session") \/ exit = "killed"

\* A success that is reported or on record is one: the packages were changed, and by
\* dnf5daemon according to the plan shown.
SuccessIsReal ==
  (exit = "ok" \/ trail = <<"attempt", "ok">>) =>
    /\ applied # "none"
    /\ Sent("do_transaction") => applied = plan
    /\ ~Sent("do_transaction") => "Exec" \notin errors

\* The invocation ends, whatever the daemons do.
InvocationEnds == <>(stage = "over")

\* The invocation keeps the promises of the audit trail.
Audit == INSTANCE AuditedMutation WITH
  Steps <- {"transaction"},
  goal <- {"transaction"},
  done <- IF applied = "none" THEN {} ELSE {"transaction"},
  trail <- trail

ImplementsAudit == Audit!Spec

\* The documented dry run, "Package `--dry-run` still applies removal guardrails"
\* (docs/reference/dry-run.md): a dry run whose plan the guardrails refuse does not end
\* as a plan.
DryRunGuarded ==
  stage = "over" /\ exit = "DryRun" => req.force \/ CheckRemovalPlan(RemoveNames(plan))

\* The documented pair of records, "A mutation writes an `attempt` record before the
\* operation and then writes an `ok` or `error` result record after the operation
\* finishes" (docs/agent-guide/security-model.md): an attempt on record gets its result
\* when fez ends by itself.
TrailComplete ==
  stage = "over" /\ exit # "killed" /\ trail # <<>> => Len(trail) = 2
=============================================================================
