-------------------------- MODULE AuditedMutation --------------------------
(***************************************************************************)
(* What the audit trail promises about one mutation, whatever subsystem    *)
(* it changes: nothing is done before the attempt is on record, at most    *)
(* one result follows it, and `ok` is recorded only when all is done.  It  *)
(* promises no more: an `error` says nothing about what was or will still  *)
(* be done, and an invocation may end without any record of its end.       *)
(***************************************************************************)
EXTENDS Naturals, Sequences

CONSTANT Steps      \* everything a mutation can do to the target host

VARIABLES
  goal,     \* the steps the requested mutation consists of
  done,     \* the steps the host has performed
  trail     \* the records written for this invocation

vars == <<goal, done, trail>>

TypeOK ==
  /\ goal \subseteq Steps
  /\ done \subseteq Steps
  /\ trail \in {<<>>, <<"attempt">>, <<"attempt", "ok">>, <<"attempt", "error">>}

Init ==
  /\ goal \in SUBSET Steps
  /\ done = {}
  /\ trail = <<>>

Attempt ==
  /\ trail = <<>>
  /\ trail' = <<"attempt">>
  /\ UNCHANGED <<goal, done>>

\* The host performs a step, possibly after the result was recorded.
Do(s) ==
  /\ trail # <<>>
  /\ s \in goal \ done
  /\ done' = done \cup {s}
  /\ UNCHANGED <<goal, trail>>

Record(result) ==
  /\ Len(trail) = 1
  /\ result = "ok" => goal \subseteq done
  /\ trail' = Append(trail, result)
  /\ UNCHANGED <<goal, done>>

Next ==
  \/ Attempt
  \/ \E s \in Steps : Do(s)
  \/ \E result \in {"ok", "error"} : Record(result)

Spec == Init /\ [][Next]_vars
=============================================================================
