----------------------------- MODULE BridgeCall -----------------------------
(***************************************************************************)
(* What a caller of BridgeClient may rely on, and nothing more.  A D-Bus   *)
(* method call is sent at most once, the service performs it at most once, *)
(* possibly after the caller gave up on it, and the caller gets either the *)
(* outcome of that very call or an error that says nothing about whether   *)
(* the service performed it.  Writing a request to a bridge that is gone   *)
(* kills the program: nothing is sent after that.                          *)
(***************************************************************************)
EXTENDS Naturals

CONSTANT Calls      \* the method calls of one invocation

VARIABLES
  ran,       \* ran[k]: what the service did with call k
  answer     \* answer[k]: what the caller of k has been told

vars == <<ran, answer>>

Performed == {"ok", "Dbus"}

TypeOK ==
  /\ ran \in [Calls -> Performed \cup {"no"}]
  /\ answer \in [Calls -> Performed \cup {"unsent", "pending", "failed", "killed"}]

Init ==
  /\ ran = [k \in Calls |-> "no"]
  /\ answer = [k \in Calls |-> "unsent"]

\* The client is single-threaded: it waits for one call at a time.
Idle == \A j \in Calls : answer[j] \notin {"pending", "killed"}

Send(k) ==
  /\ answer[k] = "unsent"
  /\ Idle
  /\ answer' = [answer EXCEPT ![k] = "pending"]
  /\ UNCHANGED ran

\* The request is written to a bridge that has gone.
SendKills(k) ==
  /\ answer[k] = "unsent"
  /\ Idle
  /\ answer' = [answer EXCEPT ![k] = "killed"]
  /\ UNCHANGED ran

\* Once sent, a call may be performed at any later time, even after "failed".
Perform(k, r) ==
  /\ answer[k] \notin {"unsent", "killed"}
  /\ ran[k] = "no"
  /\ ran' = [ran EXCEPT ![k] = r]
  /\ UNCHANGED answer

Return(k) ==
  /\ answer[k] = "pending"
  /\ ran[k] \in Performed
  /\ answer' = [answer EXCEPT ![k] = ran[k]]
  /\ UNCHANGED ran

Fail(k) ==
  /\ answer[k] = "pending"
  /\ answer' = [answer EXCEPT ![k] = "failed"]
  /\ UNCHANGED ran

Next ==
  \E k \in Calls :
    \/ Send(k)
    \/ SendKills(k)
    \/ \E r \in Performed : Perform(k, r)
    \/ Return(k)
    \/ Fail(k)

Spec == Init /\ [][Next]_vars
=============================================================================
