---------------------------- MODULE MCEscalation ----------------------------
(* Escalation with two safe mechanisms and one that is not. *)
EXTENDS Escalation

Names == {"sudo", "pkexec", "custom"}
SafeNames == {"sudo", "pkexec"}
AnyList == {list \in UNION {[1..n -> Names] : n \in 0..3} :
              \A i, j \in DOMAIN list : list[i] = list[j] => i = j}
AnyOverride == Names \cup {"", "off"}
OwnCalls == Names \cup {"Bridges"}
=============================================================================
