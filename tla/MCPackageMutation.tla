------------------------- MODULE MCPackageMutation -------------------------
(* PackageMutation with one mechanism: MCEscalation and MCServiceMutation vary them.   *)
(* One plan for every verdict of the guardrails and every way it can go unnoticed.     *)
EXTENDS PackageMutation

Names == {"sudo"}
SafeNames == {"sudo"}
OneList == {<<"sudo">>}
NoOverride == {""}

ProtectedNames == {"bash"}
Limit == 1

Entry(action, name, evr, decodes) ==
  [action |-> action, name |-> name, evr |-> evr, decodes |-> decodes]

PlanItems ==
  [ plain     |-> {Entry("Install", "htop", 1, TRUE), Entry("Remove", "top", 1, TRUE)},
    upgrade   |-> {Entry("Upgrade", "bash", 2, TRUE), Entry("Replaced", "bash", 1, TRUE)},
    protected |-> {Entry("Install", "zsh", 1, TRUE), Entry("Obsoleted", "bash", 1, TRUE)},
    cascade   |-> {Entry("Remove", "top", 1, TRUE), Entry("Remove", "top", 2, TRUE)},
    garbled   |-> {Entry("Remove", "bash", 1, FALSE)} ]

PlanNames == DOMAIN PlanItems
=============================================================================
