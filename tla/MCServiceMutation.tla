------------------------- MODULE MCServiceMutation -------------------------
(* ServiceMutation with every operation and a few escalation set-ups. *)
EXTENDS ServiceMutation

Names == {"sudo", "pkexec"}
SafeNames == {"sudo", "pkexec"}
SomeLists == {<<>>, <<"sudo", "pkexec">>}
SomeOverrides == {"", "off"}
NoOverride == {""}
OneList == {<<"sudo">>}
EnableNow == {"enable --now"}
=============================================================================
