--------------------------- MODULE MCBridgeClient ---------------------------
(* Small instances of BridgeClient for TLC. *)
EXTENDS BridgeClient

CallKinds == {"call", "collect"}
StreamKinds == {"call", "stream", "metrics"}
CollectOnly == {"collect"}
SomeProblems == {"none", "access-denied", "not-supported"}
OneProblem == {"access-denied"}
OneOrTwo == {1, 2}
NoFault == {}
ExitOnly == {"exit"}
=============================================================================
