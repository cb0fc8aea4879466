----------------------------- MODULE Escalation -----------------------------
(***************************************************************************)
(* BridgeClient::escalate: bringing up a root peer before the first        *)
(* privileged channel is opened.  The bridge lists the mechanisms it can   *)
(* use (cockpit.Superuser.Bridges); fez starts the safe ones in that order *)
(* until one succeeds, or only the one FEZ_ESCALATION names.               *)
(*                                                                         *)
(* The calls go through the contract of BridgeCall.  The call that starts  *)
(* a mechanism is named like the mechanism.                                *)
(***************************************************************************)
EXTENDS Naturals, Sequences, FiniteSets

CONSTANTS
  Mechanisms,   \* the names a bridge can advertise
  Safe,         \* SAFE_ESCALATION_MECHANISMS
  Lists,        \* the lists of mechanisms a bridge can advertise
  Overrides,    \* the values of FEZ_ESCALATION; "" stands for unset and for empty
  Calls         \* all method calls of the invocation

ASSUME MechanismsAssumption ==
  /\ Safe \subseteq Mechanisms
  /\ Lists \subseteq Seq(Mechanisms)
  /\ \A list \in Lists : \A i, j \in DOMAIN list : list[i] = list[j] => i = j
  /\ {"", "off", "Bridges"} \cap Mechanisms = {}
  /\ Mechanisms \cup {"Bridges"} \subseteq Calls

VARIABLES
  ran, answer,   \* the calls, as in BridgeCall
  forced,        \* the environment's FEZ_ESCALATION
  advertised,    \* the value of the bridge's Bridges property
  esc,           \* where escalate() stands, or how it ended
  rest           \* the mechanisms not yet dealt with, the one being tried first

escVars == <<forced, advertised, esc, rest>>
vars == <<ran, answer, escVars>>

Transport == INSTANCE BridgeCall

Waiting == {"listing", "starting"}
Ended == {"escalated", "denied", "dbus", "failed", "killed"}

TypeOK ==
  /\ Transport!TypeOK
  /\ forced \in Overrides
  /\ advertised \in Lists
  /\ esc \in {"idle", "choosing"} \cup Waiting \cup Ended
  /\ rest \in Seq(Mechanisms)

Init ==
  /\ Transport!Init
  /\ forced \in Overrides
  /\ advertised \in Lists
  /\ esc = "idle"
  /\ rest = <<>>
-----------------------------------------------------------------------------
Advertised(name) == \E i \in DOMAIN advertised : advertised[i] = name

\* Mutant of Candidates: the override is taken as it is, an empty one too.
CandidatesAsForced == <<forced>>

\* The mechanisms to go through: the forced one if it is safe and advertised, or all
\* of the bridge's in its order.
Candidates ==
  IF forced # ""
  THEN IF forced \in Safe /\ Advertised(forced) THEN <<forced>> ELSE <<>>
  ELSE advertised

\* Opening the internal channel and writing the call; a bridge that is gone ends fez.
Ask(k, waiting) ==
  \/ Transport!Send(k) /\ esc' = waiting
  \/ Transport!SendKills(k) /\ esc' = "killed"

Escalate ==
  /\ esc = "idle"
  /\ IF forced = "off"
     THEN esc' = "denied" /\ UNCHANGED <<ran, answer>>
     ELSE Ask("Bridges", "listing")
  /\ UNCHANGED <<forced, advertised, rest>>

\* superuser_bridges returns; its error is passed on as it is.
Listed ==
  /\ esc = "listing"
  /\ Transport!Return("Bridges")
  /\ IF ran["Bridges"] = "ok"
     THEN esc' = "choosing" /\ rest' = Candidates
     ELSE esc' = "dbus" /\ UNCHANGED rest
  /\ UNCHANGED <<forced, advertised>>

\* Mutant of Choose: the safe list is not consulted.
ChooseAny ==
  /\ esc = "choosing"
  /\ \/ rest = <<>> /\ esc' = "denied" /\ UNCHANGED <<ran, answer>>
     \/ rest # <<>> /\ Ask(Head(rest), "starting")
  /\ UNCHANGED <<forced, advertised, rest>>

\* The next mechanism: it is started, or passed over if it is not safe.  After the
\* last one the escalation is denied.
Choose ==
  /\ esc = "choosing"
  /\ \/ /\ rest = <<>>
        /\ esc' = "denied"
        /\ UNCHANGED <<ran, answer, rest>>
     \/ /\ rest # <<>>
        /\ Head(rest) \in Safe
        /\ Ask(Head(rest), "starting")
        /\ UNCHANGED rest
     \/ /\ rest # <<>>
        /\ Head(rest) \notin Safe
        /\ rest' = Tail(rest)
        /\ UNCHANGED <<ran, answer, esc>>
  /\ UNCHANGED <<forced, advertised>>

\* Mutant of Started: an error reply is taken for success.
StartedAnyReply ==
  /\ esc = "starting"
  /\ Transport!Return(Head(rest))
  /\ esc' = "escalated"
  /\ UNCHANGED <<forced, advertised, rest>>

\* superuser_start returns: a D-Bus error sends fez on to the next mechanism.
Started ==
  /\ esc = "starting"
  /\ Transport!Return(Head(rest))
  /\ IF ran[Head(rest)] = "ok"
     THEN esc' = "escalated" /\ UNCHANGED rest
     ELSE esc' = "choosing" /\ rest' = Tail(rest)
  /\ UNCHANGED <<forced, advertised>>

Asked == IF esc = "listing" THEN "Bridges" ELSE Head(rest)

\* Mutant of Broken: any error sends fez on to the next mechanism.
BrokenGoesOn ==
  /\ esc \in Waiting
  /\ Transport!Fail(Asked)
  /\ IF esc = "starting"
     THEN esc' = "choosing" /\ rest' = Tail(rest)
     ELSE esc' = "failed" /\ UNCHANGED rest
  /\ UNCHANGED <<forced, advertised>>

\* Mutant of Broken: a wait without a deadline.
BrokenNever == FALSE /\ UNCHANGED vars

\* Any other error ends the escalation, whichever call it hits.
Broken ==
  /\ esc \in Waiting
  /\ Transport!Fail(Asked)
  /\ esc' = "failed"
  /\ UNCHANGED <<forced, advertised, rest>>

Client == Escalate \/ Listed \/ Choose \/ Started \/ Broken

\* The bridge answers the property read, or starts a mechanism or refuses to.
Bridge ==
  /\ \E k \in Mechanisms \cup {"Bridges"}, r \in {"ok", "Dbus"} : Transport!Perform(k, r)
  /\ UNCHANGED escVars

Over == esc \in Ended /\ UNCHANGED vars

Next == Client \/ Bridge \/ Over

\* BridgeClient ends every call (OperationEnds), so the client goes on.
Spec == Init /\ [][Next]_vars
FairSpec == Spec /\ WF_vars(Client)
-----------------------------------------------------------------------------
RootPeers == {m \in Mechanisms : ran[m] = "ok"}

\* The bridge runs a root peer only by a mechanism that is safe and that it listed, by
\* no other than the one FEZ_ESCALATION names, and by none if it says `off`.
RootByConsent ==
  \A m \in RootPeers :
    /\ m \in Safe
    /\ Advertised(m)
    /\ forced \in {"", m}

\* At most one root peer ever comes up, even if the start of a mechanism that timed
\* out succeeds late: fez did not go on to another one.
OneRootPeer == Cardinality(RootPeers) <= 1

\* An escalation that succeeded is backed by a root peer, and every safe mechanism the
\* bridge prefers to it has refused.
BestPeer ==
  esc = "escalated" =>
    \E i \in DOMAIN advertised :
      /\ advertised[i] \in RootPeers
      /\ forced = "" => \A j \in 1..(i - 1) : advertised[j] \in Safe => ran[advertised[j]] = "Dbus"

\* After `access-denied` no root peer is there, and none is still on its way: every
\* mechanism that was asked to start has refused.
DeniedIsFinal ==
  esc = "denied" => \A m \in Mechanisms : answer[m] \in {"unsent", "Dbus"}

\* escalate() ends, whatever the mechanisms do.
EscalationEnds == esc \in Waiting ~> esc \in Ended
=============================================================================
