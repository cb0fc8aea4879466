--------------------------- MODULE DispatchProofs ---------------------------
(***************************************************************************)
(* Theorems about the changes Dispatch makes: the firewall commands, for   *)
(* all zones, services, ports, configurations and requests, however often  *)
(* other programs change the configurations meanwhile; the power actions   *)
(* and the DNS flush; and the audit trail of all of them.                  *)
(*                                                                         *)
(* A firewall command decides by what it has read of two configurations,   *)
(* one call after the other.  The argument has two halves: the order of    *)
(* the calls, and that what a call has told is still so or was touched     *)
(* since.                                                                  *)
(***************************************************************************)
EXTENDS Dispatch, SequenceTheorems, TLAPS

Own == FW!FwCalls
Sent(k) == answer[k] # "unsent"

\* The calls of the command are sent in order: what was sent lies behind `step`, and what
\* lies before it was answered, but for the permanent reads an unreadable configuration
\* makes fez pass over.
InOrder ==
  /\ step <= Len(FW!Script) + 1
  /\ req.op # "status" => step <= Len(FW!Script)
  /\ \A k \in Own : Sent(k) => \E i \in 1..Len(FW!Script) : i <= step /\ k = FW!Script[i]
  /\ \A i \in 1..Len(FW!Script) :
       i < step => \/ answer[FW!Script[i]] = "ok"
                   \/ unreadable /\ FW!Script[i] \in FW!PermanentReads
  /\ unreadable => step >= FW!AfterReads /\ req.op \in {"reload", "status"}
  /\ \A k \in Own : answer[k] \in {"ok", "Dbus"} => ran[k] = answer[k]
  /\ \A k \in Own : ran[k] # "no" => Sent(k)

\* The change is behind the gates, as a root peer.
Gated ==
  /\ stage \in {"attempt", "call", "result"} => step <= Len(FW!Script) /\ FW!At = "change"
  /\ stage = "wait" => step <= Len(FW!Script)
  /\ stage \in {"attempt", "call"} \/ Sent("change") => (req.force \/ ~FW!Risky) /\ req.op # "status"
  /\ Sent("change") =>
       /\ stage \in {"wait", "result", "over"}
       /\ exit \notin {"Protected", "Usage", "NotFound"}
       /\ FW!Esc!RootPeers # {}
       /\ req.valid
  /\ req.op # "status" /\ stage \in {"next", "attempt", "call", "wait", "result"} =>
       esc = "escalated" /\ req.valid
  /\ req.op # "status" /\ stage = "validate" => esc = "escalated"
  /\ esc = "starting" => rest # <<>>
  /\ esc = "escalated" => FW!Esc!RootPeers # {}

\* The records written are those of the stage, and a success is one.
OnRecord ==
  /\ stage \in {"connect", "escalate", "validate", "next", "attempt"} => trail = <<>>
  /\ stage = "wait" /\ FW!At # "change" => trail = <<>>
  /\ stage = "wait" /\ FW!At = "change" => trail = <<"attempt">>
  /\ stage \in {"call", "result"} => trail = <<"attempt">>
  /\ Sent("change") => trail # <<>>
  /\ stage \notin {"result", "over"} => exit = "none"
  /\ stage = "result" /\ exit = "ok" => ran["change"] = "ok"

\* What a read has told is so or was touched since, until fez itself makes a change.
Accurate ==
  /\ told.zone \in Zones <=> ran["getDefaultZone"] = "ok"
  /\ \A k \in FW!RuntimeReads : \A i \in FW!Part(k) :
       /\ i \in told.runtime => ran[k] = "ok"
       /\ ran[k] = "ok" /\ ran["change"] # "ok" =>
            (i \in told.runtime <=> i \in runtime[told.zone])
              \/ <<told.zone, i>> \in touched \/ i \in told.dropped
  /\ \A k \in FW!PermanentReads : \A i \in FW!Part(k) :
       /\ i \in told.permanent => ran[k] = "ok"
       /\ ran[k] = "ok" /\ ran["change"] # "ok" =>
            (i \in told.permanent <=> i \in permanent[told.zone])
              \/ <<told.zone, i>> \in touched \/ i \in told.dropped

\* A reload leaves no difference, and nothing is lost before fez makes its change.
Applied ==
  /\ ran["change"] = "ok" /\ req.op = "reload" => runtime = permanent
  /\ cut # "none" \/ discarded # {} => ran["change"] = "ok"

FwInv ==
  /\ FW!TypeOK /\ InOrder /\ Gated /\ OnRecord /\ Accurate /\ Applied
  /\ FW!SessionKept /\ FW!ReloadKeeps
-----------------------------------------------------------------------------
(* The calls of a firewall command. *)

Comparing == req.op \in {"status", "reload"}
Last == "permanent getMasquerade"
Before == {"getDefaultZone"} \cup FW!RuntimeReads

LEMMA StatusScript ==
  ASSUME req.op = "status"
  PROVE  /\ Len(FW!Script) = 9
         /\ FW!Script[1] = "getDefaultZone" /\ FW!Script[2] = "queryPanicMode"
         /\ FW!Script[3] = "runtime getServices" /\ FW!Script[4] = "runtime getPorts"
         /\ FW!Script[5] = "runtime getMasquerade" /\ FW!Script[6] = "getZoneByName"
         /\ FW!Script[7] = "permanent getServices" /\ FW!Script[8] = "permanent getPorts"
         /\ FW!Script[9] = "permanent getMasquerade"
  <1>1. FW!Script =
          <<"getDefaultZone", "queryPanicMode",
            "runtime getServices", "runtime getPorts", "runtime getMasquerade", "getZoneByName",
            "permanent getServices", "permanent getPorts", "permanent getMasquerade">>
    BY DEF FW!Script, FW!Zoned
  <1> QED
    BY <1>1

LEMMA ReloadScript ==
  ASSUME req.op = "reload"
  PROVE  /\ Len(FW!Script) = 9
         /\ FW!Script[1] = "getDefaultZone" /\ FW!Script[2] = "runtime getServices"
         /\ FW!Script[3] = "runtime getPorts" /\ FW!Script[4] = "runtime getMasquerade"
         /\ FW!Script[5] = "getZoneByName" /\ FW!Script[6] = "permanent getServices"
         /\ FW!Script[7] = "permanent getPorts" /\ FW!Script[8] = "permanent getMasquerade"
         /\ FW!Script[9] = "change"
  <1>1. FW!Script =
          <<"getDefaultZone",
            "runtime getServices", "runtime getPorts", "runtime getMasquerade", "getZoneByName",
            "permanent getServices", "permanent getPorts", "permanent getMasquerade", "change">>
    BY DEF FW!Script, FW!Zoned
  <1> QED
    BY <1>1

LEMMA ShortScript ==
  ASSUME req.op \notin {"status", "reload"}
  PROVE  \/ Len(FW!Script) = 1 /\ FW!Script[1] = "change"
         \/ Len(FW!Script) = 2 /\ FW!Script[1] = "getDefaultZone" /\ FW!Script[2] = "change"
  <1>1. CASE req.op \in FW!Zoned /\ req.zone = "none"
    <2>1. FW!Script = <<"getDefaultZone", "change">>
      BY <1>1 DEF FW!Script, FW!Zoned
    <2> QED
      BY <2>1
  <1>2. CASE ~(req.op \in FW!Zoned /\ req.zone = "none")
    <2>1. FW!Script = <<"change">>
      BY <1>2 DEF FW!Script, FW!Zoned
    <2> QED
      BY <2>1
  <1> QED
    BY <1>1, <1>2

LEMMA Nine ==
  ASSUME NEW i \in 1..9
  PROVE  i = 1 \/ i = 2 \/ i = 3 \/ i = 4 \/ i = 5 \/ i = 6 \/ i = 7 \/ i = 8 \/ i = 9
  OBVIOUS

\* A command that compares reads the runtime configuration first and the permanent one
\* after it, and a reload comes last.
LEMMA ComparingShape ==
  ASSUME Comparing
  PROVE  /\ Len(FW!Script) = 9 /\ FW!Script[1] = "getDefaultZone"
         /\ \A i \in 1..9 : FW!Script[i] \in Own
         /\ \A i, j \in 1..9 : FW!Script[i] = FW!Script[j] => i = j
         /\ \A i \in 1..9 : FW!Script[i] = "change" <=> i = 9 /\ req.op # "status"
         /\ \A k \in Before \cup FW!PermanentReads : \E i \in 1..9 : FW!Script[i] = k
         /\ \A i, j \in 1..9 :
              FW!Script[i] \in FW!PermanentReads \cup {"change"} /\ FW!Script[j] \in Before => j < i
         /\ \A i, j \in 1..9 :
              FW!Script[i] \in {Last, "change"} /\ FW!Script[j] \in FW!PermanentReads => j < i \/ j = i
         /\ \A i \in 1..9 : FW!Script[i] \in FW!RuntimeReads => 1 < i
         /\ \A i, j \in 1..9 :
              FW!Script[i] \in FW!PermanentReads /\ i < j => FW!Script[j] \in FW!PermanentReads \cup {"change"}
  <1> USE DEF Own, FW!FwCalls, FW!FwReads, FW!RuntimeReads, FW!PermanentReads, Last, Before
  <1>1. CASE req.op = "status"
    <2>1. \A i \in 1..9 : FW!Script[i] \in Own
      BY <1>1, Nine, StatusScript
    <2>2. \A i, j \in 1..9 : FW!Script[i] = FW!Script[j] => i = j
      BY <1>1, Nine, StatusScript
    <2>3. \A i \in 1..9 : FW!Script[i] = "change" <=> i = 9 /\ req.op # "status"
      BY <1>1, Nine, StatusScript
    <2>4. \A k \in Before \cup FW!PermanentReads : \E i \in 1..9 : FW!Script[i] = k
      <3>1. /\ 1 \in 1..9 /\ 2 \in 1..9 /\ 3 \in 1..9 /\ 4 \in 1..9 /\ 5 \in 1..9
            /\ 6 \in 1..9 /\ 7 \in 1..9 /\ 8 \in 1..9 /\ 9 \in 1..9
        OBVIOUS
      <3> QED
        BY <1>1, <3>1, StatusScript
    <2>5. \A i \in 1..9 : FW!Script[i] \in FW!PermanentReads \cup {"change"} => i \in 6..9
      <3> SUFFICES ASSUME NEW i \in 1..9, i \notin 6..9
                   PROVE  FW!Script[i] \notin FW!PermanentReads \cup {"change"}
        OBVIOUS
      <3>1. i = 1 \/ i = 2 \/ i = 3 \/ i = 4 \/ i = 5
        OBVIOUS
      <3> QED
        BY <1>1, <3>1, StatusScript
    <2>6. \A i \in 1..9 : FW!Script[i] \in Before => i \in 1..5
      <3> SUFFICES ASSUME NEW i \in 1..9, i \notin 1..5
                   PROVE  FW!Script[i] \notin Before
        OBVIOUS
      <3>1. i = 6 \/ i = 7 \/ i = 8 \/ i = 9
        OBVIOUS
      <3> QED
        BY <1>1, <3>1, StatusScript
    <2>7. \A i \in 1..9 : FW!Script[i] \in {Last, "change"} => i = 9
      BY <1>1, Nine, StatusScript
    <2>8. \A j \in 1..9 : FW!Script[j] \in FW!PermanentReads => j \in 1..9
      OBVIOUS
    <2>9. /\ \A i, j \in 1..9 :
               FW!Script[i] \in FW!PermanentReads \cup {"change"} /\ FW!Script[j] \in Before => j < i
          /\ \A i, j \in 1..9 :
               FW!Script[i] \in {Last, "change"} /\ FW!Script[j] \in FW!PermanentReads => j < i \/ j = i
      <3> HIDE DEF Own, FW!FwCalls, FW!FwReads, FW!RuntimeReads, FW!PermanentReads, Last, Before
      <3> QED
        BY <2>5, <2>6, <2>7, <2>8
    <2>10. /\ FW!Script[1] \notin FW!RuntimeReads
           /\ Len(FW!Script) = 9 /\ FW!Script[1] = "getDefaultZone"
      BY <1>1, StatusScript
    <2>11. \A i \in 1..9 : FW!Script[i] \in FW!RuntimeReads => 1 < i
      <3> HIDE DEF FW!RuntimeReads
      <3> QED
        BY <2>10
    <2>12. \A i, j \in 1..9 :
             FW!Script[i] \in FW!PermanentReads /\ i < j => FW!Script[j] \in FW!PermanentReads \cup {"change"}
      <3>1. \A j \in 6..9 : FW!Script[j] \in FW!PermanentReads \cup {"change"}
        <4> SUFFICES ASSUME NEW j \in 6..9
                     PROVE  FW!Script[j] \in FW!PermanentReads \cup {"change"}
          OBVIOUS
        <4>1. j = 6 \/ j = 7 \/ j = 8 \/ j = 9
          OBVIOUS
        <4> QED
          BY <1>1, <4>1, StatusScript
      <3> HIDE DEF FW!PermanentReads
      <3> QED
        BY <2>5, <3>1
    <2> QED
      BY <2>1, <2>2, <2>3, <2>4, <2>9, <2>10, <2>11, <2>12
  <1>2. CASE req.op = "reload"
    <2>1. \A i \in 1..9 : FW!Script[i] \in Own
      BY <1>2, Nine, ReloadScript
    <2>2. \A i, j \in 1..9 : FW!Script[i] = FW!Script[j] => i = j
      BY <1>2, Nine, ReloadScript
    <2>3. \A i \in 1..9 : FW!Script[i] = "change" <=> i = 9 /\ req.op # "status"
      BY <1>2, Nine, ReloadScript
    <2>4. \A k \in Before \cup FW!PermanentReads : \E i \in 1..9 : FW!Script[i] = k
      <3>1. /\ 1 \in 1..9 /\ 2 \in 1..9 /\ 3 \in 1..9 /\ 4 \in 1..9 /\ 5 \in 1..9
            /\ 6 \in 1..9 /\ 7 \in 1..9 /\ 8 \in 1..9 /\ 9 \in 1..9
        OBVIOUS
      <3> QED
        BY <1>2, <3>1, ReloadScript
    <2>5. \A i \in 1..9 : FW!Script[i] \in FW!PermanentReads \cup {"change"} => i \in 5..9
      <3> SUFFICES ASSUME NEW i \in 1..9, i \notin 5..9
                   PROVE  FW!Script[i] \notin FW!PermanentReads \cup {"change"}
        OBVIOUS
      <3>1. i = 1 \/ i = 2 \/ i = 3 \/ i = 4
        OBVIOUS
      <3> QED
        BY <1>2, <3>1, ReloadScript
    <2>6. \A i \in 1..9 : FW!Script[i] \in Before => i \in 1..4
      <3> SUFFICES ASSUME NEW i \in 1..9, i \notin 1..4
                   PROVE  FW!Script[i] \notin Before
        OBVIOUS
      <3>1. i = 5 \/ i = 6 \/ i = 7 \/ i = 8 \/ i = 9
        OBVIOUS
      <3> QED
        BY <1>2, <3>1, ReloadScript
    <2>7. \A i \in 1..9 : FW!Script[i] \in {Last, "change"} => i = 8 \/ i = 9
      BY <1>2, Nine, ReloadScript
    <2>8. \A j \in 1..9 : FW!Script[j] \in FW!PermanentReads => j \in 1..8
      <3>1. FW!Script[9] \notin FW!PermanentReads
        BY <1>2, ReloadScript
      <3> HIDE DEF FW!PermanentReads
      <3>2. \A j \in 1..9 : j = 9 \/ j \in 1..8
        OBVIOUS
      <3> QED
        BY <3>1, <3>2
    <2>9. /\ \A i, j \in 1..9 :
               FW!Script[i] \in FW!PermanentReads \cup {"change"} /\ FW!Script[j] \in Before => j < i
          /\ \A i, j \in 1..9 :
               FW!Script[i] \in {Last, "change"} /\ FW!Script[j] \in FW!PermanentReads => j < i \/ j = i
      <3> HIDE DEF Own, FW!FwCalls, FW!FwReads, FW!RuntimeReads, FW!PermanentReads, Last, Before
      <3> QED
        BY <2>5, <2>6, <2>7, <2>8
    <2>10. /\ FW!Script[1] \notin FW!RuntimeReads
           /\ Len(FW!Script) = 9 /\ FW!Script[1] = "getDefaultZone"
      BY <1>2, ReloadScript
    <2>11. \A i \in 1..9 : FW!Script[i] \in FW!RuntimeReads => 1 < i
      <3> HIDE DEF FW!RuntimeReads
      <3> QED
        BY <2>10
    <2>12. \A i, j \in 1..9 :
             FW!Script[i] \in FW!PermanentReads /\ i < j => FW!Script[j] \in FW!PermanentReads \cup {"change"}
      <3>1. \A j \in 5..9 : FW!Script[j] \in FW!PermanentReads \cup {"change"}
        <4> SUFFICES ASSUME NEW j \in 5..9
                     PROVE  FW!Script[j] \in FW!PermanentReads \cup {"change"}
          OBVIOUS
        <4>1. j = 5 \/ j = 6 \/ j = 7 \/ j = 8 \/ j = 9
          OBVIOUS
        <4> QED
          BY <1>2, <4>1, ReloadScript
      <3> HIDE DEF FW!PermanentReads
      <3> QED
        BY <2>5, <3>1
    <2> QED
      BY <2>1, <2>2, <2>3, <2>4, <2>9, <2>10, <2>11, <2>12
  <1> QED
    BY <1>1, <1>2 DEF Comparing

\* What all scripts have in common.
LEMMA ScriptShape ==
  /\ Len(FW!Script) \in 1..9
  /\ \A i \in 1..Len(FW!Script) : FW!Script[i] \in Own
  /\ \A i, j \in 1..Len(FW!Script) : FW!Script[i] = FW!Script[j] => i = j
  /\ \A i \in 1..Len(FW!Script) : FW!Script[i] = "change" <=> i = Len(FW!Script) /\ req.op # "status"
  /\ \A i \in 1..Len(FW!Script) : FW!Script[i] \in FW!RuntimeReads \cup FW!PermanentReads => Comparing
  <1> DEFINE w == FW!Script
             n == Len(FW!Script)
  <1>1. CASE Comparing
    <2>1. n = 9
      BY <1>1, ComparingShape
    <2>2. \A i \in 1..9 : w[i] \in Own
      BY <1>1, ComparingShape
    <2>3. \A i, j \in 1..9 : w[i] = w[j] => i = j
      BY <1>1, ComparingShape
    <2>4. \A i \in 1..9 : w[i] = "change" <=> i = 9 /\ req.op # "status"
      BY <1>1, ComparingShape
    <2> HIDE DEF w, n
    <2>5. /\ n \in 1..9
          /\ \A i \in 1..n : w[i] \in Own
          /\ \A i, j \in 1..n : w[i] = w[j] => i = j
          /\ \A i \in 1..n : w[i] = "change" <=> i = n /\ req.op # "status"
      BY <2>1, <2>2, <2>3, <2>4
    <2> QED
      BY <1>1, <2>5 DEF w, n
  <1>2. CASE ~Comparing
    <2>1. req.op # "status"
      BY <1>2 DEF Comparing
    <2>2. \/ n = 1 /\ w[1] = "change"
          \/ n = 2 /\ w[1] = "getDefaultZone" /\ w[2] = "change"
      BY <1>2, ShortScript DEF Comparing
    <2> HIDE DEF w, n
    <2>3. \/ n = 1 /\ \A i \in 1..n : i = 1
          \/ n = 2 /\ \A i \in 1..n : i = 1 \/ i = 2
      BY <2>2
    <2>4. n \in 1..9
      BY <2>2
    <2>5. \A i \in 1..n : w[i] \in {"getDefaultZone", "change"}
      BY <2>2, <2>3
    <2>6. \A i, j \in 1..n : w[i] = w[j] => i = j
      BY <2>2, <2>3
    <2>7. \A i \in 1..n : w[i] = "change" <=> i = n
      BY <2>2, <2>3
    <2>8. \A i \in 1..n : w[i] \in Own /\ w[i] \notin FW!RuntimeReads \cup FW!PermanentReads
      BY <2>5 DEF Own, FW!FwCalls, FW!FwReads, FW!RuntimeReads, FW!PermanentReads
    <2> QED
      BY <2>1, <2>4, <2>6, <2>7, <2>8 DEF w, n
  <1> QED
    BY <1>1, <1>2
-----------------------------------------------------------------------------
(* Types, and what the order of the calls says. *)

Outcomes == {"ok", "Dbus", "no"}
Answers == {"ok", "Dbus", "unsent", "pending", "failed", "killed"}

LEMMA FwTyped ==
  ASSUME FW!TypeOK
  PROVE  /\ ran \in [FW!Calls -> Outcomes]
         /\ answer \in [FW!Calls -> Answers]
         /\ rest \in Seq(Mechanisms)
         /\ advertised \in Seq(Mechanisms)
         /\ Own \subseteq FW!Calls
         /\ Mechanisms \subseteq FW!Calls
         /\ "Bridges" \in FW!Calls
         /\ Own \cap (Mechanisms \cup {"Bridges"}) = {}
         /\ "Bridges" \notin Mechanisms
         /\ step \in 1..10
  <1>1. FW!Esc!TypeOK /\ step \in 1..10
    BY DEF FW!TypeOK
  <1>2. FW!Esc!Transport!TypeOK /\ rest \in Seq(Mechanisms) /\ advertised \in Lists
    BY <1>1 DEF FW!Esc!TypeOK
  <1> QED
    BY <1>1, <1>2, FirewallAssumption
       DEF FW!FirewallParameters, FW!Calls, Own, Outcomes, Answers, FW!Esc!Transport!TypeOK,
           FW!Esc!Transport!Performed

LEMMA OwnCalls ==
  /\ FW!RuntimeReads \subseteq Own
  /\ FW!PermanentReads \subseteq Own
  /\ FW!FwReads \subseteq Own
  /\ Before \subseteq Own
  /\ "change" \in Own /\ "getDefaultZone" \in Own
  /\ Last \in FW!PermanentReads
  /\ "change" \notin FW!FwReads
  /\ FW!RuntimeReads \cap FW!PermanentReads = {}
  /\ "getDefaultZone" \notin FW!RuntimeReads \cup FW!PermanentReads
  /\ FW!RuntimeReads \cup FW!PermanentReads \subseteq FW!FwReads
  BY DEF Own, FW!FwCalls, FW!FwReads, FW!RuntimeReads, FW!PermanentReads, Before, Last

\* Everything a reload compares is read twice, and each kind of it by one call.
LEMMA Parts ==
  /\ \A k : FW!Part(k) \subseteq FW!Compared
  /\ \A i \in FW!Compared : \E k \in FW!RuntimeReads : i \in FW!Part(k)
  /\ \A i \in FW!Compared : \E k \in FW!PermanentReads : i \in FW!Part(k)
  /\ \A j, k \in FW!RuntimeReads : FW!Part(j) \cap FW!Part(k) # {} => j = k
  /\ \A j, k \in FW!PermanentReads : FW!Part(j) \cap FW!Part(k) # {} => j = k
  /\ \A k : k \notin FW!RuntimeReads \cup FW!PermanentReads => FW!Part(k) = {}
  <1>1. Services \cap Ports = {} /\ "masquerade" \notin Services \cup Ports
    BY FirewallAssumption DEF FW!FirewallParameters
  <1>2. /\ FW!Part("runtime getServices") = Services /\ FW!Part("permanent getServices") = Services
        /\ FW!Part("runtime getPorts") = Ports /\ FW!Part("permanent getPorts") = Ports
        /\ FW!Part("runtime getMasquerade") = {"masquerade"}
        /\ FW!Part("permanent getMasquerade") = {"masquerade"}
        /\ \A k : k \notin (FW!RuntimeReads \cup FW!PermanentReads) \ {"getZoneByName"} => FW!Part(k) = {}
    BY DEF FW!Part, FW!RuntimeReads, FW!PermanentReads
  <1> HIDE DEF FW!Part
  <1>3. /\ Services \cap Ports = {} /\ Ports \cap Services = {}
         /\ Services \cap {"masquerade"} = {} /\ {"masquerade"} \cap Services = {}
         /\ Ports \cap {"masquerade"} = {} /\ {"masquerade"} \cap Ports = {}
    BY <1>1
  <1>4. FW!Part("getZoneByName") = {}
    BY <1>2 DEF FW!RuntimeReads, FW!PermanentReads
  <1>5. \A k : FW!Part(k) \subseteq FW!Compared
    BY <1>2 DEF FW!Compared, FW!RuntimeReads, FW!PermanentReads
  <1>6. /\ \A i \in FW!Compared : \E k \in FW!RuntimeReads : i \in FW!Part(k)
        /\ \A i \in FW!Compared : \E k \in FW!PermanentReads : i \in FW!Part(k)
    BY <1>2 DEF FW!Compared, FW!RuntimeReads, FW!PermanentReads
  <1>7. \A j, k \in FW!RuntimeReads : FW!Part(j) \cap FW!Part(k) # {} => j = k
    <2> SUFFICES ASSUME NEW j \in FW!RuntimeReads, NEW k \in FW!RuntimeReads, j # k
                 PROVE  FW!Part(j) \cap FW!Part(k) = {}
      OBVIOUS
    <2>1. \A c \in FW!RuntimeReads :
            \/ c = "runtime getServices" /\ FW!Part(c) = Services
            \/ c = "runtime getPorts" /\ FW!Part(c) = Ports
            \/ c = "runtime getMasquerade" /\ FW!Part(c) = {"masquerade"}
      BY <1>2, <1>4 DEF FW!RuntimeReads
    <2> QED
      BY <1>3, <2>1
  <1>8. \A j, k \in FW!PermanentReads : FW!Part(j) \cap FW!Part(k) # {} => j = k
    <2> SUFFICES ASSUME NEW j \in FW!PermanentReads, NEW k \in FW!PermanentReads, j # k
                 PROVE  FW!Part(j) \cap FW!Part(k) = {}
      OBVIOUS
    <2>1. \A c \in FW!PermanentReads :
            \/ c = "permanent getServices" /\ FW!Part(c) = Services
            \/ c = "permanent getPorts" /\ FW!Part(c) = Ports
            \/ c = "permanent getMasquerade" /\ FW!Part(c) = {"masquerade"}
            \/ c = "getZoneByName" /\ FW!Part(c) = {}
      BY <1>2, <1>4 DEF FW!PermanentReads
    <2> QED
      BY <1>3, <2>1
  <1> QED
    BY <1>2, <1>5, <1>6, <1>7, <1>8

LEMMA CallsBehind ==
  ASSUME FW!TypeOK, InOrder
  PROVE  /\ \A k \in FW!RuntimeReads \cup FW!PermanentReads :
              Sent(k) => Comparing /\ ran["getDefaultZone"] = "ok"
         /\ \A k \in FW!PermanentReads, r \in FW!RuntimeReads : Sent(k) => ran[r] = "ok"
         /\ answer[Last] = "ok" /\ ~unreadable => \A k \in FW!PermanentReads : ran[k] = "ok"
         /\ step <= Len(FW!Script) /\ FW!At = "change" /\ ~unreadable /\ Comparing =>
              \A k \in Before \cup FW!PermanentReads : ran[k] = "ok"
         /\ Sent("change") => step = Len(FW!Script) /\ FW!At = "change"
  <1> DEFINE w == FW!Script
             n == Len(FW!Script)
  <1>1. /\ n \in 1..9 /\ step \in 1..10
        /\ \A i \in 1..n : w[i] \in Own
        /\ \A i \in 1..n : w[i] = "change" => i = n /\ req.op # "status"
        /\ \A i \in 1..n : w[i] \in FW!RuntimeReads \cup FW!PermanentReads => Comparing
    BY ScriptShape, FwTyped
  <1>2. Comparing => n = 9
    BY ComparingShape
  <1>3. Comparing => \A k \in Before \cup FW!PermanentReads : \E i \in 1..n : w[i] = k
    BY ComparingShape
  <1>4. /\ req.op # "status" => step <= n
        /\ \A k \in Own : Sent(k) => \E i \in 1..n : i <= step /\ k = w[i]
        /\ \A i \in 1..n : i < step => answer[w[i]] = "ok" \/ (unreadable /\ w[i] \in FW!PermanentReads)
        /\ \A k \in Own : answer[k] = "ok" => ran[k] = "ok"
    BY DEF InOrder
  <1>5. Comparing => \A i, j \in 1..n :
          w[i] \in FW!PermanentReads \cup {"change"} /\ w[j] \in Before => j < i
    BY <1>2, ComparingShape
  <1>6. Comparing => \A i, j \in 1..n :
          w[i] \in {Last, "change"} /\ w[j] \in FW!PermanentReads => j < i \/ j = i
    BY <1>2, ComparingShape
  <1>7. Comparing => w[1] = "getDefaultZone" /\ \A i \in 1..n : w[i] \in FW!RuntimeReads => 1 < i
    BY <1>2, ComparingShape
  <1> HIDE DEF w, n
  <1>8. \A i \in 1..n : i < step /\ w[i] \notin FW!PermanentReads => ran[w[i]] = "ok"
    BY <1>1, <1>4
  <1>9. ASSUME NEW k \in FW!RuntimeReads \cup FW!PermanentReads, Sent(k)
        PROVE  Comparing /\ ran["getDefaultZone"] = "ok"
    <2>1. PICK i \in 1..n : i <= step /\ k = w[i]
      BY <1>4, <1>9, OwnCalls
    <2>2. Comparing
      BY <1>1, <2>1
    <2>3. 1 \in 1..n /\ 1 < i /\ w[1] = "getDefaultZone"
      BY <1>1, <1>5, <1>7, <2>1, <2>2 DEF Before
    <2> QED
      BY <1>1, <1>8, <2>1, <2>2, <2>3, OwnCalls
  <1>10. ASSUME NEW k \in FW!PermanentReads, NEW r \in FW!RuntimeReads, Sent(k)
         PROVE  ran[r] = "ok"
    <2>1. PICK i \in 1..n : i <= step /\ k = w[i]
      BY <1>4, <1>10, OwnCalls
    <2>2. Comparing /\ r \in Before
      BY <1>1, <2>1 DEF Before
    <2>3. PICK j \in 1..n : w[j] = r
      BY <1>3, <2>2
    <2>4. j < i
      BY <1>5, <2>1, <2>2, <2>3
    <2> QED
      BY <1>1, <1>8, <2>1, <2>3, <2>4, OwnCalls
  <1>11. ASSUME answer[Last] = "ok", ~unreadable, NEW k \in FW!PermanentReads
         PROVE  ran[k] = "ok"
    <2>1. PICK i \in 1..n : i <= step /\ Last = w[i]
      BY <1>4, <1>11, OwnCalls DEF Sent
    <2>2. Comparing
      BY <1>1, <2>1, OwnCalls
    <2>3. PICK j \in 1..n : w[j] = k
      BY <1>3, <2>2
    <2>4. j < i \/ j = i
      BY <1>6, <2>1, <2>2, <2>3
    <2>5. CASE j = i
      BY <1>4, <1>11, <2>1, <2>3, <2>5, OwnCalls
    <2>6. CASE j < i
      BY <1>1, <1>4, <1>11, <2>1, <2>3, <2>6, OwnCalls
    <2> QED
      BY <2>4, <2>5, <2>6
  <1>12. ASSUME step <= n, w[step] = "change", ~unreadable, Comparing,
                NEW k \in Before \cup FW!PermanentReads
         PROVE  ran[k] = "ok"
    <2>1. PICK j \in 1..n : w[j] = k
      BY <1>3, <1>12
    <2>2. j < step
      <3>1. step \in 1..n /\ k # "change"
        BY <1>1, <1>12, OwnCalls DEF Before
      <3> QED
        BY <1>5, <1>6, <1>12, <2>1, <3>1
    <2> QED
      BY <1>4, <1>12, <2>1, <2>2, OwnCalls
  <1>13. ASSUME Sent("change")
         PROVE  step = n /\ w[step] = "change"
    <2>1. PICK i \in 1..n : i <= step /\ "change" = w[i]
      BY <1>4, <1>13, OwnCalls
    <2>2. i = n /\ step <= n
      BY <1>1, <1>4, <2>1
    <2> QED
      BY <1>1, <2>1, <2>2
  <1> QED
    BY <1>9, <1>10, <1>11, <1>12, <1>13 DEF w, n, FW!At
-----------------------------------------------------------------------------
(* Steps that touch neither calls nor host. *)

LEMMA FwInit ==
  ASSUME Init, area = "firewall"
  PROVE  FwInv
  <1>1. FW!Init
    BY DEF Init
  <1>2. FW!Esc!Init /\ FW!Esc!Transport!Init
    BY <1>1 DEF FW!Init, FW!Esc!Init
  <1>3. /\ \A k \in FW!Calls : answer[k] = "unsent" /\ ran[k] = "no"
        /\ stage = "connect" /\ step = 1 /\ trail = <<>> /\ exit = "none" /\ esc = "idle" /\ rest = <<>>
        /\ told.zone = "none" /\ told.runtime = {} /\ told.permanent = {}
        /\ unreadable = FALSE /\ discarded = {} /\ cut = "none"
    BY <1>1, <1>2 DEF FW!Init, FW!Esc!Init, FW!Esc!Transport!Init
  <1>4. FW!TypeOK
    <2>1. FW!Esc!TypeOK
      <3>1. FW!Esc!Transport!TypeOK
        BY <1>2 DEF FW!Esc!Transport!Init, FW!Esc!Transport!TypeOK, FW!Esc!Transport!Performed
      <3> QED
        BY <1>2, <3>1 DEF FW!Esc!Init, FW!Esc!TypeOK
    <2>2. req \in FW!Request
      BY <1>1, FirewallAssumption DEF FW!Init, FW!FirewallParameters
    <2>3. runtime \in [Zones -> SUBSET FW!Items] /\ permanent \in [Zones -> SUBSET FW!Items]
      BY <1>1, FirewallAssumption DEF FW!Init, FW!FirewallParameters
    <2>4. changes \in 0..MaxChanges
      BY <1>1, FirewallAssumption DEF FW!Init, FW!FirewallParameters
    <2>5. /\ told \in [zone : Zones \cup {"none"}, runtime : SUBSET FW!Compared,
                      permanent : SUBSET FW!Compared, dropped : SUBSET FW!Compared]
          /\ touched \subseteq Zones \X FW!Items /\ discarded \subseteq Zones \X FW!Items
          /\ cut \in Zones \cup {"none"}
      BY <1>1 DEF FW!Init
    <2>6. /\ stage \in FW!Stages /\ exit \in FW!Exits /\ step \in 1..10
          /\ trail \in Seq({"attempt", "ok", "error"})
      BY <1>3 DEF FW!Stages, FW!Exits
    <2> QED
      BY <1>1, <2>1, <2>2, <2>3, <2>4, <2>5, <2>6 DEF FW!Init, FW!TypeOK
  <1>5. Own \subseteq FW!Calls /\ \A k \in Own : ~Sent(k) /\ ran[k] = "no"
    BY <1>3, <1>4, FwTyped DEF Sent
  <1>6. InOrder
    BY <1>3, <1>5, ScriptShape DEF InOrder, Sent
  <1>7. Gated /\ OnRecord
    BY <1>3, <1>5, OwnCalls DEF Gated, OnRecord
  <1>8. Accurate
    <2>1. told.zone \notin Zones
      BY <1>3, FirewallAssumption DEF FW!FirewallParameters
    <2> QED
      BY <1>3, <1>5, <2>1, OwnCalls DEF Accurate
  <1>9. Applied /\ FW!SessionKept /\ FW!ReloadKeeps
    BY <1>3, <1>5, OwnCalls DEF Applied, FW!SessionKept, FW!ReloadKeeps, FW!Missed
  <1> QED
    BY <1>4, <1>6, <1>7, <1>8, <1>9 DEF FwInv

LEMMA Quiet ==
  ASSUME FwInv, UNCHANGED <<FW!callVars, FW!escVars, FW!hostVars, req, step, unreadable>>
  PROVE  /\ FW!Esc!TypeOK' /\ InOrder' /\ Accurate' /\ Applied' /\ FW!SessionKept' /\ FW!ReloadKeeps'
         /\ FW!Script' = FW!Script /\ FW!At' = FW!At /\ FW!Risky' = FW!Risky
         /\ FW!Esc!RootPeers' = FW!Esc!RootPeers
         /\ \A k : Sent(k)' <=> Sent(k)
  <1>1. UNCHANGED <<ran, answer, forced, advertised, esc, rest, told, runtime, permanent, default, panic,
                    changes, touched, discarded, cut, req, step, unreadable>>
    BY DEF FW!callVars, FW!escVars, FW!hostVars
  <1>2. FW!Script' = FW!Script
    BY <1>1 DEF FW!Script
  <1>3. FW!At' = FW!At /\ FW!AfterReads' = FW!AfterReads
    BY <1>1, <1>2 DEF FW!At, FW!AfterReads
  <1>4. FW!Risky' = FW!Risky
    BY <1>1 DEF FW!Risky, FW!Drift
  <1>5. FW!Esc!RootPeers' = FW!Esc!RootPeers
    BY <1>1 DEF FW!Esc!RootPeers
  <1>6. FW!Esc!TypeOK'
    BY <1>1 DEF FwInv, FW!TypeOK, FW!Esc!TypeOK, FW!Esc!Transport!TypeOK
  <1>7. InOrder'
    BY <1>1, <1>2, <1>3 DEF FwInv, InOrder, Sent
  <1>8. Accurate' /\ Applied'
    BY <1>1 DEF FwInv, Accurate, Applied
  <1>9. FW!SessionKept' /\ FW!ReloadKeeps'
    BY <1>1 DEF FwInv, FW!SessionKept, FW!ReloadKeeps, FW!Missed
  <1> QED
    BY <1>1, <1>2, <1>3, <1>4, <1>5, <1>6, <1>7, <1>8, <1>9 DEF Sent

LEMMA QuietTyped ==
  ASSUME FwInv, UNCHANGED <<FW!callVars, FW!escVars, FW!hostVars, req, step, unreadable>>,
         stage' \in FW!Stages, exit' \in FW!Exits, trail' \in Seq({"attempt", "ok", "error"})
  PROVE  FW!TypeOK'
  <1>1. FW!Esc!TypeOK'
    BY Quiet
  <1> QED
    BY <1>1 DEF FwInv, FW!TypeOK, FW!hostVars

LEMMA ConnectKeeps ==
  ASSUME FwInv, FW!Connect
  PROVE  FwInv'
  <1>1. /\ UNCHANGED <<FW!callVars, FW!escVars, FW!hostVars, req, step, unreadable>>
        /\ stage = "connect" /\ trail' = trail
    BY DEF FW!Connect
  <1>2. \/ /\ stage' \in {"next", "escalate"} /\ exit' = exit
           /\ stage' = "next" <=> req.op = "status"
        \/ stage' = "over" /\ exit' \in {"failed", "killed"}
    BY DEF FW!Connect, FW!End
  <1>3. trail = <<>> /\ exit = "none" /\ ~Sent("change")
    BY <1>1 DEF FwInv, OnRecord, Gated
  <1>4. FW!TypeOK'
    BY <1>1, <1>2, <1>3, QuietTyped DEF FW!Stages, FW!Exits
  <1>5. Gated' /\ OnRecord'
    BY <1>1, <1>2, <1>3, Quiet DEF FwInv, Gated, OnRecord, FW!escVars
  <1> QED
    BY <1>1, <1>4, <1>5, Quiet DEF FwInv

LEMMA EscalatedKeeps ==
  ASSUME FwInv, FW!Escalated
  PROVE  FwInv'
  <1>1. /\ UNCHANGED <<FW!callVars, FW!escVars, FW!hostVars, req, step, unreadable>>
        /\ stage = "escalate" /\ trail' = trail
    BY DEF FW!Escalated
  <1>2. \/ /\ stage' \in {"next", "validate"} /\ exit' = exit /\ esc = "escalated"
           /\ stage' = "next" <=> req.op = "status"
        \/ stage' = "over" /\ exit' \in {"AccessDenied", "Dbus", "failed", "killed"}
    BY DEF FW!Escalated, FW!End
  <1>3. trail = <<>> /\ exit = "none" /\ ~Sent("change")
    BY <1>1 DEF FwInv, OnRecord, Gated
  <1>4. FW!TypeOK'
    BY <1>1, <1>2, <1>3, QuietTyped DEF FW!Stages, FW!Exits, FW!FwErrors
  <1>5. Gated' /\ OnRecord'
    BY <1>1, <1>2, <1>3, Quiet DEF FwInv, Gated, OnRecord, FW!escVars
  <1> QED
    BY <1>1, <1>4, <1>5, Quiet DEF FwInv

LEMMA ValidateKeeps ==
  ASSUME FwInv, FW!Validate
  PROVE  FwInv'
  <1>1. /\ UNCHANGED <<FW!callVars, FW!escVars, FW!hostVars, req, step, unreadable>>
        /\ stage = "validate" /\ trail' = trail
    BY DEF FW!Validate
  <1>2. \/ stage' = "next" /\ exit' = exit /\ req.valid
        \/ stage' = "over" /\ exit' \in {"Usage", "NotFound"}
    BY DEF FW!Validate, FW!End
  <1>3. trail = <<>> /\ exit = "none" /\ ~Sent("change")
    BY <1>1 DEF FwInv, OnRecord, Gated
  <1>4. FW!TypeOK'
    BY <1>1, <1>2, <1>3, QuietTyped DEF FW!Stages, FW!Exits
  <1>5. Gated' /\ OnRecord'
    BY <1>1, <1>2, <1>3, Quiet DEF FwInv, Gated, OnRecord, FW!escVars
  <1> QED
    BY <1>1, <1>4, <1>5, Quiet DEF FwInv

LEMMA RaiseKeeps ==
  ASSUME FwInv, FW!Raise
  PROVE  FwInv'
  <1>1. /\ UNCHANGED <<FW!callVars, FW!escVars, FW!hostVars, req, step, unreadable>>
        /\ stage = "next" /\ stage' = "escalate" /\ trail' = trail /\ exit' = exit
    BY DEF FW!Raise
  <1>2. trail = <<>> /\ exit = "none" /\ ~Sent("change")
    BY <1>1 DEF FwInv, OnRecord, Gated
  <1>3. FW!TypeOK'
    BY <1>1, <1>2, QuietTyped DEF FW!Stages, FW!Exits
  <1>4. Gated' /\ OnRecord'
    BY <1>1, <1>2, Quiet DEF FwInv, Gated, OnRecord, FW!escVars
  <1> QED
    BY <1>1, <1>3, <1>4, Quiet DEF FwInv

LEMMA GuardKeeps ==
  ASSUME FwInv, FW!Guard
  PROVE  FwInv'
  <1>1. /\ UNCHANGED <<FW!callVars, FW!escVars, FW!hostVars, req, step, unreadable>>
        /\ stage = "next" /\ trail' = trail /\ step <= Len(FW!Script) /\ FW!At = "change"
    BY FwTyped, ScriptShape DEF FW!Guard, FW!Finished, FwInv
  <1>2. \/ stage' = "attempt" /\ exit' = exit /\ (req.force \/ ~FW!Risky)
        \/ stage' = "over" /\ exit' = "Protected"
    BY DEF FW!Guard, FW!End
  <1>3. trail = <<>> /\ exit = "none" /\ ~Sent("change")
    BY <1>1 DEF FwInv, OnRecord, Gated
  <1>4. req.op # "status"
    BY <1>1, ScriptShape, FwTyped DEF FwInv, FW!At
  <1>5. FW!TypeOK'
    BY <1>1, <1>2, <1>3, QuietTyped DEF FW!Stages, FW!Exits
  <1>6. Gated' /\ OnRecord'
    BY <1>1, <1>2, <1>3, <1>4, Quiet DEF FwInv, Gated, OnRecord, FW!escVars
  <1> QED
    BY <1>1, <1>5, <1>6, Quiet DEF FwInv

LEMMA AttemptKeeps ==
  ASSUME FwInv, FW!Attempt
  PROVE  FwInv'
  <1>1. /\ UNCHANGED <<FW!callVars, FW!escVars, FW!hostVars, req, step, unreadable>>
        /\ stage = "attempt" /\ stage' = "call" /\ exit' = exit /\ trail' = Append(trail, "attempt")
    BY DEF FW!Attempt
  <1>2. trail = <<>> /\ exit = "none" /\ ~Sent("change")
    BY <1>1 DEF FwInv, OnRecord, Gated
  <1>3. trail' = <<"attempt">>
    BY <1>1, <1>2
  <1>4. FW!TypeOK'
    BY <1>1, <1>2, <1>3, QuietTyped DEF FW!Stages, FW!Exits
  <1>5. Gated' /\ OnRecord'
    BY <1>1, <1>2, <1>3, Quiet DEF FwInv, Gated, OnRecord, FW!escVars
  <1> QED
    BY <1>1, <1>4, <1>5, Quiet DEF FwInv

LEMMA ResultKeeps ==
  ASSUME FwInv, FW!Result
  PROVE  FwInv'
  <1>1. /\ UNCHANGED <<FW!callVars, FW!escVars, FW!hostVars, req, step, unreadable>>
        /\ stage = "result" /\ stage' = "over" /\ exit' = exit
        /\ trail' = Append(trail, IF exit = "ok" THEN "ok" ELSE "error")
    BY DEF FW!Result
  <1>2. trail = <<"attempt">>
    BY <1>1 DEF FwInv, OnRecord
  <1>3. trail' # <<>> /\ trail' \in Seq({"attempt", "ok", "error"})
    BY <1>1, <1>2
  <1>4. FW!TypeOK'
    BY <1>1, <1>3, QuietTyped DEF FW!Stages, FwInv, FW!TypeOK
  <1>5. Gated' /\ OnRecord'
    BY <1>1, <1>3, Quiet DEF FwInv, Gated, OnRecord, FW!escVars
  <1> QED
    BY <1>1, <1>4, <1>5, Quiet DEF FwInv

LEMMA ShowKeeps ==
  ASSUME FwInv, FW!Show
  PROVE  FwInv'
  <1>1. /\ UNCHANGED <<FW!callVars, FW!escVars, FW!hostVars, req, step, unreadable>>
        /\ stage = "next" /\ stage' = "over" /\ exit' = "ok" /\ trail' = trail
    BY DEF FW!Show, FW!End
  <1>2. trail = <<>> /\ ~Sent("change")
    BY <1>1 DEF FwInv, OnRecord, Gated
  <1>3. FW!TypeOK'
    BY <1>1, <1>2, QuietTyped DEF FW!Stages, FW!Exits
  <1>4. Gated' /\ OnRecord'
    BY <1>1, <1>2, Quiet DEF FwInv, Gated, OnRecord, FW!escVars
  <1> QED
    BY <1>1, <1>3, <1>4, Quiet DEF FwInv
-----------------------------------------------------------------------------
(* Steps that write a call or take its answer. *)

\* The call the command is at, when there is one.
LEMMA Standing ==
  ASSUME FW!TypeOK, step <= Len(FW!Script)
  PROVE  /\ step \in 1..Len(FW!Script)
         /\ FW!At = FW!Script[step]
         /\ FW!At \in Own /\ FW!At \in FW!Calls
         /\ FW!At = "change" => step = Len(FW!Script) /\ req.op # "status"
         /\ FW!At # "change" /\ req.op # "status" => step < Len(FW!Script)
         /\ \A i \in 1..Len(FW!Script) : FW!Script[i] = FW!At => i = step
  <1>1. step \in 1..Len(FW!Script)
    BY FwTyped, ScriptShape
  <1> QED
    BY <1>1, FwTyped, ScriptShape DEF FW!At

\* A step that changes the answer of that call alone keeps what is about the host.
LEMMA OneAnswer ==
  ASSUME FwInv, step <= Len(FW!Script),
         NEW r \in Answers, answer' = [answer EXCEPT ![FW!At] = r],
         UNCHANGED <<ran, FW!escVars, FW!hostVars, req>>
  PROVE  /\ FW!Esc!TypeOK'
         /\ answer'[FW!At] = r
         /\ \A k \in Own : k # FW!At => answer'[k] = answer[k]
         /\ FW!Script' = FW!Script
         /\ FW!Esc!RootPeers' = FW!Esc!RootPeers
         /\ Accurate' /\ Applied' /\ FW!SessionKept'
  <1>1. UNCHANGED <<ran, forced, advertised, esc, rest, told, runtime, permanent, default, panic,
                    changes, touched, discarded, cut, req>>
    BY DEF FW!escVars, FW!hostVars
  <1>2. FW!At \in FW!Calls /\ Own \subseteq FW!Calls /\ answer \in [FW!Calls -> Answers]
    BY FwTyped, Standing DEF FwInv
  <1>3. answer' \in [FW!Calls -> Answers]
    BY <1>2
  <1>4. FW!Esc!Transport!TypeOK'
    BY <1>1, <1>3 DEF FwInv, FW!TypeOK, FW!Esc!TypeOK, FW!Esc!Transport!TypeOK, Answers,
                      FW!Esc!Transport!Performed
  <1>5. FW!Esc!TypeOK'
    BY <1>1, <1>4 DEF FwInv, FW!TypeOK, FW!Esc!TypeOK
  <1>6. FW!Script' = FW!Script
    BY <1>1 DEF FW!Script
  <1>7. FW!Esc!RootPeers' = FW!Esc!RootPeers
    BY <1>1 DEF FW!Esc!RootPeers
  <1>8. Accurate' /\ Applied'
    BY <1>1 DEF FwInv, Accurate, Applied
  <1>9. FW!SessionKept'
    BY <1>1 DEF FwInv, FW!SessionKept, FW!Missed
  <1> QED
    BY <1>2, <1>5, <1>6, <1>7, <1>8, <1>9

LEMMA SendKeeps ==
  ASSUME FwInv, FW!Send, step <= Len(FW!Script),
         \/ stage = "next" /\ FW!At # "change"
         \/ stage = "call",
         UNCHANGED <<FW!escVars, FW!hostVars, req, step, unreadable, trail>>
  PROVE  FwInv'
  <1>1. PICK r \in {"pending", "killed"} :
          /\ answer' = [answer EXCEPT ![FW!At] = r]
          /\ ran' = ran
          /\ \/ stage' = "wait" /\ exit' = exit
             \/ stage' = "over" /\ exit' = "killed"
    BY DEF FW!Send, FW!End, FW!Transport!Send, FW!Transport!SendKills
  <1>2. /\ FW!Esc!TypeOK' /\ Accurate' /\ Applied' /\ FW!SessionKept'
        /\ answer'[FW!At] = r /\ \A k \in Own : k # FW!At => answer'[k] = answer[k]
        /\ FW!Script' = FW!Script /\ FW!Esc!RootPeers' = FW!Esc!RootPeers
    BY <1>1, OneAnswer DEF Answers
  <1>3. FW!At' = FW!At /\ FW!AfterReads' = FW!AfterReads /\ FW!Risky' = FW!Risky
    BY <1>2 DEF FW!At, FW!AfterReads, FW!Risky, FW!Drift, FW!hostVars
  <1>4. /\ step \in 1..Len(FW!Script) /\ FW!At = FW!Script[step] /\ FW!At \in Own
        /\ \A i \in 1..Len(FW!Script) : FW!Script[i] = FW!At => i = step
        /\ \A i \in 1..Len(FW!Script) : FW!Script[i] \in Own
    BY Standing, ScriptShape DEF FwInv
  <1>5. exit = "none" /\ (stage = "call" => FW!At = "change" /\ trail = <<"attempt">>)
    BY DEF FwInv, OnRecord, Gated
  <1>6. FW!TypeOK'
    BY <1>1, <1>2, <1>5 DEF FwInv, FW!TypeOK, FW!hostVars, FW!Stages, FW!Exits
  <1>7. InOrder'
    <2>1. \A k \in Own : answer'[k] # "unsent" =>
            \E i \in 1..Len(FW!Script) : i <= step /\ k = FW!Script[i]
      BY <1>2, <1>4 DEF FwInv, InOrder, Sent
    <2>2. \A i \in 1..Len(FW!Script) :
            i < step => \/ answer'[FW!Script[i]] = "ok"
                        \/ unreadable /\ FW!Script[i] \in FW!PermanentReads
      BY <1>2, <1>4 DEF FwInv, InOrder
    <2>3. /\ \A k \in Own : answer'[k] \in {"ok", "Dbus"} => ran[k] = answer'[k]
          /\ \A k \in Own : ran[k] # "no" => answer'[k] # "unsent"
      BY <1>1, <1>2 DEF FwInv, InOrder, Sent
    <2> QED
      BY <1>1, <1>2, <1>3, <2>1, <2>2, <2>3 DEF FwInv, InOrder, Sent
  <1>8. Gated'
    <2>1. Sent("change")' => FW!At = "change" /\ stage = "call"
      BY <1>2, OwnCalls DEF FwInv, Gated, Sent
    <2>2. stage = "call" => FW!Esc!RootPeers # {} /\ req.valid /\ esc = "escalated"
      BY DEF FwInv, Gated
    <2>3. req.op # "status" => esc = "escalated" /\ req.valid
      BY DEF FwInv, Gated
    <2>4. Sent("change")' => (req.force \/ ~FW!Risky) /\ req.op # "status"
      BY <2>1 DEF FwInv, Gated
    <2>5. esc' = esc /\ rest' = rest /\ req' = req /\ step' = step /\ stage' \in {"wait", "over"}
      BY <1>1 DEF FW!escVars
    <2>6. exit' \notin {"Protected", "Usage", "NotFound"}
      BY <1>1, <1>5
    <2>7. Len(FW!Script)' = Len(FW!Script)
      BY <1>2
    <2>8. (esc = "starting" => rest # <<>>) /\ (esc = "escalated" => FW!Esc!RootPeers # {})
      BY DEF FwInv, Gated
    <2> QED
      BY <1>2, <1>3, <2>1, <2>2, <2>3, <2>4, <2>5, <2>6, <2>7, <2>8 DEF Gated
  <1>9. OnRecord'
    <2>1. Sent("change")' => FW!At = "change" /\ stage = "call"
      BY <1>2, OwnCalls DEF FwInv, Gated, Sent
    <2>2. trail' = IF FW!At = "change" THEN <<"attempt">> ELSE <<>>
      BY <1>5 DEF FwInv, OnRecord
    <2>3. <<"attempt">> # <<>>
      OBVIOUS
    <2> QED
      BY <1>1, <1>3, <1>5, <2>1, <2>2, <2>3 DEF OnRecord
  <1>10. FW!ReloadKeeps'
    BY DEF FwInv, FW!ReloadKeeps, FW!hostVars, FW!Missed
  <1> QED
    BY <1>2, <1>6, <1>7, <1>8, <1>9, <1>10 DEF FwInv

LEMMA AskKeeps ==
  ASSUME FwInv, FW!Ask
  PROVE  FwInv'
  <1>1. step <= Len(FW!Script)
    BY FwTyped, ScriptShape DEF FW!Ask, FW!Finished, FwInv
  <1> QED
    BY <1>1, SendKeeps DEF FW!Ask

LEMMA CallKeeps ==
  ASSUME FwInv, FW!Call
  PROVE  FwInv'
  <1>1. step <= Len(FW!Script)
    BY DEF FW!Call, FwInv, Gated
  <1> QED
    BY <1>1, SendKeeps DEF FW!Call

\* The answer to the call is taken; what else changes is up to the three ways to go on.
LEMMA TakeKeeps ==
  ASSUME FwInv, stage = "wait", answer[FW!At] = "pending", NEW r \in {"ok", "Dbus", "failed"},
         answer' = [answer EXCEPT ![FW!At] = r],
         r # "failed" => ran[FW!At] = r,
         UNCHANGED <<ran, FW!escVars, FW!hostVars, req, trail>>,
         \/ /\ r = "ok" /\ FW!At # "change" /\ stage' = "next"
            /\ step' = step + 1 /\ UNCHANGED <<unreadable, exit>>
         \/ /\ stage' = (IF FW!At = "change" THEN "result" ELSE "over") /\ UNCHANGED <<step, unreadable>>
            /\ exit' \in FW!FwErrors \cup {"ok", "failed", "AccessDenied"}
            /\ exit' = "ok" => r = "ok" /\ FW!At = "change"
         \/ /\ FW!At \in FW!PermanentReads /\ unreadable' = TRUE /\ stage' = "next"
            /\ step' = FW!AfterReads /\ UNCHANGED exit
  PROVE  FwInv'
  <1>1. step <= Len(FW!Script) /\ exit = "none"
    BY DEF FwInv, Gated, OnRecord
  <1>2. /\ step \in 1..Len(FW!Script) /\ FW!At = FW!Script[step] /\ FW!At \in Own
        /\ FW!At # "change" /\ req.op # "status" => step < Len(FW!Script)
        /\ \A i \in 1..Len(FW!Script) : FW!Script[i] = FW!At => i = step
        /\ \A i \in 1..Len(FW!Script) : FW!Script[i] \in Own
        /\ Len(FW!Script) \in 1..9
    BY <1>1, Standing, ScriptShape DEF FwInv
  <1>3. /\ FW!Esc!TypeOK' /\ Accurate' /\ Applied' /\ FW!SessionKept'
        /\ answer'[FW!At] = r /\ \A k \in Own : k # FW!At => answer'[k] = answer[k]
        /\ FW!Script' = FW!Script /\ FW!Esc!RootPeers' = FW!Esc!RootPeers
    BY <1>1, OneAnswer DEF Answers
  <1>4. \A k \in Own : Sent(k)' <=> Sent(k) \/ k = FW!At
    BY <1>3 DEF Sent
  <1>5. FW!At # "change" => ~Sent("change") /\ ~Sent("change")'
    BY <1>2, <1>4, CallsBehind, OwnCalls DEF FwInv
  <1>6. FW!AfterReads' = FW!AfterReads
    BY <1>3 DEF FW!AfterReads
  <1>7. /\ \A k \in Own : answer'[k] \in {"ok", "Dbus"} => ran[k] = answer'[k]
        /\ \A k \in Own : ran[k] # "no" => answer'[k] # "unsent"
    BY <1>3 DEF FwInv, InOrder, Sent
  <1>8. CASE /\ r = "ok" /\ FW!At # "change" /\ stage' = "next"
             /\ step' = step + 1 /\ UNCHANGED <<unreadable, exit>>
    <2>1. FW!TypeOK'
      <3>1. step + 1 \in 1..10
        BY <1>2
      <3> QED
        BY <1>3, <1>8, <3>1 DEF FwInv, FW!TypeOK, FW!hostVars, FW!Stages
    <2>2. InOrder'
      <3>1. /\ step + 1 <= Len(FW!Script) + 1
            /\ req.op # "status" => step + 1 <= Len(FW!Script)
            /\ unreadable => step + 1 >= FW!AfterReads /\ req.op \in {"reload", "status"}
        <4>1. FW!AfterReads \in Nat
          BY <1>2 DEF FW!AfterReads
        <4> QED
          BY <1>2, <1>8, <4>1 DEF FwInv, InOrder
      <3>2. \A k \in Own : answer'[k] # "unsent" =>
              \E i \in 1..Len(FW!Script) : i <= step + 1 /\ k = FW!Script[i]
        BY <1>2, <1>4 DEF FwInv, InOrder, Sent
      <3>3. \A i \in 1..Len(FW!Script) :
              i < step + 1 => \/ answer'[FW!Script[i]] = "ok"
                              \/ unreadable /\ FW!Script[i] \in FW!PermanentReads
        <4> SUFFICES ASSUME NEW i \in 1..Len(FW!Script), i < step + 1
                     PROVE  \/ answer'[FW!Script[i]] = "ok"
                            \/ unreadable /\ FW!Script[i] \in FW!PermanentReads
          OBVIOUS
        <4>1. i < step \/ i = step
          BY <1>2
        <4> QED
          BY <1>2, <1>3, <1>8, <4>1 DEF FwInv, InOrder
      <3> QED
        BY <1>3, <1>6, <1>7, <1>8, <3>1, <3>2, <3>3 DEF InOrder, Sent
    <2>3. Gated' /\ OnRecord'
      BY <1>1, <1>3, <1>5, <1>8 DEF FwInv, Gated, OnRecord, FW!escVars
    <2>4. FW!ReloadKeeps'
      BY <1>8 DEF FwInv, FW!ReloadKeeps, FW!hostVars, FW!Missed
    <2> QED
      BY <1>3, <2>1, <2>2, <2>3, <2>4 DEF FwInv
  <1>9. CASE /\ stage' = (IF FW!At = "change" THEN "result" ELSE "over") /\ UNCHANGED <<step, unreadable>>
             /\ exit' \in FW!FwErrors \cup {"ok", "failed", "AccessDenied"}
             /\ exit' = "ok" => r = "ok" /\ FW!At = "change"
    <2>1. FW!TypeOK'
      BY <1>3, <1>9 DEF FwInv, FW!TypeOK, FW!hostVars, FW!Stages, FW!Exits
    <2>2. FW!At' = FW!At /\ FW!Risky' = FW!Risky
      BY <1>3, <1>9 DEF FW!At, FW!Risky, FW!Drift, FW!hostVars
    <2>3. InOrder'
      <3>1. \A k \in Own : answer'[k] # "unsent" =>
              \E i \in 1..Len(FW!Script) : i <= step /\ k = FW!Script[i]
        BY <1>2, <1>4 DEF FwInv, InOrder, Sent
      <3>2. \A i \in 1..Len(FW!Script) :
              i < step => \/ answer'[FW!Script[i]] = "ok"
                          \/ unreadable /\ FW!Script[i] \in FW!PermanentReads
        BY <1>2, <1>3 DEF FwInv, InOrder
      <3> QED
        BY <1>3, <1>6, <1>7, <1>9, <3>1, <3>2 DEF FwInv, InOrder, Sent
    <2>4. Gated' /\ OnRecord'
      <3>1. FW!At = "change" => Sent("change")
        BY DEF Sent
      <3> QED
        BY <1>1, <1>3, <1>5, <1>9, <2>2, <3>1 DEF FwInv, Gated, OnRecord, FW!escVars, FW!FwErrors
    <2>5. FW!ReloadKeeps'
      BY <1>9 DEF FwInv, FW!ReloadKeeps, FW!hostVars, FW!Missed
    <2> QED
      BY <1>3, <2>1, <2>3, <2>4, <2>5 DEF FwInv
  <1>10. CASE /\ FW!At \in FW!PermanentReads /\ unreadable' = TRUE /\ stage' = "next"
              /\ step' = FW!AfterReads /\ UNCHANGED exit
    <2>1. Comparing /\ FW!At # "change"
      BY <1>2, <1>10, ScriptShape, OwnCalls
    <2>2. Len(FW!Script) = 9 /\ FW!AfterReads = IF req.op = "reload" THEN 9 ELSE 10
      <3>1. Len(FW!Script) = 9
        BY <2>1, ComparingShape
      <3> QED
        BY <3>1 DEF FW!AfterReads
    <2>3. FW!TypeOK'
      BY <1>3, <1>10, <2>2 DEF FwInv, FW!TypeOK, FW!hostVars, FW!Stages
    <2>4. InOrder'
      <3>1. step <= FW!AfterReads
        BY <1>2, <2>2
      <3>2. \A k \in Own : answer'[k] # "unsent" =>
              \E i \in 1..Len(FW!Script) : i <= FW!AfterReads /\ k = FW!Script[i]
        BY <1>2, <1>4, <2>2 DEF FwInv, InOrder, Sent
      <3>3. \A i \in 1..Len(FW!Script) :
              i < FW!AfterReads => answer'[FW!Script[i]] = "ok" \/ FW!Script[i] \in FW!PermanentReads
        <4> SUFFICES ASSUME NEW i \in 1..Len(FW!Script), i < FW!AfterReads,
                            FW!Script[i] \notin FW!PermanentReads
                     PROVE  answer'[FW!Script[i]] = "ok"
          OBVIOUS
        <4>1. FW!Script[i] # "change"
          BY <2>1, <2>2, ScriptShape DEF Comparing
        <4>2. i < step
          BY <1>2, <1>10, <2>1, <2>2, <4>1, ComparingShape
        <4> QED
          BY <1>2, <1>3, <4>2 DEF FwInv, InOrder
      <3>4. /\ FW!AfterReads <= Len(FW!Script) + 1
            /\ req.op # "status" => FW!AfterReads <= Len(FW!Script)
        BY <2>1, <2>2 DEF Comparing
      <3> QED
        BY <1>3, <1>6, <1>7, <1>10, <2>1, <2>2, <3>2, <3>3, <3>4 DEF InOrder, Sent, Comparing
    <2>5. Gated' /\ OnRecord'
      BY <1>1, <1>3, <1>5, <1>10, <2>1 DEF FwInv, Gated, OnRecord, FW!escVars
    <2>6. discarded = {}
      BY <1>5, <2>1, OwnCalls DEF FwInv, Applied, InOrder
    <2>7. FW!ReloadKeeps'
      BY <2>6 DEF FW!ReloadKeeps, FW!hostVars, FW!Missed
    <2> QED
      BY <1>3, <2>3, <2>4, <2>5, <2>7 DEF FwInv
  <1> QED
    BY <1>8, <1>9, <1>10

LEMMA AnsweredKeeps ==
  ASSUME FwInv, FW!Answered
  PROVE  FwInv'
  <1>1. /\ answer[FW!At] = "pending" /\ ran[FW!At] \in {"ok", "Dbus"}
        /\ answer' = [answer EXCEPT ![FW!At] = ran[FW!At]] /\ ran' = ran
    BY DEF FW!Answered, FW!Transport!Return, FW!Transport!Performed
  <1>2. UNCHANGED <<FW!escVars, FW!hostVars, req, trail>> /\ stage = "wait"
    BY DEF FW!Answered
  <1>3. CASE ran[FW!At] = "ok" /\ FW!At # "change"
    <2>1. stage' = "next" /\ step' = step + 1 /\ UNCHANGED <<unreadable, exit>>
      BY <1>3 DEF FW!Answered
    <2> QED
      BY <1>1, <1>2, <1>3, <2>1, TakeKeeps
  <1>4. CASE ran[FW!At] = "ok" /\ FW!At = "change"
    <2>1. stage' = "result" /\ exit' = "ok" /\ UNCHANGED <<step, unreadable>>
      BY <1>4 DEF FW!Answered, FW!Return
    <2> QED
      BY <1>1, <1>2, <1>4, <2>1, TakeKeeps
  <1>5. CASE ran[FW!At] = "Dbus"
    <2>1. \/ /\ stage' = (IF FW!At = "change" THEN "result" ELSE "over") /\ UNCHANGED <<step, unreadable>>
             /\ exit' \in FW!FwErrors
          \/ /\ FW!At \in FW!PermanentReads /\ unreadable' = TRUE /\ stage' = "next"
             /\ step' = FW!AfterReads /\ UNCHANGED exit
      BY <1>5 DEF FW!Answered, FW!Return
    <2>2. "ok" \notin FW!FwErrors
      BY DEF FW!FwErrors
    <2> QED
      BY <1>1, <1>2, <1>5, <2>1, <2>2, TakeKeeps
  <1> QED
    BY <1>1, <1>3, <1>4, <1>5

LEMMA UnansweredKeeps ==
  ASSUME FwInv, FW!Unanswered
  PROVE  FwInv'
  <1>1. /\ stage = "wait" /\ answer[FW!At] = "pending" /\ answer' = [answer EXCEPT ![FW!At] = "failed"]
        /\ UNCHANGED <<ran, FW!escVars, FW!hostVars, req, trail>> /\ UNCHANGED <<step, unreadable>>
        /\ stage' = (IF FW!At = "change" THEN "result" ELSE "over")
        /\ exit' \in {"failed", "AccessDenied", "DependencyMissing"}
    BY DEF FW!Unanswered, FW!Transport!Fail, FW!Return
  <1> QED
    BY <1>1, TakeKeeps DEF FW!FwErrors
-----------------------------------------------------------------------------
(* The escalation. *)

\* The mechanism being tried is one, and so are those after it.
LEMMA RestParts ==
  ASSUME NEW s \in Seq(Mechanisms), s # <<>>
  PROVE  Head(s) \in Mechanisms /\ Tail(s) \in Seq(Mechanisms)
  <1>1. Len(s) \in Nat \ {0}
    BY EmptySeq, LenProperties
  <1> QED
    BY <1>1, HeadTailProperties

\* escalate() sends no call of its caller, and its success is backed by a root peer.
LEMMA FwEscalateParts ==
  ASSUME FW!TypeOK, esc = "starting" => rest # <<>>, FW!Esc!Client
  PROVE  /\ ran' = ran
         /\ FW!Esc!TypeOK'
         /\ UNCHANGED <<forced, advertised>>
         /\ \A k \in Own : answer'[k] = answer[k]
         /\ esc # "escalated"
         /\ esc' = "starting" => rest' # <<>>
         /\ esc' = "escalated" => FW!Esc!RootPeers' # {}
  <1>1. FW!Esc!TypeOK
    BY DEF FW!TypeOK
  <1>2. /\ rest # <<>> => Head(rest) \in Mechanisms /\ Tail(rest) \in Seq(Mechanisms)
        /\ esc = "starting" => rest # <<>>
    BY <1>1, FwTyped, RestParts
  <1>3. FW!Esc!Candidates \in Seq(Mechanisms)
    <2>1. advertised \in Seq(Mechanisms) /\ <<>> \in Seq(Mechanisms)
      BY FwTyped
    <2>2. forced \in Safe => <<forced>> \in Seq(Mechanisms)
      BY FirewallAssumption DEF FW!FirewallParameters
    <2>3. CASE forced = ""
      <3>1. FW!Esc!Candidates = advertised
        BY <2>3, Zenon DEF FW!Esc!Candidates
      <3> QED
        BY <2>1, <3>1
    <2>4. CASE forced # "" /\ (forced \in Safe /\ FW!Esc!Advertised(forced))
      <3>1. FW!Esc!Candidates = <<forced>>
        BY <2>4, Zenon DEF FW!Esc!Candidates
      <3> QED
        BY <2>2, <2>4, <3>1, Zenon
    <2>5. CASE forced # "" /\ ~(forced \in Safe /\ FW!Esc!Advertised(forced))
      <3>1. FW!Esc!Candidates = <<>>
        BY <2>5, Zenon DEF FW!Esc!Candidates
      <3> QED
        BY <2>1, <3>1, Zenon
    <2> QED
      BY <2>3, <2>4, <2>5, Zenon
  <1>4. ASSUME NEW k \in Mechanisms \cup {"Bridges"}, NEW r \in Answers,
               answer' = [answer EXCEPT ![k] = r]
        PROVE  answer' \in [FW!Calls -> Answers] /\ \A j \in Own : answer'[j] = answer[j]
    BY <1>4, FwTyped
  <1>5. /\ ran' = ran
        /\ UNCHANGED <<forced, advertised>>
        /\ rest' \in Seq(Mechanisms)
        /\ esc' \in {"idle", "choosing"} \cup FW!Esc!Waiting \cup FW!Esc!Ended
        /\ esc' = "starting" => rest' # <<>>
        /\ esc' = "escalated" => FW!Esc!RootPeers # {}
        /\ esc # "escalated"
        /\ \/ answer' = answer
           \/ \E k \in Mechanisms \cup {"Bridges"}, r \in Answers : answer' = [answer EXCEPT ![k] = r]
    <2> USE DEF FW!Esc!Waiting, FW!Esc!Ended, Answers, Outcomes
    <2>1. CASE FW!Esc!Escalate
      BY <1>1, <2>1, FwTyped DEF FW!Esc!Escalate, FW!Esc!Ask, FW!Esc!Transport!Send,
                                 FW!Esc!Transport!SendKills
    <2>2. CASE FW!Esc!Listed
      BY <1>1, <1>3, <2>2, FwTyped DEF FW!Esc!Listed, FW!Esc!Transport!Return, FW!Esc!Transport!Performed
    <2>3. CASE FW!Esc!Choose
      BY <1>1, <1>2, <2>3, FwTyped DEF FW!Esc!Choose, FW!Esc!Ask, FW!Esc!Transport!Send,
                                       FW!Esc!Transport!SendKills
    <2>4. CASE FW!Esc!Started
      BY <1>1, <1>2, <2>4, FwTyped DEF FW!Esc!Started, FW!Esc!Transport!Return,
                                       FW!Esc!Transport!Performed, FW!Esc!RootPeers
    <2>5. CASE FW!Esc!Broken
      BY <1>1, <1>2, <2>5, FwTyped DEF FW!Esc!Broken, FW!Esc!Asked, FW!Esc!Transport!Fail
    <2> QED
      BY <2>1, <2>2, <2>3, <2>4, <2>5 DEF FW!Esc!Client
  <1>6. answer' \in [FW!Calls -> Answers] /\ \A j \in Own : answer'[j] = answer[j]
    BY <1>4, <1>5, FwTyped
  <1>7. FW!Esc!Transport!TypeOK'
    BY <1>5, <1>6, FwTyped DEF FW!Esc!Transport!TypeOK, FW!Esc!Transport!Performed, Answers, Outcomes
  <1>8. FW!Esc!TypeOK'
    BY <1>1, <1>5, <1>7 DEF FW!Esc!TypeOK
  <1>9. FW!Esc!RootPeers' = FW!Esc!RootPeers
    BY <1>5 DEF FW!Esc!RootPeers
  <1> QED
    BY <1>5, <1>6, <1>8, <1>9

\* A step in which every call of the command stands still.
LEMMA FwOwnStill ==
  ASSUME FwInv, FW!Esc!TypeOK',
         \A k \in Own : ran'[k] = ran[k] /\ answer'[k] = answer[k],
         UNCHANGED <<FW!hostVars, FW!fezVars>>,
         esc' = "starting" => rest' # <<>>,
         esc = "escalated" => esc' = "escalated",
         esc' = "escalated" => FW!Esc!RootPeers' # {},
         FW!Esc!RootPeers # {} => FW!Esc!RootPeers' # {}
  PROVE  FwInv'
  <1>1. UNCHANGED <<told, runtime, permanent, default, panic, changes, touched, discarded, cut,
                    req, stage, step, unreadable, trail, exit>>
    BY DEF FW!hostVars, FW!fezVars
  <1>2. /\ FW!Script' = FW!Script /\ FW!At' = FW!At /\ FW!AfterReads' = FW!AfterReads
        /\ FW!Risky' = FW!Risky
    BY <1>1 DEF FW!Script, FW!At, FW!AfterReads, FW!Risky, FW!Drift
  <1>3. \A i \in 1..Len(FW!Script) : FW!Script[i] \in Own
    BY ScriptShape
  <1>4. \A k \in Own : Sent(k)' <=> Sent(k)
    BY DEF Sent
  <1>5. FW!TypeOK'
    BY <1>1 DEF FwInv, FW!TypeOK
  <1>6. InOrder'
    <2>1. \A i \in 1..Len(FW!Script) :
            i < step => \/ answer'[FW!Script[i]] = "ok"
                        \/ unreadable /\ FW!Script[i] \in FW!PermanentReads
      BY <1>3 DEF FwInv, InOrder
    <2> QED
      BY <1>1, <1>2, <1>4, <2>1 DEF FwInv, InOrder
  <1>7. Gated' /\ OnRecord'
    BY <1>1, <1>2, <1>4, OwnCalls DEF FwInv, Gated, OnRecord
  <1>8. Accurate'
    BY <1>1, OwnCalls DEF FwInv, Accurate
  <1>9. Applied'
    BY <1>1, OwnCalls DEF FwInv, Applied
  <1>10. FW!SessionKept' /\ FW!ReloadKeeps'
    BY <1>1 DEF FwInv, FW!SessionKept, FW!ReloadKeeps, FW!Missed
  <1> QED
    BY <1>5, <1>6, <1>7, <1>8, <1>9, <1>10 DEF FwInv

LEMMA EscalateKeeps ==
  ASSUME FwInv, FW!Escalate
  PROVE  FwInv'
  <1>1. UNCHANGED <<FW!hostVars, FW!fezVars>> /\ FW!Esc!Client /\ FW!TypeOK /\ (esc = "starting" => rest # <<>>)
    BY DEF FW!Escalate, FwInv, Gated
  <1>2. /\ ran' = ran /\ FW!Esc!TypeOK' /\ esc # "escalated"
        /\ \A k \in Own : answer'[k] = answer[k]
        /\ esc' = "starting" => rest' # <<>>
        /\ esc' = "escalated" => FW!Esc!RootPeers' # {}
    BY <1>1, FwEscalateParts
  <1>3. FW!Esc!RootPeers' = FW!Esc!RootPeers
    BY <1>2 DEF FW!Esc!RootPeers
  <1> QED
    BY <1>1, <1>2, <1>3, FwOwnStill

\* The bridge lists the mechanisms or starts one: nothing that succeeded is undone.
LEMMA SuperuserKeeps ==
  ASSUME FwInv, FW!Superuser
  PROVE  FwInv'
  <1>1. UNCHANGED <<FW!hostVars, FW!fezVars>> /\ UNCHANGED <<forced, advertised, esc, rest, answer>>
    BY DEF FW!Superuser, FW!Esc!Bridge, FW!Esc!escVars, FW!Esc!Transport!Perform
  <1>2. PICK k \in Mechanisms \cup {"Bridges"}, r \in {"ok", "Dbus"} :
          ran[k] = "no" /\ ran' = [ran EXCEPT ![k] = r]
    BY DEF FW!Superuser, FW!Esc!Bridge, FW!Esc!Transport!Perform
  <1>3. FW!TypeOK
    BY DEF FwInv
  <1>4. /\ ran' \in [FW!Calls -> Outcomes]
        /\ \A j \in Own : ran'[j] = ran[j]
        /\ \A j \in FW!Calls : ran[j] # "no" => ran'[j] = ran[j]
    BY <1>2, <1>3, FwTyped DEF Outcomes
  <1>5. FW!Esc!TypeOK'
    BY <1>1, <1>3, <1>4, FwTyped DEF FW!TypeOK, FW!Esc!TypeOK, FW!Esc!Transport!TypeOK,
                                     FW!Esc!Transport!Performed, Outcomes
  <1>6. FW!Esc!RootPeers \subseteq FW!Esc!RootPeers'
    BY <1>3, <1>4, FwTyped DEF FW!Esc!RootPeers
  <1>7. FW!Esc!RootPeers # {} => FW!Esc!RootPeers' # {}
    BY <1>6
  <1> QED
    BY <1>1, <1>4, <1>5, <1>7, FwOwnStill DEF FwInv, Gated
-----------------------------------------------------------------------------
(* Steps of firewalld and of the other programs on the host. *)

\* firewalld performs a call: what fez knows of itself stays as it is.
LEMMA OneOutcome ==
  ASSUME FwInv, NEW k \in Own, NEW r \in {"ok", "Dbus"}, FW!Transport!Perform(k, r),
         UNCHANGED <<FW!escVars, FW!fezVars>>
  PROVE  /\ FW!Esc!TypeOK' /\ InOrder' /\ OnRecord'
         /\ FW!Script' = FW!Script /\ FW!At' = FW!At
         /\ FW!Esc!RootPeers' = FW!Esc!RootPeers
         /\ answer' = answer /\ Sent(k) /\ ran[k] = "no" /\ ran'[k] = r
         /\ \A j \in Own : j # k => ran'[j] = ran[j]
         /\ Sent("change")' <=> Sent("change")
  <1>1. UNCHANGED <<answer, forced, advertised, esc, rest, req, stage, step, unreadable, trail, exit>>
    BY DEF FW!escVars, FW!fezVars, FW!Transport!Perform
  <1>2. answer[k] # "unsent" /\ ran[k] = "no" /\ ran' = [ran EXCEPT ![k] = r]
    BY DEF FW!Transport!Perform
  <1>3. FW!TypeOK
    BY DEF FwInv
  <1>4. /\ ran' \in [FW!Calls -> Outcomes] /\ ran'[k] = r
        /\ \A j \in Own : j # k => ran'[j] = ran[j]
        /\ \A m \in Mechanisms : ran'[m] = ran[m]
    BY <1>2, <1>3, FwTyped DEF Outcomes
  <1>5. FW!Esc!TypeOK'
    BY <1>1, <1>3, <1>4, FwTyped DEF FW!TypeOK, FW!Esc!TypeOK, FW!Esc!Transport!TypeOK,
                                     FW!Esc!Transport!Performed, Outcomes
  <1>6. FW!Esc!RootPeers' = FW!Esc!RootPeers
    BY <1>4 DEF FW!Esc!RootPeers
  <1>7. FW!Script' = FW!Script
    BY <1>1 DEF FW!Script
  <1>8. FW!At' = FW!At /\ FW!AfterReads' = FW!AfterReads
    BY <1>1, <1>7 DEF FW!At, FW!AfterReads
  <1>9. InOrder'
    <2>1. \A j \in Own : answer[j] \in {"ok", "Dbus"} => ran'[j] = answer[j]
      <3>1. \A j \in Own : answer[j] \in {"ok", "Dbus"} => ran[j] = answer[j]
        BY DEF FwInv, InOrder
      <3> QED
        BY <1>2, <1>4, <3>1
    <2>2. \A j \in Own : ran'[j] # "no" => answer[j] # "unsent"
      BY <1>2, <1>4 DEF FwInv, InOrder, Sent
    <2> QED
      BY <1>1, <1>7, <1>8, <2>1, <2>2 DEF FwInv, InOrder, Sent
  <1>10. OnRecord'
    <2>1. ran["change"] = "ok" => ran'["change"] = "ok"
      BY <1>2, <1>4, OwnCalls
    <2> QED
      BY <1>1, <1>8, <2>1 DEF FwInv, OnRecord, Sent
  <1> QED
    BY <1>1, <1>2, <1>4, <1>5, <1>6, <1>7, <1>8, <1>9, <1>10 DEF Sent

\* The gates do not depend on the host.
LEMMA StillGated ==
  ASSUME FwInv, UNCHANGED <<answer, esc, rest, FW!fezVars>>,
         FW!Esc!RootPeers' = FW!Esc!RootPeers,
         stage \in {"attempt", "call"} \/ Sent("change") => (req.force \/ ~FW!Risky')
  PROVE  Gated'
  <1>1. UNCHANGED <<req, stage, step, unreadable, trail, exit>>
    BY DEF FW!fezVars
  <1>2. FW!Script' = FW!Script
    BY <1>1 DEF FW!Script
  <1>3. FW!At' = FW!At
    BY <1>1, <1>2 DEF FW!At
  <1> QED
    BY <1>1, <1>2, <1>3 DEF FwInv, Gated, Sent

LEMMA RefuseKeeps ==
  ASSUME FwInv, NEW k \in Own, FW!Refuse(k)
  PROVE  FwInv'
  <1>1. /\ FW!Transport!Perform(k, "Dbus") /\ UNCHANGED <<FW!escVars, FW!fezVars, FW!hostVars>>
    BY DEF FW!Refuse
  <1>2. UNCHANGED <<esc, rest, req, stage, step, unreadable, trail, exit, told, runtime, permanent,
                    default, panic, changes, touched, discarded, cut>>
    BY <1>1 DEF FW!escVars, FW!fezVars, FW!hostVars
  <1>3. /\ FW!Esc!TypeOK' /\ InOrder' /\ OnRecord' /\ FW!Esc!RootPeers' = FW!Esc!RootPeers
        /\ answer' = answer /\ ran[k] = "no" /\ ran'[k] = "Dbus"
        /\ \A j \in Own : j # k => ran'[j] = ran[j]
    BY <1>1, OneOutcome
  <1>4. \A j \in Own : ran'[j] = "ok" <=> ran[j] = "ok"
    BY <1>3
  <1>5. FW!TypeOK'
    BY <1>2, <1>3 DEF FwInv, FW!TypeOK
  <1>6. FW!Risky' = FW!Risky
    BY <1>2 DEF FW!Risky, FW!Drift
  <1>7. Gated'
    BY <1>1, <1>2, <1>3, <1>6, StillGated DEF FwInv, Gated
  <1>8. Accurate' /\ Applied'
    BY <1>2, <1>4, OwnCalls DEF FwInv, Accurate, Applied
  <1>9. FW!SessionKept' /\ FW!ReloadKeeps'
    BY <1>2 DEF FwInv, FW!SessionKept, FW!ReloadKeeps, FW!Missed
  <1> QED
    BY <1>3, <1>5, <1>7, <1>8, <1>9 DEF FwInv

\* By the time fez is at the change, what it asked before has been answered.
LEMMA ReadsOver ==
  ASSUME FW!TypeOK, InOrder, step <= Len(FW!Script), FW!At = "change",
         NEW k \in FW!FwReads, Sent(k)
  PROVE  ran[k] = "ok" \/ (unreadable /\ k \in FW!PermanentReads)
  <1>1. k \in Own /\ k # "change"
    BY OwnCalls
  <1>2. PICK i \in 1..Len(FW!Script) : i <= step /\ k = FW!Script[i]
    BY <1>1 DEF InOrder
  <1>3. step \in 1..10 /\ FW!At = FW!Script[step]
    BY FwTyped DEF FW!At
  <1>4. i < step
    BY <1>1, <1>2, <1>3
  <1> QED
    BY <1>1, <1>2, <1>4 DEF InOrder

LEMMA ReadOk ==
  ASSUME FwInv, NEW k \in Own, ran[k] # "no"
  PROVE  Sent(k)
  BY DEF FwInv, InOrder

LEMMA TellKeeps ==
  ASSUME FwInv, NEW k \in FW!FwReads, FW!Tell(k)
  PROVE  FwInv'
  <1>1. FW!Transport!Perform(k, "ok") /\ UNCHANGED <<FW!escVars, FW!fezVars>> /\ k \in Own /\ k # "change"
    BY OwnCalls DEF FW!Tell
  <1>2. UNCHANGED <<esc, rest, req, stage, step, unreadable, trail, exit, runtime, permanent,
                    default, panic, changes, touched, discarded, cut>>
    BY DEF FW!Tell, FW!escVars, FW!fezVars
  <1>3. /\ FW!Esc!TypeOK' /\ InOrder' /\ OnRecord' /\ FW!Esc!RootPeers' = FW!Esc!RootPeers
        /\ answer' = answer /\ Sent(k) /\ ran[k] = "no" /\ ran'[k] = "ok"
        /\ \A j \in Own : j # k => ran'[j] = ran[j]
    BY <1>1, OneOutcome
  <1>4. FW!TypeOK /\ InOrder /\ Accurate
    BY DEF FwInv
  <1> PICK odd \in SUBSET FW!Held(k) :
         told' = [told EXCEPT
           !.zone = IF k = "getDefaultZone" THEN default ELSE @,
           !.runtime = IF k \in FW!RuntimeReads THEN @ \cup (FW!Held(k) \ odd) ELSE @,
           !.permanent = IF k \in FW!PermanentReads THEN @ \cup (FW!Held(k) \ odd) ELSE @,
           !.dropped = @ \cup odd]
    BY DEF FW!Tell
  <1>5. /\ told' \in [zone : Zones \cup {"none"}, runtime : SUBSET FW!Compared,
                     permanent : SUBSET FW!Compared, dropped : SUBSET FW!Compared]
        /\ told'.zone = IF k = "getDefaultZone" THEN default ELSE told.zone
        /\ told'.runtime = IF k \in FW!RuntimeReads
                           THEN told.runtime \cup (FW!Held(k) \ odd) ELSE told.runtime
        /\ told'.permanent = IF k \in FW!PermanentReads
                             THEN told.permanent \cup (FW!Held(k) \ odd) ELSE told.permanent
        /\ told'.dropped = told.dropped \cup odd
    <2>1. told \in [zone : Zones \cup {"none"}, runtime : SUBSET FW!Compared,
                   permanent : SUBSET FW!Compared, dropped : SUBSET FW!Compared]
      BY <1>4 DEF FW!TypeOK
    <2>2. FW!Held(k) \subseteq FW!Compared /\ default \in Zones
      BY <1>4, Parts DEF FW!TypeOK, FW!Held
    <2> QED
      BY <2>1, <2>2
  <1>12. /\ k \in FW!RuntimeReads => FW!Held(k) = runtime[told.zone] \cap FW!Part(k)
         /\ k \in FW!PermanentReads => FW!Held(k) = permanent[told.zone] \cap FW!Part(k)
    BY DEF FW!Held, FW!RuntimeReads, FW!PermanentReads
  <1>6. FW!TypeOK'
    BY <1>2, <1>3, <1>5 DEF FwInv, FW!TypeOK
  <1>7. ASSUME stage \in {"attempt", "call"} \/ Sent("change")
        PROVE  unreadable /\ k \in FW!PermanentReads /\ req.op = "reload" /\ req.force
    <2>1. step <= Len(FW!Script) /\ FW!At = "change"
      <3>1. CASE stage \in {"attempt", "call"}
        BY <3>1 DEF FwInv, Gated
      <3>2. CASE Sent("change")
        BY <1>4, <3>2, CallsBehind, ScriptShape
      <3> QED
        BY <1>7, <3>1, <3>2
    <2>2. unreadable /\ k \in FW!PermanentReads
      BY <1>3, <1>4, <2>1, ReadsOver
    <2>3. req.op = "reload" /\ (req.force \/ ~FW!Risky)
      BY <1>4, <1>7, <2>2 DEF FwInv, Gated, InOrder
    <2> QED
      BY <2>2, <2>3 DEF FwInv, FW!Risky, FW!TypeOK, FW!Request
  <1>8. Gated'
    BY <1>1, <1>2, <1>3, <1>7, StillGated
  <1>9. Accurate'
    <2>1. told'.zone \in Zones <=> ran'["getDefaultZone"] = "ok"
      BY <1>1, <1>3, <1>4, <1>5, OwnCalls DEF Accurate, FW!TypeOK
    <2>2. \A j \in FW!RuntimeReads \cup FW!PermanentReads :
            ran'[j] = "ok" => k # "getDefaultZone" /\ told'.zone = told.zone
      <3> SUFFICES ASSUME NEW j \in FW!RuntimeReads \cup FW!PermanentReads, ran'[j] = "ok"
                   PROVE  k # "getDefaultZone"
        BY <1>5
      <3>1. Sent(j)
        BY <1>3, ReadOk, OwnCalls
      <3> QED
        BY <1>3, <1>4, <3>1, CallsBehind
    <2>3. ASSUME NEW j \in FW!RuntimeReads, NEW i \in FW!Part(j)
          PROVE  /\ i \in told'.runtime => ran'[j] = "ok"
                 /\ ran'[j] = "ok" /\ ran'["change"] # "ok" =>
                      (i \in told'.runtime <=> i \in runtime[told'.zone])
                        \/ <<told'.zone, i>> \in touched \/ i \in told'.dropped
      <3>1. j = k \/ i \notin FW!Part(k) \/ k \notin FW!RuntimeReads
        BY Parts
      <3>2. /\ i \in told.runtime => ran[j] = "ok"
            /\ ran[j] = "ok" /\ ran["change"] # "ok" =>
                 (i \in told.runtime <=> i \in runtime[told.zone])
                   \/ <<told.zone, i>> \in touched \/ i \in told.dropped
        BY <1>4 DEF Accurate
      <3>3. CASE j = k
        BY <1>3, <1>5, <1>12, <2>2, <2>3, <3>2, <3>3
      <3>4. CASE j # k
        <4>1. ran'[j] = ran[j] /\ ran'["change"] = ran["change"]
          BY <1>1, <1>3, <3>4, OwnCalls
        <4>2. i \in told'.runtime <=> i \in told.runtime
          BY <1>5, <1>12, <3>1, <3>4
        <4> QED
          BY <2>2, <2>3, <3>2, <4>1, <4>2
      <3> QED
        BY <3>3, <3>4
    <2>4. ASSUME NEW j \in FW!PermanentReads, NEW i \in FW!Part(j)
          PROVE  /\ i \in told'.permanent => ran'[j] = "ok"
                 /\ ran'[j] = "ok" /\ ran'["change"] # "ok" =>
                      (i \in told'.permanent <=> i \in permanent[told'.zone])
                        \/ <<told'.zone, i>> \in touched \/ i \in told'.dropped
      <3>1. j = k \/ i \notin FW!Part(k) \/ k \notin FW!PermanentReads
        BY Parts
      <3>2. /\ i \in told.permanent => ran[j] = "ok"
            /\ ran[j] = "ok" /\ ran["change"] # "ok" =>
                 (i \in told.permanent <=> i \in permanent[told.zone])
                   \/ <<told.zone, i>> \in touched \/ i \in told.dropped
        BY <1>4 DEF Accurate
      <3>3. CASE j = k
        BY <1>3, <1>5, <1>12, <2>2, <2>4, <3>2, <3>3
      <3>4. CASE j # k
        <4>1. ran'[j] = ran[j] /\ ran'["change"] = ran["change"]
          BY <1>1, <1>3, <3>4, OwnCalls
        <4>2. i \in told'.permanent <=> i \in told.permanent
          BY <1>5, <1>12, <3>1, <3>4
        <4> QED
          BY <2>2, <2>4, <3>2, <4>1, <4>2
      <3> QED
        BY <3>3, <3>4
    <2> QED
      BY <1>2, <2>1, <2>3, <2>4 DEF Accurate
  <1>10. Applied'
    BY <1>1, <1>2, <1>3, OwnCalls DEF FwInv, Applied
  <1>11. FW!SessionKept' /\ FW!ReloadKeeps'
    <2>1. cut # "none" \/ discarded # {} => Sent("change")
      BY ReadOk, OwnCalls DEF FwInv, Applied
    <2>2. CASE Sent("change")
      BY <1>2, <1>7, <2>2 DEF FwInv, FW!SessionKept, FW!ReloadKeeps, FW!Missed
    <2>3. CASE ~Sent("change")
      BY <1>2, <2>1, <2>3 DEF FW!SessionKept, FW!ReloadKeeps, FW!Missed
    <2> QED
      BY <2>2, <2>3
  <1> QED
    BY <1>3, <1>6, <1>8, <1>9, <1>10, <1>11 DEF FwInv

\* A comparison without a difference is right, but for what was touched since or dropped
\* from a reply.
LEMMA DriftKnown ==
  ASSUME FwInv, ran["change"] # "ok", FW!Drift = {},
         \A k \in FW!RuntimeReads \cup FW!PermanentReads : ran[k] = "ok",
         NEW i \in FW!Compared, (i \in runtime[told.zone]) # (i \in permanent[told.zone])
  PROVE  <<told.zone, i>> \in touched \/ i \in told.dropped
  <1>1. PICK k \in FW!RuntimeReads : i \in FW!Part(k)
    BY Parts
  <1>2. PICK j \in FW!PermanentReads : i \in FW!Part(j)
    BY Parts
  <1>3. \/ i \in told.runtime <=> i \in runtime[told.zone]
        \/ <<told.zone, i>> \in touched \/ i \in told.dropped
    BY <1>1 DEF FwInv, Accurate
  <1>4. \/ i \in told.permanent <=> i \in permanent[told.zone]
        \/ <<told.zone, i>> \in touched \/ i \in told.dropped
    BY <1>2 DEF FwInv, Accurate
  <1>5. i \in told.runtime <=> i \in told.permanent
    BY DEF FW!Drift
  <1> QED
    BY <1>3, <1>4, <1>5

\* What Apply does to the configurations.
LEMMA ApplyParts ==
  ASSUME FW!Apply
  PROVE  /\ FW!Transport!Perform("change", "ok") /\ UNCHANGED <<FW!escVars, FW!fezVars>>
         /\ UNCHANGED <<told, changes, touched>>
         /\ req.op = "add" => runtime' = [runtime EXCEPT ![FW!Zone] = @ \cup {req.item}]
         /\ req.op = "remove" => runtime' = [runtime EXCEPT ![FW!Zone] = @ \ {req.item}]
         /\ req.op = "reload" => runtime' = permanent
         /\ req.op \notin {"add", "remove", "reload"} => runtime' = runtime
         /\ permanent' = IF req.op = "confirm" THEN runtime ELSE permanent
         /\ default' = IF req.op = "set-default" THEN req.zone ELSE default
  <1>1. /\ FW!Transport!Perform("change", "ok") /\ UNCHANGED <<FW!escVars, FW!fezVars>>
        /\ UNCHANGED <<told, changes, touched>>
    BY Zenon DEF FW!Apply
  <1>2. runtime' = CASE req.op = "add"    -> [runtime EXCEPT ![FW!Zone] = @ \cup {req.item}]
                     [] req.op = "remove" -> [runtime EXCEPT ![FW!Zone] = @ \ {req.item}]
                     [] req.op = "reload" -> permanent
                     [] OTHER             -> runtime
    BY Zenon DEF FW!Apply
  <1>3. /\ permanent' = IF req.op = "confirm" THEN runtime ELSE permanent
        /\ default' = IF req.op = "set-default" THEN req.zone ELSE default
    BY Zenon DEF FW!Apply
  <1>4. /\ req.op = "add" => runtime' = [runtime EXCEPT ![FW!Zone] = @ \cup {req.item}]
        /\ req.op = "remove" => runtime' = [runtime EXCEPT ![FW!Zone] = @ \ {req.item}]
        /\ req.op = "reload" => runtime' = permanent
        /\ req.op \notin {"add", "remove", "reload"} => runtime' = runtime
    BY <1>2
  <1> QED
    BY <1>1, <1>3, <1>4, Zenon

\* What it does to panic mode, which is Boolean.
LEMMA ApplyPanic ==
  ASSUME FW!Apply, panic \in BOOLEAN
  PROVE  panic' \in BOOLEAN /\ (req.op # "panic on" /\ panic = FALSE => panic' = FALSE)
  <1>1. panic' = CASE req.op = "panic on"  -> TRUE
                   [] req.op = "panic off" -> FALSE
                   [] OTHER                -> panic
    BY Zenon DEF FW!Apply
  <1>2. /\ req.op = "panic on" => panic' = TRUE
        /\ req.op = "panic off" /\ req.op # "panic on" => panic' = FALSE
        /\ req.op # "panic on" /\ req.op # "panic off" => panic' = panic
    BY <1>1, Zenon
  <1> QED
    BY <1>2, Zenon

\* What it discards, and when it cuts off the session.
LEMMA ApplyLoses ==
  ASSUME FW!Apply
  PROVE  /\ discarded' = IF req.op = "reload"
                         THEN {p \in Zones \X FW!Items :
                                 (p[2] \in runtime[p[1]]) # (p[2] \in permanent[p[1]])}
                         ELSE discarded
         /\ \/ /\ FW!Reachable(runtime, default, panic) /\ ~FW!Reachable(runtime', default', panic')
               /\ cut' = FW!HomeZone(default)
            \/ cut' = cut
  <1>1. discarded' = IF req.op = "reload"
                     THEN {p \in Zones \X FW!Items : (p[2] \in runtime[p[1]]) # (p[2] \in permanent[p[1]])}
                     ELSE discarded
    BY Zenon DEF FW!Apply
  <1>2. cut' = IF FW!Reachable(runtime, default, panic) /\ ~FW!Reachable(runtime', default', panic')
               THEN FW!HomeZone(default) ELSE cut
    BY Zenon DEF FW!Apply
  <1>3. \/ /\ FW!Reachable(runtime, default, panic) /\ ~FW!Reachable(runtime', default', panic')
           /\ cut' = FW!HomeZone(default)
        \/ cut' = cut
    BY <1>2, Zenon
  <1> QED
    BY <1>1, <1>3, Zenon

\* What Apply does without --force.
LEMMA ApplyKnown ==
  ASSUME FwInv, FW!Apply, ~req.force
  PROVE  /\ ~FW!Risky /\ ~unreadable
         /\ ran["change"] = "no" /\ cut = "none" /\ discarded = {}
         /\ req.op = "reload" =>
              \A i \in FW!Compared :
                (i \in runtime[told.zone]) # (i \in permanent[told.zone]) =>
                  <<told.zone, i>> \in touched \/ i \in told.dropped
  <1>1. ran["change"] = "no" /\ Sent("change")
    BY ApplyParts DEF FW!Transport!Perform, Sent
  <1>2. ~FW!Risky /\ req.op # "status"
    BY <1>1 DEF FwInv, Gated
  <1>3. ~unreadable
    <2>1. unreadable => req.op = "reload"
      BY <1>2 DEF FwInv, InOrder
    <2> QED
      BY <1>2, <2>1, Zenon DEF FW!Risky
  <1>4. cut = "none" /\ discarded = {}
    BY <1>1 DEF FwInv, Applied
  <1>5. ASSUME req.op = "reload"
        PROVE  FW!Drift = {} /\ \A k \in FW!RuntimeReads \cup FW!PermanentReads : ran[k] = "ok"
    <2>1. Comparing /\ FW!Drift = {}
      BY <1>2, <1>5 DEF Comparing, FW!Risky
    <2>2. step <= Len(FW!Script) /\ FW!At = "change"
      BY <1>1, CallsBehind, ScriptShape DEF FwInv
    <2> QED
      BY <1>3, <2>1, <2>2, CallsBehind DEF FwInv, Before
  <1> QED
    BY <1>1, <1>2, <1>3, <1>4, <1>5, DriftKnown

LEMMA ApplyKeeps ==
  ASSUME FwInv, FW!Apply
  PROVE  FwInv'
  <1>1. /\ FW!Transport!Perform("change", "ok") /\ UNCHANGED <<FW!escVars, FW!fezVars>>
        /\ UNCHANGED <<told, changes, touched>>
    BY ApplyParts
  <1>2. UNCHANGED <<esc, rest, req, stage, step, unreadable, trail, exit>>
    BY <1>1 DEF FW!escVars, FW!fezVars
  <1>3. /\ FW!Esc!TypeOK' /\ InOrder' /\ OnRecord' /\ FW!Esc!RootPeers' = FW!Esc!RootPeers
        /\ answer' = answer /\ Sent("change") /\ ran["change"] = "no" /\ ran'["change"] = "ok"
        /\ \A j \in Own : j # "change" => ran'[j] = ran[j]
    BY <1>1, OneOutcome, OwnCalls
  <1>4. /\ FW!TypeOK /\ req \in FW!Request /\ default \in Zones /\ panic \in BOOLEAN
        /\ runtime \in [Zones -> SUBSET FW!Items] /\ permanent \in [Zones -> SUBSET FW!Items]
    BY DEF FwInv, FW!TypeOK
  <1>5. /\ req.op \in FW!Zoned => req.item \in FW!Compared
        /\ req.op = "set-default" => req.zone \in Zones
        /\ req.home \in Zones \cup {"default"}
        /\ req.op \in FW!Ops
    BY <1>4 DEF FW!Request
  <1>6. /\ req.op = "add" => runtime' = [runtime EXCEPT ![FW!Zone] = @ \cup {req.item}]
        /\ req.op = "remove" => runtime' = [runtime EXCEPT ![FW!Zone] = @ \ {req.item}]
        /\ req.op = "reload" => runtime' = permanent
        /\ req.op \notin {"add", "remove", "reload"} => runtime' = runtime
        /\ permanent' = IF req.op = "confirm" THEN runtime ELSE permanent
        /\ default' = IF req.op = "set-default" THEN req.zone ELSE default
    BY ApplyParts
  <1>7. FW!HomeZone(default) \in Zones
    BY <1>4, <1>5 DEF FW!HomeZone
  <1>8. FW!TypeOK'
    <2>1. runtime' \in [Zones -> SUBSET FW!Items]
      <3>1. CASE req.op = "add"
        <4>1. runtime' = [runtime EXCEPT ![FW!Zone] = @ \cup {req.item}] /\ req.item \in FW!Items
          BY <1>5, <1>6, <3>1 DEF FW!Zoned, FW!Items
        <4> QED
          BY <1>4, <4>1
      <3>2. CASE req.op = "remove"
        <4>1. runtime' = [runtime EXCEPT ![FW!Zone] = @ \ {req.item}]
          BY <1>6, <3>2
        <4> QED
          BY <1>4, <4>1
      <3>3. CASE req.op \notin {"add", "remove"}
        BY <1>4, <1>6, <3>3
      <3> QED
        BY <3>1, <3>2, <3>3
    <2>2. permanent' \in [Zones -> SUBSET FW!Items] /\ default' \in Zones
      BY <1>4, <1>5, <1>6
    <2>3. panic' \in BOOLEAN
      BY <1>4, ApplyPanic, Zenon
    <2>4. discarded' \subseteq Zones \X FW!Items
      <3>1. \/ discarded' = discarded
            \/ discarded' =
                 {p \in Zones \X FW!Items : (p[2] \in runtime[p[1]]) # (p[2] \in permanent[p[1]])}
        BY ApplyLoses, Zenon
      <3> QED
        BY <1>4, <3>1 DEF FW!TypeOK
    <2>5. cut' \in Zones \cup {"none"}
      <3>1. cut' = cut \/ cut' = FW!HomeZone(default)
        BY ApplyLoses, Zenon
      <3> QED
        BY <1>4, <1>7, <3>1 DEF FW!TypeOK
    <2> QED
      BY <1>1, <1>2, <1>3, <2>1, <2>2, <2>3, <2>4, <2>5 DEF FwInv, FW!TypeOK
  <1>9. FW!Risky' = FW!Risky
    BY <1>1, <1>2 DEF FW!Risky, FW!Drift
  <1>10. Gated'
    BY <1>1, <1>2, <1>3, <1>9, StillGated DEF FwInv, Gated
  <1>11. Accurate'
    BY <1>1, <1>3, OwnCalls DEF FwInv, Accurate
  <1>12. Applied'
    <2>1. req.op = "reload" => runtime' = permanent'
      BY <1>6
    <2> QED
      BY <1>2, <1>3, <2>1 DEF Applied
  <1>13. FW!SessionKept'
    <2> SUFFICES ASSUME cut' # "none", ~req.force
                 PROVE  /\ req.op = "reload"
                        /\ cut' # told.zone \/ <<cut', Carrier>> \in touched \/ Carrier \in told.dropped
      BY <1>1, <1>2 DEF FW!SessionKept, FW!Missed
    <2> DEFINE h == FW!HomeZone(default)
    <2>1. /\ ~FW!Risky /\ cut = "none"
          /\ req.op = "reload" =>
               \A i \in FW!Compared :
                 (i \in runtime[told.zone]) # (i \in permanent[told.zone]) =>
                  <<told.zone, i>> \in touched \/ i \in told.dropped
      BY ApplyKnown
    <2>2. /\ cut' = h /\ h \in Zones
          /\ ~panic /\ Carrier \in runtime[h]
          /\ panic' \/ Carrier \notin runtime'[FW!HomeZone(default')]
      <3>1. /\ FW!Reachable(runtime, default, panic) /\ ~FW!Reachable(runtime', default', panic')
            /\ cut' = h
        BY <2>1, ApplyLoses, Zenon
      <3> QED
        BY <1>2, <1>7, <3>1 DEF FW!Reachable, FW!HomeZone
    <2>3. req.op \notin {"set-default", "panic on"} /\ (req.op = "remove" => req.item \notin SessionItems)
      <3>1. req.op \notin {"set-default", "panic on"}
        BY <2>1, Zenon DEF FW!Risky
      <3>2. req.op = "remove" => req.item \notin SessionItems
        BY <2>1, Zenon DEF FW!Risky
      <3> QED
        BY <3>1, <3>2, Zenon
    <2>4. default' = default /\ panic' = FALSE /\ FW!HomeZone(default') = h
      <3>1. default' = default
        BY <1>6, <2>3, Zenon
      <3>2. panic' = FALSE
        <4>1. panic = FALSE /\ req.op # "panic on"
          BY <1>4, <2>2, <2>3, Zenon
        <4> QED
          BY <1>4, <4>1, ApplyPanic, Zenon
      <3> QED
        BY <1>2, <3>1, <3>2 DEF FW!HomeZone
    <2> HIDE DEF h
    <2>5. Carrier \notin runtime'[h]
      BY <2>2, <2>4
    <2>6. req.op \notin {"add", "remove"}
      <3>1. ASSUME req.op = "add"
            PROVE  FALSE
        <4>1. runtime' = [runtime EXCEPT ![FW!Zone] = @ \cup {req.item}]
          BY <1>6, <3>1
        <4> QED
          BY <1>4, <2>2, <2>5, <4>1
      <3>2. ASSUME req.op = "remove"
            PROVE  FALSE
        <4>1. runtime' = [runtime EXCEPT ![FW!Zone] = @ \ {req.item}] /\ Carrier # req.item
          BY <1>6, <2>3, <3>2, FirewallAssumption DEF FW!FirewallParameters
        <4> QED
          BY <1>4, <2>2, <2>5, <4>1
      <3> QED
        BY <3>1, <3>2
    <2>7. req.op = "reload" /\ Carrier \notin permanent[h]
      BY <1>6, <2>2, <2>5, <2>6
    <2>8. Carrier \in FW!Compared
      BY FirewallAssumption DEF FW!FirewallParameters, FW!Compared
    <2> QED
      BY <2>1, <2>2, <2>7, <2>8
  <1>14. FW!ReloadKeeps'
    <2> SUFFICES ASSUME ~req.force
                 PROVE  /\ ~unreadable
                        /\ \A p \in discarded' : p[1] = told.zone /\ p[2] \in FW!Compared =>
                             p \in touched \/ p[2] \in told.dropped
      BY <1>1, <1>2 DEF FW!ReloadKeeps, FW!Missed
    <2>1. /\ ~unreadable /\ discarded = {}
          /\ req.op = "reload" =>
               \A i \in FW!Compared :
                 (i \in runtime[told.zone]) # (i \in permanent[told.zone]) =>
                  <<told.zone, i>> \in touched \/ i \in told.dropped
      BY ApplyKnown
    <2>2. ASSUME NEW p \in discarded', p[1] = told.zone, p[2] \in FW!Compared
          PROVE  p \in touched \/ p[2] \in told.dropped
      <3>1. /\ req.op = "reload" /\ p \in Zones \X FW!Items
            /\ (p[2] \in runtime[p[1]]) # (p[2] \in permanent[p[1]])
        <4>1. req.op = "reload"
          BY <2>1, <2>2, ApplyLoses, Zenon
        <4>2. p \in {c \in Zones \X FW!Items : (c[2] \in runtime[c[1]]) # (c[2] \in permanent[c[1]])}
          BY <2>2, <4>1, ApplyLoses, Zenon
        <4> QED
          BY <4>1, <4>2
      <3>2. p = <<p[1], p[2]>>
        BY <3>1
      <3> QED
        BY <2>1, <2>2, <3>1, <3>2
    <2> QED
      BY <2>1, <2>2
  <1> QED
    BY <1>3, <1>8, <1>10, <1>11, <1>12, <1>13, <1>14 DEF FwInv

LEMMA InterfereKeeps ==
  ASSUME FwInv, NEW z \in Zones, NEW i \in FW!Items, FW!Interfere(z, i)
  PROVE  FwInv'
  <1>1. /\ UNCHANGED <<ran, answer, forced, advertised, esc, rest, req, stage, step, unreadable, trail, exit,
                       told, default, panic, discarded, cut>>
        /\ ran["change"] = "no" /\ changes < MaxChanges /\ changes' = changes + 1
    BY DEF FW!Interfere, FW!callVars, FW!escVars, FW!fezVars
  <1>2. /\ FW!TypeOK /\ InOrder /\ Accurate
        /\ runtime \in [Zones -> SUBSET FW!Items] /\ permanent \in [Zones -> SUBSET FW!Items]
        /\ touched \subseteq Zones \X FW!Items
    BY DEF FwInv, FW!TypeOK
  <1>3. cut = "none" /\ discarded = {}
    BY <1>1 DEF FwInv, Applied
  <1>4. touched \subseteq touched' /\ touched' \subseteq touched \cup {<<z, i>>}
    BY DEF FW!Interfere
  <1>5. FW!Seen(z, i) => <<z, i>> \in touched'
    BY DEF FW!Interfere
  <1>6. /\ runtime' \in [Zones -> SUBSET FW!Items] /\ permanent' \in [Zones -> SUBSET FW!Items]
        /\ \A y \in Zones : \A j : y # z \/ j # i => (j \in runtime'[y] <=> j \in runtime[y])
        /\ \A y \in Zones : \A j : y # z \/ j # i => (j \in permanent'[y] <=> j \in permanent[y])
    <2>1. CASE /\ runtime' = [runtime EXCEPT ![z] = IF i \in @ THEN @ \ {i} ELSE @ \cup {i}]
               /\ permanent' = permanent
      BY <1>2, <2>1
    <2>2. CASE /\ permanent' = [permanent EXCEPT ![z] = IF i \in @ THEN @ \ {i} ELSE @ \cup {i}]
               /\ runtime' = runtime
      BY <1>2, <2>2
    <2> QED
      BY <2>1, <2>2 DEF FW!Interfere
  <1>7. FW!TypeOK'
    <2>1. FW!Esc!TypeOK'
      BY <1>1, <1>2 DEF FW!TypeOK, FW!Esc!TypeOK, FW!Esc!Transport!TypeOK
    <2>2. changes' \in 0..MaxChanges
      BY <1>1, <1>2, FirewallAssumption DEF FW!TypeOK, FW!FirewallParameters
    <2>3. touched' \subseteq Zones \X FW!Items
      BY <1>2, <1>4
    <2> QED
      BY <1>1, <1>2, <1>6, <2>1, <2>2, <2>3 DEF FW!TypeOK
  <1>8. FW!Script' = FW!Script
    BY <1>1 DEF FW!Script
  <1>9. /\ FW!At' = FW!At /\ FW!AfterReads' = FW!AfterReads /\ FW!Risky' = FW!Risky
        /\ FW!Esc!RootPeers' = FW!Esc!RootPeers
    BY <1>1, <1>8 DEF FW!At, FW!AfterReads, FW!Risky, FW!Drift, FW!Esc!RootPeers
  <1>10. InOrder' /\ OnRecord'
    BY <1>1, <1>8, <1>9 DEF FwInv, InOrder, OnRecord, Sent
  <1>11. Gated'
    BY <1>1, <1>9, StillGated DEF FwInv, Gated, FW!fezVars
  <1>12. ASSUME NEW k \in FW!RuntimeReads, NEW j \in FW!Part(k), ran[k] = "ok"
         PROVE  /\ told.zone \in Zones
                /\ \/ told.zone # z \/ j # i
                   \/ <<told.zone, j>> \in touched' \/ j \in told.dropped
    <2>1. Sent(k)
      BY <1>12, ReadOk, OwnCalls
    <2>2. told.zone \in Zones
      BY <1>2, <2>1, CallsBehind DEF Accurate
    <2>3. told.zone = z /\ j = i => FW!Seen(z, i)
      BY <1>12 DEF FW!Seen
    <2> QED
      BY <1>5, <2>2, <2>3
  <1>13. Accurate'
    <2>1. ASSUME NEW k \in FW!RuntimeReads, NEW j \in FW!Part(k)
          PROVE  /\ j \in told.runtime => ran[k] = "ok"
                 /\ ran[k] = "ok" =>
                      (j \in told.runtime <=> j \in runtime'[told.zone])
                        \/ <<told.zone, j>> \in touched' \/ j \in told.dropped
      <3>1. /\ j \in told.runtime => ran[k] = "ok"
            /\ ran[k] = "ok" =>
                 (j \in told.runtime <=> j \in runtime[told.zone])
                   \/ <<told.zone, j>> \in touched \/ j \in told.dropped
        BY <1>1, <1>2 DEF Accurate
      <3> QED
        BY <1>4, <1>6, <1>12, <2>1, <3>1
    <2>2. ASSUME NEW k \in FW!PermanentReads, NEW j \in FW!Part(k)
          PROVE  /\ j \in told.permanent => ran[k] = "ok"
                 /\ ran[k] = "ok" =>
                      (j \in told.permanent <=> j \in permanent'[told.zone])
                        \/ <<told.zone, j>> \in touched' \/ j \in told.dropped
      <3>1. /\ j \in told.permanent => ran[k] = "ok"
            /\ ran[k] = "ok" =>
                 (j \in told.permanent <=> j \in permanent[told.zone])
                   \/ <<told.zone, j>> \in touched \/ j \in told.dropped
        BY <1>1, <1>2 DEF Accurate
      <3>2. PICK r \in FW!RuntimeReads : j \in FW!Part(r)
        BY <2>2, Parts
      <3>3. ran[k] = "ok" => ran[r] = "ok"
        BY <1>2, ReadOk, CallsBehind, OwnCalls
      <3>4. ran[k] = "ok" =>
              told.zone \in Zones /\ (told.zone # z \/ j # i \/ <<told.zone, j>> \in touched' \/ j \in told.dropped)
        BY <1>12, <3>2, <3>3
      <3> QED
        BY <1>4, <1>6, <3>1, <3>4
    <2> QED
      BY <1>1, <1>2, <2>1, <2>2 DEF Accurate
  <1>14. Applied' /\ FW!SessionKept' /\ FW!ReloadKeeps'
    BY <1>1, <1>3 DEF Applied, FW!SessionKept, FW!ReloadKeeps, FW!Missed
  <1> QED
    BY <1>7, <1>10, <1>11, <1>13, <1>14 DEF FwInv

LEMMA ChangeDefaultKeeps ==
  ASSUME FwInv, FW!ChangeDefault
  PROVE  FwInv'
  <1>1. /\ UNCHANGED <<ran, answer, forced, advertised, esc, rest, req, stage, step, unreadable, trail, exit,
                       told, runtime, permanent, panic, touched, discarded, cut>>
        /\ changes < MaxChanges /\ changes' = changes + 1 /\ default' \in Zones
    BY DEF FW!ChangeDefault, FW!callVars, FW!escVars, FW!fezVars
  <1>2. FW!TypeOK'
    <2>1. FW!Esc!TypeOK'
      BY <1>1 DEF FwInv, FW!TypeOK, FW!Esc!TypeOK, FW!Esc!Transport!TypeOK
    <2>2. changes' \in 0..MaxChanges
      BY <1>1, FirewallAssumption DEF FwInv, FW!TypeOK, FW!FirewallParameters
    <2> QED
      BY <1>1, <2>1, <2>2 DEF FwInv, FW!TypeOK
  <1>3. FW!Script' = FW!Script
    BY <1>1 DEF FW!Script
  <1>4. /\ FW!At' = FW!At /\ FW!AfterReads' = FW!AfterReads /\ FW!Risky' = FW!Risky
        /\ FW!Esc!RootPeers' = FW!Esc!RootPeers
    BY <1>1, <1>3 DEF FW!At, FW!AfterReads, FW!Risky, FW!Drift, FW!Esc!RootPeers
  <1>5. InOrder' /\ OnRecord'
    BY <1>1, <1>3, <1>4 DEF FwInv, InOrder, OnRecord, Sent
  <1>6. Gated'
    BY <1>1, <1>4, StillGated DEF FwInv, Gated, FW!fezVars
  <1>7. Accurate' /\ Applied'
    BY <1>1 DEF FwInv, Accurate, Applied
  <1>8. FW!SessionKept' /\ FW!ReloadKeeps'
    BY <1>1 DEF FwInv, FW!SessionKept, FW!ReloadKeeps, FW!Missed
  <1> QED
    BY <1>2, <1>5, <1>6, <1>7, <1>8 DEF FwInv
-----------------------------------------------------------------------------
(* The firewall commands keep their invariant. *)

LEMMA FwStep ==
  ASSUME area = "firewall", FwInv, [Next]_vars
  PROVE  FwInv' /\ area' = "firewall"
  <1>1. CASE Client
    <2>1. FW!Client /\ area' = area
      BY <1>1 DEF Client
    <2>2. CASE FW!Connect
      BY <2>1, <2>2, ConnectKeeps
    <2>3. CASE FW!Escalate
      BY <2>1, <2>3, EscalateKeeps
    <2>4. CASE FW!Escalated
      BY <2>1, <2>4, EscalatedKeeps
    <2>5. CASE FW!Validate
      BY <2>1, <2>5, ValidateKeeps
    <2>6. CASE FW!Raise
      BY <2>1, <2>6, RaiseKeeps
    <2>7. CASE FW!Ask
      BY <2>1, <2>7, AskKeeps
    <2>8. CASE FW!Guard
      BY <2>1, <2>8, GuardKeeps
    <2>9. CASE FW!Attempt
      BY <2>1, <2>9, AttemptKeeps
    <2>10. CASE FW!Call
      BY <2>1, <2>10, CallKeeps
    <2>11. CASE FW!Answered
      BY <2>1, <2>11, AnsweredKeeps
    <2>12. CASE FW!Unanswered
      BY <2>1, <2>12, UnansweredKeeps
    <2>13. CASE FW!Result
      BY <2>1, <2>13, ResultKeeps
    <2>14. CASE FW!Show
      BY <2>1, <2>14, ShowKeeps
    <2> QED
      BY <2>1, <2>2, <2>3, <2>4, <2>5, <2>6, <2>7, <2>8, <2>9, <2>10, <2>11, <2>12, <2>13, <2>14
         DEF FW!Client
  <1>2. CASE Environment
    <2>1. (FW!Superuser \/ FW!Firewalld) /\ area' = area
      BY <1>2 DEF Environment
    <2>2. CASE FW!Superuser
      BY <2>1, <2>2, SuperuserKeeps
    <2>3. CASE FW!Firewalld
      <3>1. CASE \E k \in FW!FwCalls : FW!Refuse(k)
        BY <2>1, <3>1, RefuseKeeps DEF Own
      <3>2. CASE \E k \in FW!FwReads : FW!Tell(k)
        BY <2>1, <3>2, TellKeeps
      <3>3. CASE FW!Apply
        BY <2>1, <3>3, ApplyKeeps
      <3>4. CASE \E z \in Zones, i \in FW!Items : FW!Interfere(z, i)
        BY <2>1, <3>4, InterfereKeeps
      <3>5. CASE FW!ChangeDefault
        BY <2>1, <3>5, ChangeDefaultKeeps
      <3> QED
        BY <2>3, <3>1, <3>2, <3>3, <3>4, <3>5 DEF FW!Firewalld
    <2> QED
      BY <2>1, <2>2, <2>3
  <1>3. CASE UNCHANGED vars
    <2>1. UNCHANGED <<area, stage, exit, changeVars, firewallVars>>
      BY <1>3 DEF vars
    <2>2. UNCHANGED <<FW!hostVars, FW!fezVars>> /\ UNCHANGED <<ran, answer, forced, advertised, esc, rest>>
      BY <2>1 DEF changeVars, firewallVars, FW!hostVars, FW!fezVars
    <2>3. FW!Esc!RootPeers' = FW!Esc!RootPeers
      BY <2>2 DEF FW!Esc!RootPeers
    <2>4. FW!Esc!TypeOK'
      BY <2>2 DEF FwInv, FW!TypeOK, FW!Esc!TypeOK, FW!Esc!Transport!TypeOK
    <2> QED
      BY <2>1, <2>2, <2>3, <2>4, FwOwnStill DEF FwInv, Gated
  <1> QED
    BY <1>1, <1>2, <1>3 DEF Next, Over
-----------------------------------------------------------------------------
(* The changes made by one call: power actions and the DNS flush. *)

\* A power action that is on its way has passed all gates, and the records are those of
\* the stage.
HcGated ==
  /\ Sent("change") => stage \in {"wait", "result", "over"}
  /\ stage \notin {"connect", "over"} /\ req.op \in HC!Power => req.force
  /\ stage \in {"escalate", "attempt", "call", "wait", "result"} \/ Sent("change") =>
       (req.op \in HC!Power => req.force /\ able /\ answer["CanX"] = "ok")
  /\ stage \in {"attempt", "call", "wait", "result"} \/ Sent("change") =>
       (req.op \in HC!Power => HC!Esc!RootPeers # {})
  /\ stage \in {"ask", "asked", "escalate"} => req.op \in HC!Power
  /\ esc = "starting" => rest # <<>>
  /\ esc = "escalated" => HC!Esc!RootPeers # {}

HcOnRecord ==
  /\ stage \in {"connect", "ask", "asked", "escalate", "attempt"} => trail = <<>>
  /\ stage \in {"call", "wait", "result"} => trail = <<"attempt">>
  /\ Sent("change") => trail # <<>>
  /\ ran["change"] # "no" => Sent("change")
  /\ stage \notin {"result", "over"} => exit = "none"
  /\ stage = "result" /\ exit = "ok" => ran["change"] = "ok"

HcInv == HC!TypeOK /\ HcGated /\ HcOnRecord

LEMMA HcTyped ==
  ASSUME HC!TypeOK
  PROVE  /\ ran \in [HC!Calls -> Outcomes]
         /\ answer \in [HC!Calls -> Answers]
         /\ rest \in Seq(Mechanisms)
         /\ advertised \in Seq(Mechanisms)
         /\ Mechanisms \subseteq HC!Calls
         /\ "Bridges" \in HC!Calls /\ "CanX" \in HC!Calls /\ "change" \in HC!Calls
         /\ "change" \notin Mechanisms \cup {"Bridges"}
         /\ "Bridges" \notin Mechanisms
  <1>1. HC!Esc!TypeOK
    BY DEF HC!TypeOK
  <1>2. HC!Esc!Transport!TypeOK /\ rest \in Seq(Mechanisms) /\ advertised \in Lists
    BY <1>1 DEF HC!Esc!TypeOK
  <1>3. "change" \notin Mechanisms \cup {"Bridges"}
    BY FirewallAssumption DEF FW!FirewallParameters, FW!FwCalls
  <1> QED
    BY <1>1, <1>2, <1>3, FirewallAssumption
       DEF FW!FirewallParameters, HC!Calls, Outcomes, Answers, HC!Esc!Transport!TypeOK,
           HC!Esc!Transport!Performed

LEMMA HcInit ==
  ASSUME Init, area = "host"
  PROVE  HcInv
  <1>1. HC!Init
    BY DEF Init
  <1>2. HC!Esc!Init /\ HC!Esc!Transport!Init
    BY <1>1 DEF HC!Init, HC!Esc!Init
  <1>3. HC!Esc!TypeOK
    <2>1. HC!Esc!Transport!TypeOK
      BY <1>2 DEF HC!Esc!Transport!Init, HC!Esc!Transport!TypeOK, HC!Esc!Transport!Performed
    <2> QED
      BY <1>2, <2>1 DEF HC!Esc!Init, HC!Esc!TypeOK
  <1>4. HC!TypeOK
    BY <1>1, <1>3 DEF HC!Init, HC!TypeOK, HC!Stages, HC!Exits
  <1>5. ~Sent("change") /\ ran["change"] = "no"
    BY <1>2 DEF HC!Esc!Transport!Init, HC!Calls, Sent
  <1>6. stage = "connect" /\ trail = <<>> /\ exit = "none" /\ esc = "idle" /\ rest = <<>>
    BY <1>1, <1>2 DEF HC!Init, HC!Esc!Init
  <1> QED
    BY <1>4, <1>5, <1>6 DEF HcInv, HcGated, HcOnRecord

\* As FwEscalateParts, for the calls of this part.
LEMMA HcEscalateParts ==
  ASSUME HC!TypeOK, esc = "starting" => rest # <<>>, HC!Esc!Client
  PROVE  /\ ran' = ran
         /\ HC!Esc!TypeOK'
         /\ answer'["change"] = answer["change"]
         /\ answer["CanX"] = "ok" => answer'["CanX"] = "ok"
         /\ esc # "escalated"
         /\ esc' = "starting" => rest' # <<>>
         /\ esc' = "escalated" => HC!Esc!RootPeers' # {}
  <1>1. HC!Esc!TypeOK
    BY DEF HC!TypeOK
  <1>2. /\ rest # <<>> => Head(rest) \in Mechanisms /\ Tail(rest) \in Seq(Mechanisms)
        /\ esc = "starting" => rest # <<>>
    BY <1>1, HcTyped, RestParts
  <1>3. HC!Esc!Candidates \in Seq(Mechanisms)
    <2>1. advertised \in Seq(Mechanisms) /\ <<>> \in Seq(Mechanisms)
      BY HcTyped
    <2>2. forced \in Safe => <<forced>> \in Seq(Mechanisms)
      BY FirewallAssumption DEF FW!FirewallParameters
    <2>3. CASE forced = ""
      <3>1. HC!Esc!Candidates = advertised
        BY <2>3, Zenon DEF HC!Esc!Candidates
      <3> QED
        BY <2>1, <3>1
    <2>4. CASE forced # "" /\ (forced \in Safe /\ HC!Esc!Advertised(forced))
      <3>1. HC!Esc!Candidates = <<forced>>
        BY <2>4, Zenon DEF HC!Esc!Candidates
      <3> QED
        BY <2>2, <2>4, <3>1, Zenon
    <2>5. CASE forced # "" /\ ~(forced \in Safe /\ HC!Esc!Advertised(forced))
      <3>1. HC!Esc!Candidates = <<>>
        BY <2>5, Zenon DEF HC!Esc!Candidates
      <3> QED
        BY <2>1, <3>1, Zenon
    <2> QED
      BY <2>3, <2>4, <2>5, Zenon
  <1>4. ASSUME NEW k \in Mechanisms \cup {"Bridges"}, answer[k] # "ok", NEW r \in Answers,
               answer' = [answer EXCEPT ![k] = r]
        PROVE  /\ answer' \in [HC!Calls -> Answers] /\ answer'["change"] = answer["change"]
               /\ answer["CanX"] = "ok" => answer'["CanX"] = "ok"
    BY <1>4, HcTyped
  <1>5. /\ ran' = ran
        /\ UNCHANGED <<forced, advertised>>
        /\ rest' \in Seq(Mechanisms)
        /\ esc' \in {"idle", "choosing"} \cup HC!Esc!Waiting \cup HC!Esc!Ended
        /\ esc' = "starting" => rest' # <<>>
        /\ esc' = "escalated" => HC!Esc!RootPeers # {}
        /\ esc # "escalated"
        /\ \/ answer' = answer
           \/ \E k \in Mechanisms \cup {"Bridges"}, r \in Answers :
                answer[k] # "ok" /\ answer' = [answer EXCEPT ![k] = r]
    <2> USE DEF HC!Esc!Waiting, HC!Esc!Ended, Answers, Outcomes
    <2>1. CASE HC!Esc!Escalate
      BY <1>1, <2>1, HcTyped DEF HC!Esc!Escalate, HC!Esc!Ask, HC!Esc!Transport!Send,
                                 HC!Esc!Transport!SendKills
    <2>2. CASE HC!Esc!Listed
      BY <1>1, <1>3, <2>2, HcTyped DEF HC!Esc!Listed, HC!Esc!Transport!Return, HC!Esc!Transport!Performed
    <2>3. CASE HC!Esc!Choose
      BY <1>1, <1>2, <2>3, HcTyped DEF HC!Esc!Choose, HC!Esc!Ask, HC!Esc!Transport!Send,
                                       HC!Esc!Transport!SendKills
    <2>4. CASE HC!Esc!Started
      BY <1>1, <1>2, <2>4, HcTyped DEF HC!Esc!Started, HC!Esc!Transport!Return,
                                       HC!Esc!Transport!Performed, HC!Esc!RootPeers
    <2>5. CASE HC!Esc!Broken
      BY <1>1, <1>2, <2>5, HcTyped DEF HC!Esc!Broken, HC!Esc!Asked, HC!Esc!Transport!Fail
    <2> QED
      BY <2>1, <2>2, <2>3, <2>4, <2>5 DEF HC!Esc!Client
  <1>6. /\ answer' \in [HC!Calls -> Answers] /\ answer'["change"] = answer["change"]
        /\ answer["CanX"] = "ok" => answer'["CanX"] = "ok"
    BY <1>4, <1>5, HcTyped
  <1>7. HC!Esc!Transport!TypeOK'
    BY <1>5, <1>6, HcTyped DEF HC!Esc!Transport!TypeOK, HC!Esc!Transport!Performed, Answers, Outcomes
  <1>8. HC!Esc!TypeOK'
    BY <1>1, <1>5, <1>7 DEF HC!Esc!TypeOK
  <1>9. HC!Esc!RootPeers' = HC!Esc!RootPeers
    BY <1>5 DEF HC!Esc!RootPeers
  <1> QED
    BY <1>5, <1>6, <1>8, <1>9

\* A step that touches neither a call nor the escalation.
LEMMA HcQuiet ==
  ASSUME HcInv, UNCHANGED <<HC!callVars, HC!escVars, able, req>>,
         stage' \in HC!Stages, exit' \in HC!Exits, trail' \in Seq({"attempt", "ok", "error"})
  PROVE  HC!TypeOK' /\ HC!Esc!RootPeers' = HC!Esc!RootPeers /\ UNCHANGED <<ran, answer, esc, rest, req, able>>
  <1>1. UNCHANGED <<ran, answer, forced, advertised, esc, rest, able, req>>
    BY DEF HC!callVars, HC!escVars
  <1>2. HC!Esc!TypeOK'
    BY <1>1 DEF HcInv, HC!TypeOK, HC!Esc!TypeOK, HC!Esc!Transport!TypeOK
  <1> QED
    BY <1>1, <1>2 DEF HcInv, HC!TypeOK, HC!Esc!RootPeers

\* The steps of fez between its calls.
LEMMA HcPlainKeeps ==
  ASSUME HcInv, HC!Connect \/ HC!Escalated \/ HC!Attempt \/ HC!Result
  PROVE  HcInv'
  <1>1. UNCHANGED <<HC!callVars, HC!escVars, able, req>>
    BY DEF HC!Connect, HC!Escalated, HC!Attempt, HC!Result
  <1>2. /\ req.op \in HC!Ops /\ trail \in Seq({"attempt", "ok", "error"}) /\ exit \in HC!Exits
        /\ <<>> \in Seq({"attempt", "ok", "error"})
    BY DEF HcInv, HC!TypeOK, HC!Request
  <1>3. /\ Append(<<>>, "attempt") = <<"attempt">>
        /\ \A x : Append(<<"attempt">>, x) # <<>>
        /\ <<"attempt">> # <<>>
    OBVIOUS
  <1>4. CASE HC!Connect
    <2>1. /\ stage = "connect" /\ trail' = trail
          /\ \/ stage' = "over" /\ exit' \in {"failed", "killed", "Protected"}
             \/ stage' = "ask" /\ exit' = exit /\ req.op \in HC!Power /\ req.force
             \/ stage' = "attempt" /\ exit' = exit /\ req.op = "flush"
      BY <1>4 DEF HC!Connect, HC!End
    <2>2. stage' \in HC!Stages /\ exit' \in HC!Exits
      BY <1>2, <2>1 DEF HC!Stages, HC!Exits
    <2>3. HC!TypeOK' /\ HC!Esc!RootPeers' = HC!Esc!RootPeers /\ UNCHANGED <<ran, answer, esc, rest, req, able>>
      BY <1>1, <1>2, <2>1, <2>2, HcQuiet
    <2> QED
      BY <2>1, <2>3 DEF HcInv, HcGated, HcOnRecord, Sent, HC!Power
  <1>5. CASE HC!Escalated
    <2>1. /\ stage = "escalate" /\ trail' = trail
          /\ \/ stage' = "over" /\ exit' \in {"failed", "killed", "AccessDenied", "Dbus"}
             \/ stage' = "attempt" /\ exit' = exit /\ esc = "escalated"
      BY <1>5 DEF HC!Escalated, HC!End
    <2>2. stage' \in HC!Stages /\ exit' \in HC!Exits
      BY <1>2, <2>1 DEF HC!Stages, HC!Exits
    <2>3. HC!TypeOK' /\ HC!Esc!RootPeers' = HC!Esc!RootPeers /\ UNCHANGED <<ran, answer, esc, rest, req, able>>
      BY <1>1, <1>2, <2>1, <2>2, HcQuiet
    <2> QED
      BY <2>1, <2>3 DEF HcInv, HcGated, HcOnRecord, Sent
  <1>6. CASE HC!Attempt
    <2>1. stage = "attempt" /\ stage' = "call" /\ exit' = exit /\ trail' = <<"attempt">>
      BY <1>3, <1>6 DEF HC!Attempt, HcInv, HcOnRecord
    <2>2. stage' \in HC!Stages /\ trail' \in Seq({"attempt", "ok", "error"})
      BY <2>1 DEF HC!Stages
    <2>3. HC!TypeOK' /\ HC!Esc!RootPeers' = HC!Esc!RootPeers /\ UNCHANGED <<ran, answer, esc, rest, req, able>>
      BY <1>1, <1>2, <2>1, <2>2, HcQuiet
    <2> QED
      BY <2>1, <2>3 DEF HcInv, HcGated, HcOnRecord, Sent
  <1>7. CASE HC!Result
    <2>1. /\ stage = "result" /\ stage' = "over" /\ exit' = exit
          /\ trail' = Append(<<"attempt">>, IF exit = "ok" THEN "ok" ELSE "error")
      BY <1>7 DEF HC!Result, HcInv, HcOnRecord
    <2>2. stage' \in HC!Stages /\ trail' \in Seq({"attempt", "ok", "error"}) /\ trail' # <<>>
      BY <2>1 DEF HC!Stages
    <2>3. HC!TypeOK' /\ HC!Esc!RootPeers' = HC!Esc!RootPeers /\ UNCHANGED <<ran, answer, esc, rest, req, able>>
      BY <1>1, <1>2, <2>1, <2>2, HcQuiet
    <2> QED
      BY <2>1, <2>2, <2>3 DEF HcInv, HcGated, HcOnRecord, Sent
  <1> QED
    BY <1>4, <1>5, <1>6, <1>7

\* A step of fez that changes the answer of one call alone.
LEMMA HcOneAnswer ==
  ASSUME HcInv, NEW k \in {"CanX", "change"}, NEW r \in Answers,
         answer' = [answer EXCEPT ![k] = r], ran' = ran,
         UNCHANGED <<HC!escVars, able, req, trail>>,
         stage' \in HC!Stages, exit' \in HC!Exits
  PROVE  /\ HC!TypeOK' /\ HC!Esc!RootPeers' = HC!Esc!RootPeers
         /\ answer'[k] = r
         /\ k # "change" => answer'["change"] = answer["change"]
         /\ k # "CanX" => answer'["CanX"] = answer["CanX"]
         /\ UNCHANGED <<esc, rest>>
  <1>1. UNCHANGED <<ran, forced, advertised, esc, rest, able, req, trail>>
    BY DEF HC!escVars
  <1>2. HC!TypeOK
    BY DEF HcInv
  <1>3. /\ answer' \in [HC!Calls -> Answers] /\ answer'[k] = r
        /\ k # "change" => answer'["change"] = answer["change"]
        /\ k # "CanX" => answer'["CanX"] = answer["CanX"]
    BY <1>2, HcTyped
  <1>4. HC!Esc!TypeOK'
    BY <1>1, <1>2, <1>3 DEF HC!TypeOK, HC!Esc!TypeOK, HC!Esc!Transport!TypeOK, Answers,
                            HC!Esc!Transport!Performed
  <1> QED
    BY <1>1, <1>2, <1>3, <1>4 DEF HC!TypeOK, HC!Esc!RootPeers

LEMMA HcCallsKeep ==
  ASSUME HcInv, HC!Ask \/ HC!Asked \/ HC!Call \/ HC!Answered
  PROVE  HcInv'
  <1>1. HC!TypeOK /\ exit \in HC!Exits /\ stage \in HC!Stages /\ ran["change"] \in Outcomes
    BY HcTyped DEF HcInv, HC!TypeOK
  <1>2. CASE HC!Ask
    <2>1. PICK r \in {"pending", "killed"} :
            /\ stage = "ask" /\ answer' = [answer EXCEPT !["CanX"] = r] /\ ran' = ran
            /\ UNCHANGED <<HC!escVars, able, req, trail>>
            /\ \/ stage' = "asked" /\ exit' = exit
               \/ stage' = "over" /\ exit' = "killed"
      BY <1>2 DEF HC!Ask, HC!Send, HC!End, HC!Transport!Send, HC!Transport!SendKills
    <2>2. stage' \in HC!Stages /\ exit' \in HC!Exits
      BY <1>1, <2>1 DEF HC!Stages, HC!Exits
    <2>3. /\ HC!TypeOK' /\ HC!Esc!RootPeers' = HC!Esc!RootPeers
          /\ answer'["change"] = answer["change"] /\ UNCHANGED <<esc, rest>>
      BY <2>1, <2>2, HcOneAnswer DEF Answers
    <2> QED
      BY <2>1, <2>3 DEF HcInv, HcGated, HcOnRecord, Sent
  <1>3. CASE HC!Asked
    <2>1. PICK r \in {"ok", "Dbus", "failed"} :
            /\ stage = "asked" /\ answer' = [answer EXCEPT !["CanX"] = r] /\ ran' = ran
            /\ UNCHANGED <<HC!escVars, able, req, trail>>
            /\ \/ stage' = "over" /\ exit' \in {"Dbus", "DependencyMissing", "failed"}
               \/ stage' = "escalate" /\ exit' = exit /\ able /\ r = "ok"
      BY <1>3, Zenon DEF HC!Asked, HC!End, HC!Transport!Return, HC!Transport!Fail, HC!Transport!Performed
    <2>2. stage' \in HC!Stages /\ exit' \in HC!Exits
      BY <1>1, <2>1 DEF HC!Stages, HC!Exits
    <2>3. /\ HC!TypeOK' /\ HC!Esc!RootPeers' = HC!Esc!RootPeers
          /\ answer'["CanX"] = r /\ answer'["change"] = answer["change"] /\ UNCHANGED <<esc, rest>>
      BY <2>1, <2>2, HcOneAnswer DEF Answers
    <2> QED
      BY <2>1, <2>3 DEF HcInv, HcGated, HcOnRecord, Sent
  <1>4. CASE HC!Call
    <2>1. PICK r \in {"pending", "killed"} :
            /\ stage = "call" /\ answer' = [answer EXCEPT !["change"] = r] /\ ran' = ran
            /\ UNCHANGED <<HC!escVars, able, req, trail>>
            /\ \/ stage' = "wait" /\ exit' = exit
               \/ stage' = "over" /\ exit' = "killed"
      BY <1>4 DEF HC!Call, HC!Send, HC!End, HC!Transport!Send, HC!Transport!SendKills
    <2>2. stage' \in HC!Stages /\ exit' \in HC!Exits
      BY <1>1, <2>1 DEF HC!Stages, HC!Exits
    <2>3. /\ HC!TypeOK' /\ HC!Esc!RootPeers' = HC!Esc!RootPeers
          /\ answer'["change"] = r /\ answer'["CanX"] = answer["CanX"] /\ UNCHANGED <<esc, rest>>
      BY <2>1, <2>2, HcOneAnswer DEF Answers
    <2>4. <<"attempt">> # <<>>
      OBVIOUS
    <2> QED
      BY <2>1, <2>3, <2>4 DEF HcInv, HcGated, HcOnRecord, Sent
  <1>5. CASE HC!Answered
    <2>1. /\ answer["change"] = "pending" /\ ran' = ran /\ stage = "wait" /\ stage' = "result"
          /\ UNCHANGED <<HC!escVars, able, req, trail>>
      BY <1>5 DEF HC!Answered, HC!Transport!Return, HC!Transport!Fail
    <2>2. PICK r \in {"ok", "Dbus", "failed"} :
            /\ answer' = [answer EXCEPT !["change"] = r]
            /\ exit' \in {"ok", "Dbus", "DependencyMissing", "failed", "AccessDenied"}
            /\ exit' = "ok" => ran["change"] = "ok"
      BY <1>5 DEF HC!Answered, HC!Transport!Return, HC!Transport!Fail, HC!Transport!Performed
    <2>3. stage' \in HC!Stages /\ exit' \in HC!Exits
      BY <2>1, <2>2 DEF HC!Stages, HC!Exits
    <2>4. /\ HC!TypeOK' /\ HC!Esc!RootPeers' = HC!Esc!RootPeers
          /\ answer'["change"] = r /\ answer'["CanX"] = answer["CanX"] /\ UNCHANGED <<esc, rest>>
      BY <2>1, <2>2, <2>3, HcOneAnswer DEF Answers
    <2> QED
      BY <2>1, <2>2, <2>4 DEF HcInv, HcGated, HcOnRecord, Sent
  <1> QED
    BY <1>2, <1>3, <1>4, <1>5

LEMMA HcEscalateKeeps ==
  ASSUME HcInv, HC!Escalate
  PROVE  HcInv'
  <1>1. /\ UNCHANGED <<req, stage, trail, exit, able>> /\ stage = "escalate"
        /\ HC!TypeOK /\ HC!Esc!Client /\ (esc = "starting" => rest # <<>>)
    BY DEF HC!Escalate, HC!fezVars, HcInv, HcGated
  <1>2. /\ ran' = ran /\ HC!Esc!TypeOK'
        /\ answer'["change"] = answer["change"]
        /\ answer["CanX"] = "ok" => answer'["CanX"] = "ok"
        /\ esc' = "starting" => rest' # <<>>
        /\ esc' = "escalated" => HC!Esc!RootPeers' # {}
    BY <1>1, HcEscalateParts
  <1>3. HC!Esc!RootPeers' = HC!Esc!RootPeers
    BY <1>2 DEF HC!Esc!RootPeers
  <1>4. HC!TypeOK'
    BY <1>1, <1>2 DEF HC!TypeOK
  <1> QED
    BY <1>1, <1>2, <1>3, <1>4 DEF HcInv, HcGated, HcOnRecord, Sent

\* The bridge or the service performs a call: nothing that succeeded is undone.
LEMMA HcPerformKeeps ==
  ASSUME HcInv, HC!Superuser \/ HC!Service
  PROVE  HcInv'
  <1>1. UNCHANGED <<answer, forced, advertised, esc, rest, req, stage, trail, exit, able>>
    BY DEF HC!Superuser, HC!Service, HC!fezVars, HC!escVars, HC!Transport!Perform,
           HC!Esc!Bridge, HC!Esc!escVars, HC!Esc!Transport!Perform
  <1>2. HC!TypeOK
    BY DEF HcInv
  <1>3. PICK k \in HC!Calls, r \in {"ok", "Dbus"} :
          answer[k] # "unsent" /\ ran[k] = "no" /\ ran' = [ran EXCEPT ![k] = r]
    BY <1>2, HcTyped DEF HC!Superuser, HC!Service, HC!Transport!Perform, HC!Esc!Bridge,
                         HC!Esc!Transport!Perform
  <1>4. /\ ran' \in [HC!Calls -> Outcomes]
        /\ \A j \in HC!Calls : j = k \/ ran'[j] = ran[j]
        /\ \A j \in HC!Calls : ran[j] # "no" => ran'[j] = ran[j]
    BY <1>2, <1>3, HcTyped DEF Outcomes
  <1>5. HC!TypeOK'
    <2>1. HC!Esc!TypeOK'
      BY <1>1, <1>2, <1>4 DEF HC!TypeOK, HC!Esc!TypeOK, HC!Esc!Transport!TypeOK,
                              HC!Esc!Transport!Performed, Outcomes
    <2> QED
      BY <1>1, <1>2, <2>1 DEF HC!TypeOK
  <1>6. HC!Esc!RootPeers \subseteq HC!Esc!RootPeers'
    BY <1>2, <1>4, HcTyped DEF HC!Esc!RootPeers
  <1>7. /\ HC!Esc!RootPeers # {} => HC!Esc!RootPeers' # {}
        /\ ran'["change"] # "no" => Sent("change")
        /\ ran["change"] = "ok" => ran'["change"] = "ok"
    BY <1>2, <1>3, <1>4, <1>6, HcTyped DEF HcInv, HcOnRecord, Sent
  <1> QED
    BY <1>1, <1>5, <1>7 DEF HcInv, HcGated, HcOnRecord, Sent

LEMMA HcStep ==
  ASSUME area = "host", HcInv, [Next]_vars
  PROVE  HcInv' /\ area' = "host"
  <1>1. CASE Client
    <2>1. HC!Client /\ area' = area
      BY <1>1 DEF Client
    <2> QED
      BY <2>1, HcPlainKeeps, HcCallsKeep, HcEscalateKeeps DEF HC!Client
  <1>2. CASE Environment
    <2>1. (HC!Superuser \/ HC!Service) /\ area' = area
      BY <1>2 DEF Environment
    <2> QED
      BY <2>1, HcPerformKeeps
  <1>3. CASE UNCHANGED vars
    <2>1. UNCHANGED <<area, stage, exit, ran, answer, forced, advertised, esc, rest, req, trail, able>>
      BY <1>3 DEF vars, changeVars
    <2>2. HC!TypeOK'
      BY <2>1 DEF HcInv, HC!TypeOK, HC!Esc!TypeOK, HC!Esc!Transport!TypeOK
    <2>3. HC!Esc!RootPeers' = HC!Esc!RootPeers
      BY <2>1 DEF HC!Esc!RootPeers
    <2> QED
      BY <2>1, <2>2, <2>3 DEF HcInv, HcGated, HcOnRecord, Sent
  <1> QED
    BY <1>1, <1>2, <1>3 DEF Next, Over
-----------------------------------------------------------------------------
(* All commands. *)

\* What holds of the command that runs; a read leaves the variables of a change alone.
ChangeInv ==
  /\ area \in {"firewall", "host", "reads"}
  /\ area = "firewall" => FwInv
  /\ area = "host" => HcInv
  /\ area = "reads" => NoChange

LEMMA ChangeInit == Init => ChangeInv
  BY FwInit, HcInit, AreasAssumption DEF Init, ChangeInv

\* A step of a read.
LEMMA ReadStep ==
  ASSUME area = "reads", [Next]_vars
  PROVE  UNCHANGED <<area, changeVars>>
  BY DEF Next, Client, Environment, Over, vars

LEMMA ChangeStep == ChangeInv /\ [Next]_vars => ChangeInv'
  <1> SUFFICES ASSUME ChangeInv, [Next]_vars PROVE ChangeInv'
    OBVIOUS
  <1>1. CASE area = "firewall"
    BY <1>1, FwStep DEF ChangeInv
  <1>2. CASE area = "host"
    BY <1>2, HcStep DEF ChangeInv
  <1>3. CASE area = "reads"
    <2>1. UNCHANGED <<area, ran, answer, forced, advertised, esc, rest, req, trail>>
      BY <1>3, ReadStep DEF changeVars
    <2> QED
      BY <1>3, <2>1 DEF ChangeInv, NoChange
  <1> QED
    BY <1>1, <1>2, <1>3 DEF ChangeInv

\* The invariant the theorems follow from.
THEOREM Invariance == Spec => []ChangeInv
  BY ChangeInit, ChangeStep, PTL DEF Spec

\* When the last read is answered, all are, and fez has not made a change but a reload.
LEMMA AllRead ==
  ASSUME FwInv, answer[Last] = "ok", ~unreadable
  PROVE  /\ \A k \in FW!RuntimeReads \cup FW!PermanentReads : ran[k] = "ok"
         /\ ran["change"] = "ok" => runtime = permanent
  <1>1. Sent(Last) /\ FW!TypeOK /\ InOrder
    BY DEF Sent, FwInv
  <1>2. \A k \in FW!RuntimeReads \cup FW!PermanentReads : ran[k] = "ok"
    BY <1>1, CallsBehind, OwnCalls
  <1>3. ASSUME ran["change"] = "ok"
        PROVE  runtime = permanent
    <2>1. Sent("change") /\ Comparing
      BY <1>1, <1>3, ReadOk, CallsBehind, OwnCalls
    <2>2. req.op = "reload"
      BY <2>1 DEF FwInv, Gated, Comparing
    <2> QED
      BY <1>3, <2>2 DEF FwInv, Applied
  <1> QED
    BY <1>2, <1>3

LEMMA FwDriftSeen ==
  ASSUME FwInv
  PROVE  FW!DriftSeen
  <1> SUFFICES ASSUME answer[Last] = "ok", ~unreadable, FW!Drift = {}
               PROVE  \A i \in FW!Compared :
                        (i \in runtime[told.zone]) # (i \in permanent[told.zone]) =>
                  <<told.zone, i>> \in touched \/ i \in told.dropped
    <2>1. ASSUME NEW i, <<told.zone, i>> \in touched \/ i \in told.dropped
          PROVE  FW!Missed(<<told.zone, i>>)
      BY <2>1 DEF FW!Missed
    <2> QED
      BY <2>1, Zenon DEF FW!DriftSeen, Last
  <1>1. CASE ran["change"] = "ok"
    BY <1>1, AllRead, Zenon
  <1>2. CASE ran["change"] # "ok"
    BY <1>2, AllRead, DriftKnown, Zenon
  <1> QED
    BY <1>1, <1>2

\* A comparison of firewalld's two configurations that shows no drift is right, although
\* it is made of several calls, but for what others changed after fez had read it and what
\* it could not read.
THEOREM DriftIsSeen == Spec => []DriftSeen
  <1>1. ChangeInv => DriftSeen
    BY FwDriftSeen DEF ChangeInv, DriftSeen
  <1> QED
    BY <1>1, Invariance, PTL

\* Without --force a firewall command does not cut off the session fez runs in, but for a
\* reload of rules it does not compare or that were changed under its hands.
THEOREM SessionStays == Spec => []SessionKept
  <1>1. ChangeInv => SessionKept
    BY DEF ChangeInv, FwInv, SessionKept
  <1> QED
    BY <1>1, Invariance, PTL

\* Without --force `firewall reload` discards no work that fez could have known of, and
\* none at all when the permanent configuration could not be read.
THEOREM ReloadsKeep == Spec => []ReloadKeeps
  <1>1. ChangeInv => ReloadKeeps
    BY DEF ChangeInv, FwInv, ReloadKeeps
  <1> QED
    BY <1>1, Invariance, PTL

\* The firewall, the power state and the DNS cache are changed only on record, behind the
\* guards, and with a root peer where one is needed.
THEOREM RefusalsAreFinal == Spec => []RefusalIsFinal
  <1>1. ChangeInv => RefusalIsFinal
    <2>1. ASSUME area = "firewall", FwInv
          PROVE  FW!RefusalIsFinal
      BY <2>1 DEF FwInv, Gated, OnRecord, Sent, FW!RefusalIsFinal
    <2>2. ASSUME area = "host", HcInv
          PROVE  HC!RefusalIsFinal
      BY <2>2 DEF HcInv, HcGated, HcOnRecord, Sent, HC!RefusalIsFinal
    <2> QED
      BY <2>1, <2>2 DEF ChangeInv, RefusalIsFinal
  <1> QED
    BY <1>1, Invariance, PTL
-----------------------------------------------------------------------------
(* The audit trail. *)

\* A step that makes no change and writes no record is none of the audit's.
LEMMA AuditStutters ==
  ASSUME UNCHANGED <<area, req, trail>>, ran'["change"] = "ok" <=> ran["change"] = "ok"
  PROVE  UNCHANGED Audit!vars
  <1>1. Goal' = Goal
    BY DEF Goal
  <1> QED
    BY <1>1 DEF Audit!vars

LEMMA AuditAttempts ==
  ASSUME UNCHANGED <<area, req, ran>>, trail = <<>>, trail' = Append(trail, "attempt")
  PROVE  Audit!Next
  <1>1. Goal' = Goal /\ Append(<<>>, "attempt") = <<"attempt">>
    BY DEF Goal
  <1> QED
    BY <1>1 DEF Audit!Next, Audit!Attempt

LEMMA AuditRecords ==
  ASSUME UNCHANGED <<area, req, ran>>, trail = <<"attempt">>,
         NEW r \in {"ok", "error"}, trail' = Append(trail, r), r = "ok" => ran["change"] = "ok"
  PROVE  Audit!Next
  <1>1. Goal' = Goal /\ Len(trail) = 1
    BY DEF Goal
  <1>2. r = "ok" => Goal \subseteq (IF Goal # {} /\ ran["change"] = "ok" THEN {"change"} ELSE {})
    BY DEF Goal
  <1>3. Audit!Record(r)
    BY <1>1, <1>2 DEF Audit!Record
  <1> QED
    BY <1>3 DEF Audit!Next

LEMMA AuditDoes ==
  ASSUME UNCHANGED <<area, req, trail>>, trail # <<>>, Goal = {"change"},
         ran["change"] = "no", ran'["change"] = "ok"
  PROVE  Audit!Next
  <1>1. Goal' = Goal
    BY DEF Goal
  <1>2. Audit!Do("change")
    BY <1>1 DEF Audit!Do
  <1> QED
    BY <1>2 DEF Audit!Next

LEMMA FwAudits ==
  ASSUME area = "firewall", FwInv, [Next]_vars
  PROVE  [Audit!Next]_(Audit!vars)
  <1>1. FW!TypeOK /\ "change" \in Own /\ "change" \in FW!Calls /\ "change" \notin Mechanisms \cup {"Bridges"}
    BY FwTyped, OwnCalls DEF FwInv
  <1>2. area' = area
    BY FwStep
  <1>3. CASE FW!Attempt
    <2>1. UNCHANGED <<ran, req>> /\ trail = <<>> /\ trail' = Append(trail, "attempt")
      BY <1>3 DEF FW!Attempt, FW!callVars, FwInv, OnRecord
    <2> QED
      BY <1>2, <2>1, AuditAttempts
  <1>4. CASE FW!Result
    <2>1. /\ UNCHANGED <<ran, req>> /\ trail = <<"attempt">>
          /\ trail' = Append(trail, IF exit = "ok" THEN "ok" ELSE "error")
          /\ exit = "ok" => ran["change"] = "ok"
      BY <1>4 DEF FW!Result, FW!callVars, FwInv, OnRecord
    <2> QED
      BY <1>2, <2>1, AuditRecords
  <1>5. CASE FW!Connect \/ FW!Escalated \/ FW!Validate \/ FW!Raise \/ FW!Ask \/ FW!Guard \/ FW!Call
               \/ FW!Answered \/ FW!Unanswered \/ FW!Show
    <2>1. UNCHANGED <<ran, req, trail>>
      BY <1>5 DEF FW!Connect, FW!Escalated, FW!Validate, FW!Raise, FW!Ask, FW!Guard, FW!Call, FW!Send,
                  FW!Answered, FW!Unanswered, FW!Show, FW!callVars, FW!Transport!Send,
                  FW!Transport!SendKills, FW!Transport!Return, FW!Transport!Fail
    <2> QED
      BY <1>2, <2>1, AuditStutters
  <1>6. CASE FW!Escalate
    <2>1. UNCHANGED <<req, trail>> /\ ran' = ran
      BY <1>1, <1>6, FwEscalateParts DEF FW!Escalate, FW!fezVars, FwInv, Gated
    <2> QED
      BY <1>2, <2>1, AuditStutters
  <1>7. CASE FW!Superuser
    <2>1. PICK k \in Mechanisms \cup {"Bridges"}, r \in {"ok", "Dbus"} : ran' = [ran EXCEPT ![k] = r]
      BY <1>7 DEF FW!Superuser, FW!Esc!Bridge, FW!Esc!Transport!Perform
    <2>2. ran'["change"] = ran["change"] /\ UNCHANGED <<req, trail>>
      BY <1>1, <1>7, <2>1, FwTyped DEF FW!Superuser, FW!fezVars
    <2> QED
      BY <1>2, <2>2, AuditStutters
  <1>8. CASE \E k \in FW!FwCalls : FW!Refuse(k)
    <2>1. PICK k \in Own : FW!Transport!Perform(k, "Dbus") /\ UNCHANGED <<FW!escVars, FW!fezVars>>
      BY <1>8 DEF FW!Refuse, Own
    <2>2. ran[k] = "no" /\ ran'[k] = "Dbus" /\ \A j \in Own : j # k => ran'[j] = ran[j]
      BY <2>1, OneOutcome
    <2>3. ran'["change"] = "ok" <=> ran["change"] = "ok"
      BY <1>1, <2>2
    <2> QED
      BY <1>2, <2>1, <2>3, AuditStutters DEF FW!fezVars
  <1>9. CASE \E k \in FW!FwReads : FW!Tell(k)
    <2>1. PICK k \in FW!FwReads : FW!Transport!Perform(k, "ok") /\ UNCHANGED <<FW!escVars, FW!fezVars>>
      BY <1>9 DEF FW!Tell
    <2>2. k \in Own /\ k # "change"
      BY OwnCalls
    <2>3. ran'["change"] = ran["change"]
      BY <1>1, <2>1, <2>2, OneOutcome
    <2> QED
      BY <1>2, <2>1, <2>3, AuditStutters DEF FW!fezVars
  <1>10. CASE FW!Apply
    <2>1. FW!Transport!Perform("change", "ok") /\ UNCHANGED <<FW!escVars, FW!fezVars>>
      BY <1>10, ApplyParts
    <2>2. Sent("change") /\ ran["change"] = "no" /\ ran'["change"] = "ok"
      BY <1>1, <2>1, OneOutcome
    <2>3. UNCHANGED <<req, trail>> /\ trail # <<>> /\ req.op # "status"
      BY <2>1, <2>2 DEF FwInv, OnRecord, Gated, FW!fezVars
    <2>4. Goal = {"change"}
      BY <2>3 DEF Goal
    <2> QED
      BY <1>2, <2>2, <2>3, <2>4, AuditDoes
  <1>11. CASE (\E z \in Zones, i \in FW!Items : FW!Interfere(z, i)) \/ FW!ChangeDefault
    <2>1. UNCHANGED <<ran, req, trail>>
      BY <1>11 DEF FW!Interfere, FW!ChangeDefault, FW!callVars, FW!fezVars
    <2> QED
      BY <1>2, <2>1, AuditStutters
  <1>12. CASE UNCHANGED vars
    <2>1. UNCHANGED <<ran, req, trail>>
      BY <1>12 DEF vars, changeVars
    <2> QED
      BY <1>2, <2>1, AuditStutters
  <1>13. CASE Client
    <2>1. FW!Client
      BY <1>13 DEF Client
    <2> QED
      BY <2>1, <1>3, <1>4, <1>5, <1>6 DEF FW!Client
  <1>14. CASE Environment
    <2>1. FW!Superuser \/ FW!Firewalld
      BY <1>14 DEF Environment
    <2> QED
      BY <2>1, <1>7, <1>8, <1>9, <1>10, <1>11 DEF FW!Firewalld
  <1> QED
    BY <1>12, <1>13, <1>14 DEF Next, Over

LEMMA HcAudits ==
  ASSUME area = "host", HcInv, [Next]_vars
  PROVE  [Audit!Next]_(Audit!vars)
  <1>1. HC!TypeOK /\ "change" \in HC!Calls /\ "change" \notin Mechanisms \cup {"Bridges"}
    BY HcTyped DEF HcInv
  <1>2. area' = area
    BY HcStep
  <1>3. CASE HC!Attempt
    <2>1. UNCHANGED <<ran, req>> /\ trail = <<>> /\ trail' = Append(trail, "attempt")
      BY <1>3 DEF HC!Attempt, HC!callVars, HcInv, HcOnRecord
    <2> QED
      BY <1>2, <2>1, AuditAttempts
  <1>4. CASE HC!Result
    <2>1. /\ UNCHANGED <<ran, req>> /\ trail = <<"attempt">>
          /\ trail' = Append(trail, IF exit = "ok" THEN "ok" ELSE "error")
          /\ exit = "ok" => ran["change"] = "ok"
      BY <1>4 DEF HC!Result, HC!callVars, HcInv, HcOnRecord
    <2> QED
      BY <1>2, <2>1, AuditRecords
  <1>5. CASE HC!Connect \/ HC!Ask \/ HC!Asked \/ HC!Escalated \/ HC!Call \/ HC!Answered
    <2>1. UNCHANGED <<ran, req, trail>>
      BY <1>5 DEF HC!Connect, HC!Ask, HC!Asked, HC!Escalated, HC!Call, HC!Answered, HC!Send, HC!callVars,
                  HC!Transport!Send, HC!Transport!SendKills, HC!Transport!Return, HC!Transport!Fail
    <2> QED
      BY <1>2, <2>1, AuditStutters
  <1>6. CASE HC!Escalate
    <2>1. UNCHANGED <<req, trail>> /\ ran' = ran
      BY <1>1, <1>6, HcEscalateParts DEF HC!Escalate, HC!fezVars, HcInv, HcGated
    <2> QED
      BY <1>2, <2>1, AuditStutters
  <1>7. CASE HC!Superuser
    <2>1. PICK k \in Mechanisms \cup {"Bridges"}, r \in {"ok", "Dbus"} : ran' = [ran EXCEPT ![k] = r]
      BY <1>7 DEF HC!Superuser, HC!Esc!Bridge, HC!Esc!Transport!Perform
    <2>2. ran'["change"] = ran["change"] /\ UNCHANGED <<req, trail>>
      BY <1>1, <1>7, <2>1, HcTyped DEF HC!Superuser, HC!fezVars
    <2> QED
      BY <1>2, <2>2, AuditStutters
  <1>8. CASE HC!Service
    <2>1. PICK k \in {"CanX", "change"}, r \in {"ok", "Dbus"} :
            answer[k] # "unsent" /\ ran[k] = "no" /\ ran' = [ran EXCEPT ![k] = r]
      BY <1>8 DEF HC!Service, HC!Transport!Perform
    <2>2. UNCHANGED <<req, trail>>
      BY <1>8 DEF HC!Service, HC!fezVars
    <2>3. CASE k = "change" /\ r = "ok"
      <3>1. ran["change"] = "no" /\ ran'["change"] = "ok" /\ trail # <<>>
        BY <1>1, <2>1, <2>3, HcTyped DEF HcInv, HcOnRecord, Sent
      <3>2. Goal = {"change"}
        BY DEF Goal
      <3> QED
        BY <1>2, <2>2, <3>1, <3>2, AuditDoes
    <2>4. CASE ~(k = "change" /\ r = "ok")
      <3>1. ran'["change"] = "ok" <=> ran["change"] = "ok"
        BY <1>1, <2>1, <2>4, HcTyped
      <3> QED
        BY <1>2, <2>2, <3>1, AuditStutters
    <2> QED
      BY <2>3, <2>4
  <1>9. CASE UNCHANGED vars
    <2>1. UNCHANGED <<ran, req, trail>>
      BY <1>9 DEF vars, changeVars
    <2> QED
      BY <1>2, <2>1, AuditStutters
  <1>10. CASE Client
    <2>1. HC!Client
      BY <1>10 DEF Client
    <2> QED
      BY <2>1, <1>3, <1>4, <1>5, <1>6 DEF HC!Client
  <1>11. CASE Environment
    <2>1. HC!Superuser \/ HC!Service
      BY <1>11 DEF Environment
    <2> QED
      BY <2>1, <1>7, <1>8
  <1> QED
    BY <1>9, <1>10, <1>11 DEF Next, Over

LEMMA AuditInit == Init => Audit!Init
  <1> SUFFICES ASSUME Init PROVE Audit!Init
    OBVIOUS
  <1>1. ChangeInv
    BY ChangeInit
  <1>2. CASE area = "firewall"
    <2>1. FW!Init /\ FW!Esc!Init /\ FW!Esc!Transport!Init
      BY <1>2 DEF Init, FW!Init, FW!Esc!Init
    <2>2. trail = <<>> /\ "change" \in FW!Calls /\ ran = [k \in FW!Calls |-> "no"]
      BY <2>1 DEF FW!Init, FW!Esc!Transport!Init, FW!Calls, FW!FwCalls
    <2> QED
      BY <2>2 DEF Audit!Init, Goal
  <1>3. CASE area = "host"
    <2>1. HC!Init /\ HC!Esc!Init /\ HC!Esc!Transport!Init
      BY <1>3 DEF Init, HC!Init, HC!Esc!Init
    <2>2. trail = <<>> /\ "change" \in HC!Calls /\ ran = [k \in HC!Calls |-> "no"]
      BY <2>1 DEF HC!Init, HC!Esc!Transport!Init, HC!Calls
    <2> QED
      BY <2>2 DEF Audit!Init, Goal
  <1>4. CASE area = "reads"
    <2>1. trail = <<>> /\ ran = <<>>
      BY <1>1, <1>4 DEF ChangeInv, NoChange
    <2>2. Goal = {}
      BY <1>4, Zenon DEF Goal
    <2> QED
      BY <2>1, <2>2 DEF Audit!Init
  <1> QED
    BY <1>1, <1>2, <1>3, <1>4 DEF ChangeInv

LEMMA AuditStep == ChangeInv /\ [Next]_vars => [Audit!Next]_(Audit!vars)
  <1> SUFFICES ASSUME ChangeInv, [Next]_vars PROVE [Audit!Next]_(Audit!vars)
    OBVIOUS
  <1>1. CASE area = "firewall"
    BY <1>1, FwAudits DEF ChangeInv
  <1>2. CASE area = "host"
    BY <1>2, HcAudits DEF ChangeInv
  <1>3. CASE area = "reads"
    <2>1. UNCHANGED <<area, req, trail, ran>>
      BY <1>3, ReadStep DEF changeVars
    <2> QED
      BY <2>1, AuditStutters
  <1> QED
    BY <1>1, <1>2, <1>3 DEF ChangeInv

\* Every command keeps the promises of the audit trail: nothing is changed before the
\* attempt is on record, one result follows it, `ok` means that the change was made, and
\* a read leaves no record.
THEOREM AuditHolds == Spec => ImplementsAudit
  BY AuditInit, AuditStep, Invariance, PTL DEF Spec, ImplementsAudit, Audit!Spec
=============================================================================
