-------------------------- MODULE EscalationProofs --------------------------
(***************************************************************************)
(* Theorems about Escalation, for every set of mechanisms, every list a    *)
(* bridge can advertise and every value of FEZ_ESCALATION.                 *)
(*                                                                         *)
(* The argument is that at most one mechanism is ever in hand: any other   *)
(* one that was asked to start has refused, which it cannot take back.     *)
(***************************************************************************)
EXTENDS Escalation, SequenceTheorems, FiniteSetTheorems, TLAPS

\* The answers are those of the mechanisms, and only what was asked is performed.
CallsAgree ==
  \A m \in Mechanisms :
    /\ ran[m] # "no" => answer[m] \notin {"unsent", "killed"}
    /\ answer[m] \in {"ok", "Dbus"} => ran[m] = answer[m]

\* A mechanism that was asked and has not refused is the one being tried.
OneInHand ==
  \A m \in Mechanisms :
    answer[m] \notin {"unsent", "Dbus"} =>
      /\ esc \in {"starting", "escalated", "failed", "killed"}
      /\ rest # <<>>
      /\ m = Head(rest)

\* What is asked, or can still be, is listed and not against FEZ_ESCALATION.
Permitted(m) == Advertised(m) /\ forced \in {"", m}

Consent ==
  /\ \A m \in Mechanisms : answer[m] # "unsent" => m \in Safe /\ Permitted(m)
  /\ \A i \in 1..Len(rest) : Permitted(rest[i])

\* Without an override the mechanisms left are the tail of the bridge's list, and the
\* safe ones before them have refused.
Dealt == Len(advertised) - Len(rest)

PassedRefused ==
  forced = "" /\ esc \in {"choosing", "starting", "escalated"} =>
    /\ Len(rest) <= Len(advertised)
    /\ \A i \in 1..Len(rest) : rest[i] = advertised[Dealt + i]
    /\ \A j \in 1..Dealt : advertised[j] \in Safe => ran[advertised[j]] = "Dbus"

\* The mechanism being started, or started, is there.
InHand ==
  /\ esc = "starting" => rest # <<>>
  /\ esc = "escalated" => rest # <<>> /\ ran[Head(rest)] = "ok"

Inv == TypeOK /\ CallsAgree /\ OneInHand /\ Consent /\ PassedRefused /\ InHand
-----------------------------------------------------------------------------
(* Lemmas. *)

\* The mechanism being tried is one, and so are those after it.
LEMMA RestParts ==
  ASSUME NEW s \in Seq(Mechanisms), s # <<>>
  PROVE  /\ Head(s) \in Mechanisms
         /\ Head(s) = s[1]
         /\ Len(s) \in Nat \ {0}
         /\ Tail(s) \in Seq(Mechanisms)
         /\ Len(Tail(s)) = Len(s) - 1
         /\ \A i \in 1..Len(Tail(s)) : Tail(s)[i] = s[i + 1]
  <1>1. Len(s) \in Nat \ {0}
    BY EmptySeq, LenProperties
  <1>2. Head(s) = s[1]
    BY <1>1
  <1> QED
    BY <1>1, <1>2, HeadTailProperties

\* The list of candidates holds permitted mechanisms only.
LEMMA CandidatesPermitted ==
  ASSUME advertised \in Lists
  PROVE  /\ Candidates \in Seq(Mechanisms)
         /\ \A i \in 1..Len(Candidates) : Permitted(Candidates[i])
         /\ forced = "" => Candidates = advertised
  <1>1. advertised \in Seq(Mechanisms) /\ Safe \subseteq Mechanisms
    BY MechanismsAssumption
  <1>2. CASE forced = ""
    <2>1. Candidates = advertised
      BY <1>2 DEF Candidates
    <2>2. DOMAIN advertised = 1..Len(advertised)
      BY <1>1
    <2>3. \A i \in 1..Len(advertised) : Permitted(advertised[i])
      BY <1>2, <2>2 DEF Permitted, Advertised
    <2> QED
      BY <1>1, <2>1, <2>3
  <1>3. CASE forced # "" /\ forced \in Safe /\ Advertised(forced)
    <2>1. Candidates = <<forced>>
      BY <1>3 DEF Candidates
    <2>2. forced \in Mechanisms
      BY <1>1, <1>3
    <2>3. <<forced>> \in Seq(Mechanisms)
      BY <2>2
    <2>4. Len(<<forced>>) = 1 /\ <<forced>>[1] = forced
      OBVIOUS
    <2>5. Permitted(forced)
      BY <1>3 DEF Permitted
    <2>6. ASSUME NEW i \in 1..1 PROVE Permitted(<<forced>>[i])
      <3>1. i = 1
        OBVIOUS
      <3> QED
        BY <2>4, <2>5, <3>1
    <2> QED
      BY <1>3, <2>1, <2>3, <2>4, <2>6
  <1>4. CASE forced # "" /\ ~(forced \in Safe /\ Advertised(forced))
    <2>1. Candidates = <<>>
      BY <1>4 DEF Candidates
    <2>2. Candidates \in Seq(Mechanisms) /\ Len(Candidates) = 0
      BY <2>1
    <2>3. \A i \in 1..Len(Candidates) : Permitted(Candidates[i])
      BY <2>2
    <2> QED
      BY <1>4, <2>2, <2>3
  <1> QED
    BY <1>2, <1>3, <1>4
-----------------------------------------------------------------------------
(* The invariant. *)

LEMMA InvInit == Init => Inv
  <1> SUFFICES ASSUME Init PROVE Inv
    OBVIOUS
  <1>1. TypeOK
    BY DEF Init, TypeOK, Transport!Init, Transport!TypeOK, Transport!Performed
  <1>2. Mechanisms \subseteq Calls
    BY MechanismsAssumption
  <1>3. CallsAgree /\ OneInHand
    BY <1>2 DEF Init, Transport!Init, CallsAgree, OneInHand
  <1>4. \A m \in Mechanisms : answer[m] = "unsent"
    BY <1>2 DEF Init, Transport!Init
  <1>5. Len(rest) = 0
    BY DEF Init
  <1>6. Consent
    BY <1>4, <1>5 DEF Consent
  <1>7. PassedRefused /\ InHand
    BY DEF Init, PassedRefused, InHand
  <1> QED
    BY <1>1, <1>3, <1>6, <1>7 DEF Inv

\* One mechanism, permitted and the first of those left, is asked to start.
LEMMA AskKeeps ==
  ASSUME Inv, esc = "choosing", rest # <<>>, Head(rest) \in Safe,
         Ask(Head(rest), "starting"), UNCHANGED <<forced, advertised, rest>>
  PROVE  Inv'
  <1> DEFINE h == Head(rest)
  <1>1. TypeOK /\ rest \in Seq(Mechanisms) /\ h \in Mechanisms /\ h = rest[1] /\ 1 \in 1..Len(rest)
    BY RestParts DEF Inv, TypeOK
  <1>2. h \in Calls /\ Mechanisms \subseteq Calls
    BY <1>1, MechanismsAssumption
  <1>3. /\ answer \in [Calls -> {"ok", "Dbus", "unsent", "pending", "failed", "killed"}]
        /\ ran \in [Calls -> {"ok", "Dbus", "no"}]
    BY <1>1 DEF TypeOK, Transport!TypeOK, Transport!Performed
  <1>4. answer[h] = "unsent" /\ ran' = ran
    BY DEF Ask, Transport!Send, Transport!SendKills
  <1>5. \/ answer' = [answer EXCEPT ![h] = "pending"] /\ esc' = "starting"
        \/ answer' = [answer EXCEPT ![h] = "killed"] /\ esc' = "killed"
    BY DEF Ask, Transport!Send, Transport!SendKills
  <1>6. /\ answer' \in [Calls -> {"ok", "Dbus", "unsent", "pending", "failed", "killed"}]
        /\ answer'[h] \in {"pending", "killed"}
        /\ \A m \in Calls \ {h} : answer'[m] = answer[m]
    BY <1>2, <1>3, <1>5
  <1>7. TypeOK'
    BY <1>1, <1>3, <1>4, <1>5, <1>6
       DEF TypeOK, Transport!TypeOK, Transport!Performed, Waiting, Ended
  <1>8. CallsAgree'
    BY <1>2, <1>3, <1>4, <1>6 DEF Inv, CallsAgree
  <1>9. OneInHand'
    BY <1>2, <1>5, <1>6 DEF Inv, OneInHand
  <1>10. Permitted(h)
    BY <1>1 DEF Inv, Consent
  <1>11. \A m : Permitted(m) => Permitted(m)'
    BY DEF Permitted, Advertised
  <1>12. Consent'
    <2>1. ASSUME NEW m \in Mechanisms, answer'[m] # "unsent" PROVE m \in Safe /\ Permitted(m)'
      <3>1. m = h \/ answer[m] # "unsent"
        BY <1>2, <1>6, <2>1
      <3> QED
        BY <1>10, <1>11, <3>1 DEF Inv, Consent
    <2>2. \A i \in 1..Len(rest) : Permitted(rest[i])'
      BY <1>11 DEF Inv, Consent
    <2> QED
      BY <2>1, <2>2 DEF Consent
  <1>13. PassedRefused'
    BY <1>4, <1>5 DEF Inv, PassedRefused, Dealt
  <1>14. InHand'
    BY <1>5 DEF InHand
  <1> QED
    BY <1>7, <1>8, <1>9, <1>12, <1>13, <1>14 DEF Inv

\* Answers to the property read, and calls that are no mechanism's, are of no concern.
LEMMA OtherCallKeeps ==
  ASSUME Inv, Transport!TypeOK', UNCHANGED <<forced, advertised, rest>>,
         \A m \in Mechanisms : ran'[m] = ran[m] /\ answer'[m] = answer[m],
         esc \in {"idle", "listing"}, esc' \in {"listing", "denied", "dbus", "failed", "killed"}
  PROVE  Inv'
  <1>1. TypeOK'
    BY DEF Inv, TypeOK, Waiting, Ended
  <1>2. CallsAgree' /\ OneInHand'
    BY DEF Inv, CallsAgree, OneInHand
  <1>3. \A m : Permitted(m) => Permitted(m)'
    BY DEF Permitted, Advertised
  <1>4. Consent'
    BY <1>3 DEF Inv, Consent
  <1>5. PassedRefused' /\ InHand'
    BY DEF PassedRefused, InHand
  <1> QED
    BY <1>1, <1>2, <1>4, <1>5 DEF Inv

LEMMA EscalateKeeps ==
  ASSUME Inv, Escalate
  PROVE  Inv'
  <1>1. Transport!TypeOK /\ "Bridges" \in Calls /\ "Bridges" \notin Mechanisms /\ Mechanisms \subseteq Calls
    BY MechanismsAssumption DEF Inv, TypeOK
  <1>2. ran' = ran /\ \A m \in Mechanisms : answer'[m] = answer[m]
    BY <1>1 DEF Escalate, Ask, Transport!Send, Transport!SendKills, Transport!TypeOK
  <1>3. Transport!TypeOK'
    BY <1>1 DEF Escalate, Ask, Transport!Send, Transport!SendKills, Transport!TypeOK, Transport!Performed
  <1>4. esc = "idle" /\ esc' \in {"listing", "denied", "killed"} /\ UNCHANGED <<forced, advertised, rest>>
    BY DEF Escalate, Ask
  <1> QED
    BY <1>2, <1>3, <1>4, OtherCallKeeps

LEMMA ListedKeeps ==
  ASSUME Inv, Listed
  PROVE  Inv'
  <1>1. Transport!TypeOK /\ "Bridges" \in Calls /\ "Bridges" \notin Mechanisms /\ Mechanisms \subseteq Calls
    BY MechanismsAssumption DEF Inv, TypeOK
  <1>2. ran' = ran /\ \A m \in Mechanisms : answer'[m] = answer[m]
    BY <1>1 DEF Listed, Transport!Return, Transport!TypeOK
  <1>3. Transport!TypeOK'
    BY <1>1 DEF Listed, Transport!Return, Transport!TypeOK, Transport!Performed
  <1>4. esc = "listing" /\ UNCHANGED <<forced, advertised>>
    BY DEF Listed
  <1>5. CASE ran["Bridges"] # "ok"
    <2>1. esc' = "dbus" /\ UNCHANGED rest
      BY <1>5 DEF Listed
    <2> QED
      BY <1>2, <1>3, <1>4, <2>1, OtherCallKeeps
  <1>6. CASE ran["Bridges"] = "ok"
    <2>1. esc' = "choosing" /\ rest' = Candidates
      BY <1>6 DEF Listed
    <2>2. advertised \in Lists /\ advertised \in Seq(Mechanisms)
      BY MechanismsAssumption DEF Inv, TypeOK
    <2>3. /\ rest' \in Seq(Mechanisms)
          /\ \A i \in 1..Len(rest') : Permitted(rest'[i])
          /\ forced = "" => rest' = advertised
      BY <2>1, <2>2, CandidatesPermitted
    <2>4. \A m : Permitted(m) => Permitted(m)'
      BY <1>4 DEF Permitted, Advertised
    <2>5. TypeOK'
      BY <1>3, <1>4, <2>1, <2>3 DEF Inv, TypeOK
    <2>6. CallsAgree'
      BY <1>2 DEF Inv, CallsAgree
    <2>7. OneInHand'
      BY <1>2, <1>4 DEF Inv, OneInHand
    <2>8. Consent'
      <3>1. ASSUME NEW i \in 1..Len(rest') PROVE Permitted(rest[i])'
        BY <1>4, <2>3 DEF Permitted, Advertised
      <3>2. \A m \in Mechanisms : answer'[m] # "unsent" => m \in Safe /\ Permitted(m)'
        BY <1>2, <2>4 DEF Inv, Consent
      <3> QED
        BY <3>1, <3>2 DEF Consent
    <2>9. PassedRefused'
      <3>1. SUFFICES ASSUME forced' = "" PROVE PassedRefused'
        BY DEF PassedRefused
      <3>2. rest' = advertised /\ advertised' = advertised
        BY <1>4, <2>3, <3>1
      <3>3. Len(advertised) \in Nat
        BY <2>2
      <3>4. Dealt' = 0
        BY <3>2, <3>3 DEF Dealt
      <3>5. Len(rest') <= Len(advertised')
        BY <3>2, <3>3
      <3>6. \A i \in 1..Len(rest') : rest'[i] = advertised'[Dealt' + i]
        BY <3>2, <3>3, <3>4
      <3>7. 1..Dealt' = {}
        BY <3>4
      <3> QED
        BY <3>5, <3>6, <3>7 DEF PassedRefused
    <2>10. InHand'
      BY <2>1 DEF InHand
    <2> QED
      BY <2>5, <2>6, <2>7, <2>8, <2>9, <2>10 DEF Inv
  <1> QED
    BY <1>5, <1>6

\* A mechanism that is not safe, or that has refused, is left behind.
LEMMA LeaveBehind ==
  ASSUME Inv, rest # <<>>, esc' = "choosing", rest' = Tail(rest), ran' = ran, Transport!TypeOK',
         esc \in {"choosing", "starting"},
         Head(rest) \in Safe => ran[Head(rest)] = "Dbus" /\ answer'[Head(rest)] = "Dbus",
         \A m \in Mechanisms : (m = Head(rest) /\ answer'[m] = "Dbus") \/ answer'[m] = answer[m],
         answer'[Head(rest)] # "unsent" => answer[Head(rest)] # "unsent",
         esc = "starting" => answer'[Head(rest)] = "Dbus",
         UNCHANGED <<forced, advertised>>
  PROVE  Inv'
  <1> DEFINE h == Head(rest)
  <1>1. /\ rest \in Seq(Mechanisms)
        /\ h \in Mechanisms /\ h = rest[1]
        /\ Len(rest) \in Nat \ {0}
        /\ Tail(rest) \in Seq(Mechanisms)
        /\ Len(Tail(rest)) = Len(rest) - 1
        /\ \A i \in 1..Len(Tail(rest)) : Tail(rest)[i] = rest[i + 1]
    BY RestParts DEF Inv, TypeOK
  <1>2. \A i \in 1..Len(rest') : i + 1 \in 1..Len(rest) /\ rest'[i] = rest[i + 1]
    BY <1>1
  <1>3. TypeOK'
    BY <1>1 DEF Inv, TypeOK
  <1>4. CallsAgree'
    <2>1. ASSUME NEW m \in Mechanisms
          PROVE  /\ ran'[m] # "no" => answer'[m] \notin {"unsent", "killed"}
                 /\ answer'[m] \in {"ok", "Dbus"} => ran'[m] = answer'[m]
      <3>1. CASE answer'[m] = answer[m]
        BY <3>1 DEF Inv, CallsAgree
      <3>2. CASE m = h /\ answer'[m] = "Dbus"
        <4>1. h \in Safe
          BY <1>1, <3>2 DEF Inv, Consent
        <4> QED
          BY <3>2, <4>1
      <3> QED
        BY <3>1, <3>2
    <2> QED
      BY <2>1 DEF CallsAgree
  <1>5. OneInHand'
    <2>1. ASSUME NEW m \in Mechanisms PROVE answer'[m] \in {"unsent", "Dbus"}
      BY <1>1 DEF Inv, OneInHand
    <2> QED
      BY <2>1 DEF OneInHand
  <1>6. \A m : Permitted(m) => Permitted(m)'
    BY DEF Permitted, Advertised
  <1>7. Consent'
    <2>1. ASSUME NEW m \in Mechanisms, answer'[m] # "unsent" PROVE m \in Safe /\ Permitted(m)'
      <3>1. answer[m] # "unsent"
        BY <2>1
      <3> QED
        BY <1>6, <3>1 DEF Inv, Consent
    <2>2. ASSUME NEW i \in 1..Len(rest') PROVE Permitted(rest[i])'
      <3>1. Permitted(rest[i + 1]) /\ rest'[i] = rest[i + 1]
        BY <1>2 DEF Inv, Consent
      <3> QED
        BY <3>1 DEF Permitted, Advertised
    <2> QED
      BY <2>1, <2>2 DEF Consent
  <1>8. PassedRefused'
    <2>1. SUFFICES ASSUME forced = "" PROVE PassedRefused'
      BY DEF PassedRefused
    <2>2. /\ Len(rest) <= Len(advertised)
          /\ \A i \in 1..Len(rest) : rest[i] = advertised[Dealt + i]
          /\ \A j \in 1..Dealt : advertised[j] \in Safe => ran[advertised[j]] = "Dbus"
      BY <2>1 DEF Inv, PassedRefused
    <2>3. Len(advertised) \in Nat
      <3>1. advertised \in Seq(Mechanisms)
        BY MechanismsAssumption DEF Inv, TypeOK
      <3> QED
        BY <3>1
    <2>4. Dealt \in Nat /\ Dealt' = Dealt + 1 /\ Len(rest') <= Len(advertised')
      BY <1>1, <2>2, <2>3 DEF Dealt
    <2>5. \A i \in 1..Len(rest') : rest'[i] = advertised'[Dealt' + i]
      <3>1. ASSUME NEW i \in 1..Len(rest') PROVE rest'[i] = advertised'[Dealt' + i]
        <4>1. rest'[i] = advertised[Dealt + (i + 1)]
          BY <1>2, <2>2
        <4>2. Dealt + (i + 1) = Dealt' + i
          BY <2>4, <1>1
        <4> QED
          BY <4>1, <4>2
      <3> QED
        BY <3>1
    <2>6. ASSUME NEW j \in 1..Dealt', advertised'[j] \in Safe PROVE ran'[advertised'[j]] = "Dbus"
      <3>1. CASE j \in 1..Dealt
        BY <2>2, <2>6, <3>1
      <3>2. CASE j = Dealt + 1
        <4>1. advertised[j] = h
          BY <1>1, <2>2, <3>2
        <4> QED
          BY <2>6, <4>1
      <3> QED
        BY <2>4, <3>1, <3>2
    <2> QED
      BY <2>4, <2>5, <2>6 DEF PassedRefused
  <1>9. InHand'
    BY DEF InHand
  <1> QED
    BY <1>3, <1>4, <1>5, <1>7, <1>8, <1>9 DEF Inv

LEMMA ChooseKeeps ==
  ASSUME Inv, Choose
  PROVE  Inv'
  <1>1. esc = "choosing" /\ UNCHANGED <<forced, advertised>>
    BY DEF Choose
  <1>2. CASE rest = <<>> /\ esc' = "denied" /\ UNCHANGED <<ran, answer, rest>>
    <2>1. TypeOK' /\ CallsAgree'
      BY <1>1, <1>2 DEF Inv, TypeOK, CallsAgree, Transport!TypeOK, Ended
    <2>2. OneInHand'
      BY <1>1, <1>2 DEF Inv, OneInHand
    <2>3. Consent'
      BY <1>1, <1>2 DEF Inv, Consent, Permitted, Advertised
    <2>4. PassedRefused' /\ InHand'
      BY <1>2 DEF PassedRefused, InHand
    <2> QED
      BY <2>1, <2>2, <2>3, <2>4 DEF Inv
  <1>3. CASE rest # <<>> /\ Head(rest) \in Safe /\ Ask(Head(rest), "starting") /\ UNCHANGED rest
    BY <1>1, <1>3, AskKeeps
  <1>4. CASE rest # <<>> /\ Head(rest) \notin Safe /\ rest' = Tail(rest) /\ UNCHANGED <<ran, answer, esc>>
    <2>1. Transport!TypeOK'
      BY <1>4 DEF Inv, TypeOK, Transport!TypeOK
    <2> QED
      BY <1>1, <1>4, <2>1, LeaveBehind
  <1> QED
    BY <1>2, <1>3, <1>4 DEF Choose

LEMMA StartedKeeps ==
  ASSUME Inv, Started
  PROVE  Inv'
  <1> DEFINE h == Head(rest)
  <1>1. esc = "starting" /\ rest # <<>> /\ UNCHANGED <<forced, advertised>>
    BY DEF Started, Inv, InHand
  <1>2. rest \in Seq(Mechanisms) /\ h \in Mechanisms /\ h \in Calls /\ Mechanisms \subseteq Calls
    BY <1>1, RestParts, MechanismsAssumption DEF Inv, TypeOK
  <1>3. Transport!TypeOK
    BY DEF Inv, TypeOK
  <1>4. /\ answer[h] = "pending"
        /\ ran[h] \in {"ok", "Dbus"}
        /\ answer' = [answer EXCEPT ![h] = ran[h]]
        /\ ran' = ran
    BY DEF Started, Transport!Return, Transport!Performed
  <1>5. /\ answer'[h] = ran[h]
        /\ \A m \in Mechanisms : m = h \/ answer'[m] = answer[m]
    BY <1>2, <1>3, <1>4 DEF Transport!TypeOK
  <1>6. Transport!TypeOK'
    BY <1>2, <1>3, <1>4 DEF Transport!TypeOK, Transport!Performed
  <1>7. CASE ran[h] = "ok"
    <2>1. esc' = "escalated" /\ rest' = rest
      BY <1>7 DEF Started
    <2>2. TypeOK'
      BY <1>1, <1>6, <2>1 DEF Inv, TypeOK, Ended
    <2>3. CallsAgree'
      BY <1>4, <1>5, <1>7 DEF Inv, CallsAgree
    <2>4. OneInHand'
      BY <1>1, <1>5, <2>1 DEF Inv, OneInHand
    <2>5. \A m : Permitted(m) => Permitted(m)'
      BY <1>1 DEF Permitted, Advertised
    <2>6. \A m \in Mechanisms : answer'[m] # "unsent" => answer[m] # "unsent"
      BY <1>4, <1>5
    <2>7. Consent'
      <3>1. \A m \in Mechanisms : answer'[m] # "unsent" => m \in Safe /\ Permitted(m)'
        BY <2>5, <2>6 DEF Inv, Consent
      <3>2. \A i \in 1..Len(rest) : Permitted(rest[i])'
        BY <1>1, <2>1 DEF Inv, Consent, Permitted, Advertised
      <3> QED
        BY <2>1, <3>1, <3>2 DEF Consent
    <2>8. PassedRefused'
      BY <1>1, <1>4, <2>1 DEF Inv, PassedRefused, Dealt
    <2>9. InHand'
      BY <1>1, <1>4, <1>7, <2>1 DEF InHand
    <2> QED
      BY <2>2, <2>3, <2>4, <2>7, <2>8, <2>9 DEF Inv
  <1>8. CASE ran[h] = "Dbus"
    <2>1. esc' = "choosing" /\ rest' = Tail(rest)
      BY <1>8 DEF Started
    <2>2. answer'[h] = "Dbus"
      BY <1>5, <1>8
    <2>3. answer[h] # "unsent"
      BY <1>4
    <2> QED
      BY <1>1, <1>4, <1>5, <1>6, <1>8, <2>1, <2>2, <2>3, LeaveBehind
  <1> QED
    BY <1>4, <1>7, <1>8

LEMMA BrokenKeeps ==
  ASSUME Inv, Broken
  PROVE  Inv'
  <1>1. Transport!TypeOK /\ "Bridges" \in Calls /\ "Bridges" \notin Mechanisms /\ Mechanisms \subseteq Calls
    BY MechanismsAssumption DEF Inv, TypeOK
  <1>2. /\ esc' = "failed"
        /\ UNCHANGED <<forced, advertised, rest>>
        /\ ran' = ran
        /\ answer' = [answer EXCEPT ![Asked] = "failed"]
        /\ answer[Asked] = "pending"
    BY DEF Broken, Transport!Fail
  <1>3. CASE esc = "listing"
    <2>1. Asked = "Bridges"
      BY <1>3 DEF Asked
    <2>2. \A m \in Mechanisms : answer'[m] = answer[m]
      BY <1>1, <1>2, <2>1 DEF Transport!TypeOK
    <2>3. Transport!TypeOK'
      BY <1>1, <1>2, <2>1 DEF Transport!TypeOK
    <2> QED
      BY <1>2, <1>3, <2>2, <2>3, OtherCallKeeps
  <1>4. CASE esc = "starting"
    <2>1. rest # <<>> /\ Asked = Head(rest)
      BY <1>4 DEF Inv, InHand, Asked
    <2>2. Head(rest) \in Mechanisms /\ Head(rest) \in Calls
      BY <1>1, <2>1, RestParts DEF Inv, TypeOK
    <2>3. /\ answer'[Head(rest)] = "failed"
          /\ \A m \in Mechanisms : m = Head(rest) \/ answer'[m] = answer[m]
      BY <1>1, <1>2, <2>1, <2>2 DEF Transport!TypeOK
    <2>4. Transport!TypeOK'
      BY <1>1, <1>2, <2>1, <2>2 DEF Transport!TypeOK
    <2>5. TypeOK'
      BY <1>2, <2>4 DEF Inv, TypeOK, Ended
    <2>6. CallsAgree'
      BY <1>2, <2>1, <2>3 DEF Inv, CallsAgree
    <2>7. OneInHand'
      BY <1>2, <2>1, <2>3 DEF Inv, OneInHand
    <2>8. Consent'
      <3>1. \A m \in Mechanisms : answer'[m] # "unsent" => answer[m] # "unsent"
        BY <1>2, <2>1, <2>3
      <3> QED
        BY <1>2, <3>1 DEF Inv, Consent, Permitted, Advertised
    <2>9. PassedRefused' /\ InHand'
      BY <1>2 DEF PassedRefused, InHand
    <2> QED
      BY <2>5, <2>6, <2>7, <2>8, <2>9 DEF Inv
  <1> QED
    BY <1>3, <1>4 DEF Broken, Waiting

\* What the bridge performs was asked, and is performed once.
LEMMA BridgeKeeps ==
  ASSUME Inv, Bridge
  PROVE  Inv'
  <1>1. PICK k \in Mechanisms \cup {"Bridges"}, r \in {"ok", "Dbus"} : Transport!Perform(k, r)
    BY DEF Bridge
  <1>2. Transport!TypeOK /\ "Bridges" \in Calls /\ Mechanisms \subseteq Calls /\ k \in Calls
    BY MechanismsAssumption DEF Inv, TypeOK
  <1>3. /\ answer' = answer
        /\ answer[k] \notin {"unsent", "killed"}
        /\ ran[k] = "no"
        /\ ran' = [ran EXCEPT ![k] = r]
        /\ UNCHANGED <<forced, advertised, esc, rest>>
    BY <1>1 DEF Transport!Perform, Bridge, escVars
  <1>4. ran'[k] = r /\ \A m \in Calls : m = k \/ ran'[m] = ran[m]
    BY <1>2, <1>3 DEF Transport!TypeOK
  <1>5. \A m \in Calls : ran[m] # "no" => ran'[m] = ran[m]
    BY <1>3, <1>4
  <1>6. Transport!TypeOK'
    BY <1>2, <1>3 DEF Transport!TypeOK, Transport!Performed
  <1>7. TypeOK'
    BY <1>3, <1>6 DEF Inv, TypeOK
  <1>8. CallsAgree'
    <2>1. ASSUME NEW m \in Mechanisms
          PROVE  /\ ran'[m] # "no" => answer'[m] \notin {"unsent", "killed"}
                 /\ answer'[m] \in {"ok", "Dbus"} => ran'[m] = answer'[m]
      <3>1. m \in Calls
        BY <1>2
      <3>2. ran'[m] # "no" => answer'[m] \notin {"unsent", "killed"}
        BY <1>3, <1>4, <3>1 DEF Inv, CallsAgree
      <3>3. answer[m] \in {"ok", "Dbus"} => ran[m] = answer[m]
        BY DEF Inv, CallsAgree
      <3> QED
        BY <1>3, <1>5, <3>1, <3>2, <3>3
    <2> QED
      BY <2>1 DEF CallsAgree
  <1>9. OneInHand'
    BY <1>3 DEF Inv, OneInHand
  <1>10. Consent'
    BY <1>3 DEF Inv, Consent, Permitted, Advertised
  <1>11. PassedRefused'
    <2>1. SUFFICES ASSUME forced = "", esc \in {"choosing", "starting", "escalated"} PROVE PassedRefused'
      BY <1>3 DEF PassedRefused
    <2>2. /\ Len(rest) <= Len(advertised)
          /\ \A i \in 1..Len(rest) : rest[i] = advertised[Dealt + i]
          /\ \A j \in 1..Dealt : advertised[j] \in Safe => ran[advertised[j]] = "Dbus"
      BY <2>1 DEF Inv, PassedRefused
    <2>3. Dealt' = Dealt
      BY <1>3 DEF Dealt
    <2>4. ASSUME NEW j \in 1..Dealt, advertised[j] \in Safe PROVE ran'[advertised[j]] = "Dbus"
      <3>1. advertised[j] \in Calls /\ ran[advertised[j]] = "Dbus"
        BY <1>2, <2>2, <2>4, MechanismsAssumption
      <3> QED
        BY <1>5, <3>1
    <2> QED
      BY <1>3, <2>2, <2>3, <2>4 DEF PassedRefused
  <1>12. InHand'
    <2>1. ASSUME esc = "escalated" PROVE rest # <<>> /\ ran'[Head(rest)] = "ok"
      <3>1. rest # <<>> /\ ran[Head(rest)] = "ok"
        BY <2>1 DEF Inv, InHand
      <3>2. Head(rest) \in Calls
        BY <1>2, <3>1, RestParts DEF Inv, TypeOK
      <3> QED
        BY <1>5, <3>1, <3>2
    <2> QED
      BY <1>3, <2>1 DEF Inv, InHand
  <1> QED
    BY <1>7, <1>8, <1>9, <1>10, <1>11, <1>12 DEF Inv

LEMMA InvStep == Inv /\ [Next]_vars => Inv'
  <1> SUFFICES ASSUME Inv, [Next]_vars PROVE Inv'
    OBVIOUS
  <1>1. CASE Escalate
    BY <1>1, EscalateKeeps
  <1>2. CASE Listed
    BY <1>2, ListedKeeps
  <1>3. CASE Choose
    BY <1>3, ChooseKeeps
  <1>4. CASE Started
    BY <1>4, StartedKeeps
  <1>5. CASE Broken
    BY <1>5, BrokenKeeps
  <1>6. CASE Bridge
    BY <1>6, BridgeKeeps
  <1>7. CASE UNCHANGED vars
    <2>1. UNCHANGED <<ran, answer, forced, advertised, esc, rest>>
      BY <1>7 DEF vars, escVars
    <2> QED
      BY <2>1 DEF Inv, TypeOK, Transport!TypeOK, CallsAgree, OneInHand, Consent, Permitted,
                  Advertised, PassedRefused, Dealt, InHand
  <1> QED
    BY <1>1, <1>2, <1>3, <1>4, <1>5, <1>6, <1>7 DEF Next, Client, Over

LEMMA Invariance == Spec => []Inv
  <1> QED
    BY InvInit, InvStep, PTL DEF Spec
-----------------------------------------------------------------------------
(* What the invariant says. *)

\* A root peer that is there, or can still come up, is the mechanism in hand.
LEMMA PeerInHand ==
  ASSUME Inv, NEW m \in RootPeers
  PROVE  m \in Mechanisms /\ rest # <<>> /\ m = Head(rest) /\ answer[m] # "unsent"
  <1>1. m \in Mechanisms /\ ran[m] = "ok"
    BY DEF RootPeers
  <1>2. answer[m] \notin {"unsent", "Dbus"}
    BY <1>1 DEF Inv, CallsAgree
  <1> QED
    BY <1>1, <1>2 DEF Inv, OneInHand

\* Every reachable state of the escalation is type correct.
THEOREM TypeCorrect == Spec => []TypeOK
  <1>1. Inv => TypeOK
    BY DEF Inv
  <1> QED
    BY <1>1, Invariance, PTL

\* escalate() never brings up a root peer by a mechanism that is not safe, that the
\* bridge did not list, or that FEZ_ESCALATION does not allow.
THEOREM ConsentKept == Spec => []RootByConsent
  <1>1. ASSUME Inv PROVE RootByConsent
    <2>1. ASSUME NEW m \in RootPeers
          PROVE  m \in Safe /\ Advertised(m) /\ forced \in {"", m}
      <3>1. m \in Mechanisms /\ answer[m] # "unsent"
        BY <1>1, PeerInHand
      <3> QED
        BY <1>1, <3>1 DEF Inv, Consent, Permitted
    <2> QED
      BY <2>1 DEF RootByConsent
  <1> QED
    BY <1>1, Invariance, PTL

\* However late the start of a mechanism succeeds, fez has at most one root peer.
THEOREM PeerIsOne == Spec => []OneRootPeer
  <1>1. ASSUME Inv PROVE OneRootPeer
    <2>1. RootPeers \subseteq {Head(rest)}
      BY <1>1, PeerInHand
    <2>2. IsFiniteSet({Head(rest)}) /\ Cardinality({Head(rest)}) = 1
      BY FS_Singleton
    <2>3. Cardinality(RootPeers) <= Cardinality({Head(rest)})
      BY <2>1, <2>2, FS_Subset
    <2> QED
      BY <2>2, <2>3 DEF OneRootPeer
  <1> QED
    BY <1>1, Invariance, PTL

\* An escalation that succeeded has the first safe mechanism of the bridge's list that
\* did not refuse, or the one FEZ_ESCALATION names.
THEOREM PeerIsBest == Spec => []BestPeer
  <1>1. ASSUME Inv, esc = "escalated"
        PROVE  \E i \in DOMAIN advertised :
                 /\ advertised[i] \in RootPeers
                 /\ forced = "" => \A j \in 1..(i - 1) :
                                     advertised[j] \in Safe => ran[advertised[j]] = "Dbus"
    <2>1. rest # <<>> /\ ran[Head(rest)] = "ok"
      BY <1>1 DEF Inv, InHand
    <2>2. rest \in Seq(Mechanisms) /\ advertised \in Seq(Mechanisms)
      BY <1>1, MechanismsAssumption DEF Inv, TypeOK
    <2>3. Head(rest) \in Mechanisms /\ Head(rest) = rest[1] /\ Len(rest) \in Nat \ {0}
      BY <2>1, <2>2, RestParts
    <2>4. Head(rest) \in RootPeers
      BY <2>1, <2>3 DEF RootPeers
    <2>5. DOMAIN advertised = 1..Len(advertised) /\ Len(advertised) \in Nat
      BY <2>2
    <2>6. CASE forced = ""
      <3>1. /\ Len(rest) <= Len(advertised)
            /\ \A i \in 1..Len(rest) : rest[i] = advertised[Dealt + i]
            /\ \A j \in 1..Dealt : advertised[j] \in Safe => ran[advertised[j]] = "Dbus"
        BY <1>1, <2>6 DEF Inv, PassedRefused
      <3>2. Dealt \in Nat /\ Dealt + 1 \in 1..Len(advertised) /\ (Dealt + 1) - 1 = Dealt
        BY <2>3, <2>5, <3>1 DEF Dealt
      <3>3. advertised[Dealt + 1] = Head(rest)
        BY <2>3, <3>1
      <3> QED
        BY <2>4, <2>5, <3>1, <3>2, <3>3
    <2>7. CASE forced # ""
      <3>1. Advertised(Head(rest))
        <4>1. 1 \in 1..Len(rest)
          BY <2>3
        <4>2. Permitted(rest[1])
          BY <1>1, <4>1 DEF Inv, Consent
        <4> QED
          BY <2>3, <4>2 DEF Permitted
      <3> QED
        BY <2>4, <2>7, <3>1 DEF Advertised
    <2> QED
      BY <2>6, <2>7
  <1>2. Inv => BestPeer
    BY <1>1 DEF BestPeer
  <1> QED
    BY <1>2, Invariance, PTL

\* After access-denied every mechanism that was asked has refused: none comes up late.
THEOREM DenialIsFinal == Spec => []DeniedIsFinal
  <1>1. ASSUME Inv, esc = "denied", NEW m \in Mechanisms PROVE answer[m] \in {"unsent", "Dbus"}
    BY <1>1 DEF Inv, OneInHand
  <1>2. Inv => DeniedIsFinal
    BY <1>1 DEF DeniedIsFinal
  <1> QED
    BY <1>2, Invariance, PTL
=============================================================================
