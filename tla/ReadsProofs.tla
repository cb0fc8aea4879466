---------------------------- MODULE ReadsProofs ----------------------------
(***************************************************************************)
(* Theorems about the read commands Dispatch runs, for all arguments, all  *)
(* sets of services present, however often objects come and go, and        *)
(* whenever services leave.                                                *)
(*                                                                         *)
(* What is proved holds of every program that ProgramsFit describes; TLC   *)
(* decides that the table of programs does, and the proofs never look at   *)
(* the table itself.  The argument follows an object: it is listed, picked *)
(* and asked about, and is then shown, or there is a reason it is not.     *)
(***************************************************************************)
EXTENDS DispatchProofs, FiniteSetTheorems

Reading == stage \in {"ask", "wait", "row"} /\ phase = "each"

\* What the host is and was.
Hosted ==
  /\ q \in Queries
  /\ q.start <= newest
  /\ \A i \in 1..(prog - 1) : RD!Absent(RD!Programs[q.name][i])

\* Where the command can stand.
Placed ==
  /\ stage = "connect" => phase = "first" /\ pos = 1 /\ left = {}
  /\ stage \in {"pick", "row"} => phase = "each"
  /\ phase = "close" => stage \in {"ask", "wait", "over"} /\ verdict \in RD!Exits
  /\ phase = "first" => rows = {}
  /\ phase = "first" /\ stage \in {"ask", "wait"} => pos <= Len(RD!P.first)
  /\ phase = "each" /\ stage \in {"ask", "wait"} => pos <= Len(RD!P.each)
  /\ stage = "row" => pos <= Len(RD!P.each) \/ pos = 1
  /\ Reading => cur \in RD!Objects
  /\ stage # "over" => exit = "none"
  /\ stage # "over" /\ phase # "close" => shown = RD!Blank

\* A reply says what was so when it was made, and is still so, or worse.
Replied ==
  /\ reply.is \in {"none", "ok"} \cup RD!Troubles
  /\ reply.seen \subseteq 1..newest
  /\ stage # "wait" => reply = RD!NoReply
  /\ reply.is = "ok" /\ phase = "first" /\ pos = RD!P.lists /\ ~RD!Bounded => RD!Always \subseteq reply.seen
  /\ reply.is = "ok" /\ phase = "each" /\ RD!Here.on = "object" => cur \in 1..newest
  /\ reply.is = "NoService" => RD!Absent(RD!P)
  /\ reply.is = "NoChannel" => RD!Absent(RD!P) \/ RD!P.service \in RD!Streams
  /\ reply.is = "NoObject" => phase = "each" /\ (RD!Here.on = "object" => cur \notin RD!Always)
  /\ reply.is = "NoInterface" => phase = "each" /\ (RD!Here.on = "ref" \/ (RD!Here.on = "object" /\ ~RD!Has(cur, RD!Here)))

\* The object at hand has been looked at.
Passed == RD!P.sieve < pos \/ (stage = "row" /\ RD!P.sieve <= Len(RD!P.each))

Known == IF RD!P.named THEN {RD!Named} ELSE 1..newest

\* What is kept was there and, once that is looked at, asked for.
Kept ==
  /\ left \subseteq Known
  /\ rows \subseteq Known \cap 1..newest
  /\ Reading => cur \in Known
  /\ Reading /\ (pos > 1 \/ stage = "row") => cur \in 1..newest
  /\ RD!P.filters =>
       /\ rows \subseteq q.wanted
       /\ RD!P.sieve = 0 => left \subseteq q.wanted
       /\ Reading /\ Passed => cur \in q.wanted

\* An object that was there all the time and is asked for is not lost.
Accounted(o) ==
  \/ o \in left \cup rows
  \/ RD!Excused(o)
  \/ Reading /\ o = cur
  \/ RD!P.until /\ (rows # {} \/ (Reading /\ Passed))
  \/ "Odd" \in met
  \/ RD!P.bytes /\ q.bytes = "base64"

Listing ==
  /\ stage # "over"
  /\ RD!P.lists # 0
  /\ ~RD!Bounded
  /\ phase = "each" \/ (phase = "first" /\ pos > RD!P.lists)

Complete == Listing => \A o \in RD!Always \cap RD!Goal : Accounted(o)

\* What may be said of an outcome.
Sound(how) ==
  /\ how = "ok" =>
       /\ rows \subseteq RD!Goal \cap 1..newest
       /\ RD!P.must => rows # {}
       /\ RD!P.lists # 0 /\ ~RD!P.until /\ ~RD!Bounded /\ "Odd" \notin met =>
            \A o \in RD!Always \cap RD!Goal : o \in rows \/ RD!Excused(o)
       /\ RD!P.pages = "rows" => shown = RD!Page /\ RD!Start <= RD!Stop
  /\ how = "panic" /\ RD!P.pages = "rows" => RD!Stop < RD!Start
  /\ how = "NotFound" =>
       \/ "Odd" \in met
       \/ RD!P.bytes /\ q.bytes = "base64"
       \/ RD!P.named /\ RD!Named \notin RD!Always
       \/ RD!P.must /\ \A o \in RD!Always \cap RD!Goal : RD!Excused(o)
  /\ how = "DependencyMissing" =>
       \A i \in DOMAIN RD!Programs[q.name] : RD!Absent(RD!Programs[q.name][i])
  /\ how = "Dbus" =>
       \/ met \cap {"Refused", "NoMethod", "Odd"} # {}
       \/ RD!Absent(RD!P) /\ RD!P.errors["NoService"] = "Dbus"
       \/ "NoObject" \in met /\ q.name \notin RD!LinkCommands
       \/ "NoInterface" \in met /\ RD!Strays

Concluded ==
  /\ stage = "over" => Sound(exit)
  /\ phase = "close" => Sound(verdict)

ReadInv == RD!TypeOK /\ Hosted /\ Placed /\ Replied /\ Kept /\ Complete /\ Concluded
-----------------------------------------------------------------------------
(* The table of programs. *)

LEMMA Fit ==
  ASSUME RD!TypeOK
  PROVE  /\ prog \in 1..Len(RD!Programs[q.name])
         /\ DOMAIN RD!Programs[q.name] = 1..Len(RD!Programs[q.name])
         /\ Len(RD!Programs[q.name]) \in Nat
         /\ RD!Fits(q.name, RD!P, prog = Len(RD!Programs[q.name]))
  BY ProgramsAssumption DEF RD!TypeOK, RD!ProgramsFit, RD!P

\* The numbers of a program.
LEMMA Shape ==
  ASSUME RD!TypeOK
  PROVE  /\ Len(RD!P.first) \in 0..7 /\ Len(RD!P.each) \in 0..7
         /\ DOMAIN RD!P.each = 1..Len(RD!P.each) /\ (Len(RD!P.each) = 0 <=> RD!P.each = <<>>)
         /\ RD!P.bad \in {"skip", "Malformed"}
         /\ RD!P.sieve \in 0..(Len(RD!P.each) + 1)
         /\ RD!P.lists \in 0..Len(RD!P.first)
         /\ RD!P.must => RD!P.lists # 0 /\ RD!P.pages = "no"
         /\ RD!P.bytes => RD!P.until
         /\ ~RD!P.named => Len(RD!P.first) > 0
         /\ RD!P.named => /\ Len(RD!P.first) = 0 /\ Len(RD!P.each) > 0 /\ RD!P.lists = 0
                          /\ ~RD!P.filters /\ RD!P.each[1].on = "object"
                          /\ \A t \in RD!Troubles : RD!Handling(RD!P, RD!P.each[1], t) \notin RD!Effects
  BY Fit DEF RD!Fits, RD!NamedFits

\* While a command runs, its program stays.
LEMMA Same ==
  ASSUME q' = q, prog' = prog
  PROVE  /\ RD!P' = RD!P
         /\ RD!Bounded' <=> RD!Bounded
         /\ RD!Goal' = RD!Goal
         /\ RD!RowNeeds' = RD!RowNeeds
         /\ RD!Strays' <=> RD!Strays
         /\ \A o : RD!Excused(o)' <=> RD!Excused(o)
         /\ \A o : RD!Accepts(o)' <=> RD!Accepts(o)
  <1>1. RD!P' = RD!P
    BY DEF RD!P
  <1>2. RD!Bounded' <=> RD!Bounded
    BY <1>1 DEF RD!Bounded
  <1>3. RD!Goal' = RD!Goal
    BY <1>1 DEF RD!Goal
  <1>4. \A o : RD!Excused(o)' <=> RD!Excused(o)
    BY <1>1 DEF RD!Excused, RD!Has, RD!RowNeeds
  <1>5. \A o : RD!Accepts(o)' <=> RD!Accepts(o)
    BY <1>1 DEF RD!Accepts
  <1>6. RD!Strays' <=> RD!Strays
    BY <1>1 DEF RD!Strays
  <1>7. RD!RowNeeds' = RD!RowNeeds
    BY <1>1 DEF RD!RowNeeds
  <1> QED
    BY <1>1, <1>2, <1>3, <1>4, <1>5, <1>6, <1>7

\* The trouble of a listing.
LEMMA ListingTrouble ==
  ASSUME RD!TypeOK, Placed, stage = "wait", phase = "first", NEW t \in RD!Troubles
  PROVE  /\ RD!Outcome(t) \in (RD!Reported \ {"NotFound"}) \cup (RD!Effects \ {"skip"})
         /\ RD!Outcome(t) \in {"empty", "without"} => t = "Odd"
  <1>1. pos \in 1..Len(RD!P.first) /\ RD!Here = RD!P.first[pos]
    BY Shape DEF RD!TypeOK, Placed, RD!Here
  <1>2. RD!ListingFits(RD!P, RD!Here)
    BY <1>1, Fit DEF RD!Fits
  <1> QED
    BY <1>2 DEF RD!ListingFits, RD!Outcome

\* The trouble of an object.
LEMMA ObjectTrouble ==
  ASSUME RD!TypeOK, Placed, stage = "wait", phase = "each", NEW t \in RD!Troubles
  PROVE  /\ pos \in 1..Len(RD!P.each) /\ RD!Here = RD!P.each[pos]
         /\ RD!Outcome(t) \in RD!Reported \cup RD!Effects
         /\ RD!Outcome(t) = "skip" =>
              /\ ~RD!P.until
              /\ t \in DOMAIN RD!Here.but /\ RD!Here.but[t] = "skip"
              /\ t \in {"NoInterface", "NoObject"} /\ RD!Here.on = "object"
         /\ RD!Outcome(t) = "NotFound" => t = "NoObject" /\ RD!P.named /\ RD!Here.on = "object"
         /\ RD!Outcome(t) = "Dbus" =>
              /\ t = "NoObject" => q.name \notin RD!LinkCommands
              /\ t = "NoInterface" =>
                   IF RD!Here.on = "ref" THEN t \notin DOMAIN RD!Here.but ELSE RD!Here.needs = "nothing"
         /\ RD!P.named /\ pos = 1 => RD!Outcome(t) \notin RD!Effects
  <1>1. pos \in 1..Len(RD!P.each) /\ RD!Here = RD!P.each[pos]
    BY Shape DEF RD!TypeOK, Placed, RD!Here
  <1>2. RD!ObjectFits(q.name, RD!P, RD!Here)
    BY <1>1, Fit DEF RD!Fits
  <1>3. RD!P.named /\ pos = 1 => RD!Outcome(t) \notin RD!Effects
    BY <1>1, Shape DEF RD!Outcome
  <1> QED
    BY <1>1, <1>2, <1>3 DEF RD!ObjectFits, RD!Outcome, RD!Handling

\* The errors of any call.
LEMMA AnyTrouble ==
  ASSUME RD!TypeOK, Placed, stage = "wait", phase # "close", NEW t \in RD!Troubles
  PROVE  /\ RD!Outcome(t) \in {"fallback", "DependencyMissing"} =>
              /\ t \in {"NoService", "NoChannel"}
              /\ RD!P.service \notin RD!Built
              /\ (prog = Len(RD!Programs[q.name])) <=> RD!Outcome(t) = "DependencyMissing"
         /\ RD!Outcome(t) = "Dbus" =>
              /\ t \notin {"NoChannel", "Denied"}
              /\ t = "NoService" => RD!P.errors["NoService"] = "Dbus"
         /\ RD!Outcome(t) \in RD!Reported \cup RD!Effects
         /\ phase = "first" => RD!Outcome(t) \in (RD!Reported \ {"NotFound"})\cup (RD!Effects \ {"skip"})
  <1> DEFINE last == prog = Len(RD!Programs[q.name])
  <1>1. \/ phase = "first" /\ pos \in 1..Len(RD!P.first) /\ RD!Here = RD!P.first[pos]
        \/ phase = "each" /\ pos \in 1..Len(RD!P.each) /\ RD!Here = RD!P.each[pos]
    BY Shape DEF RD!TypeOK, Placed, RD!Here
  <1>2. RD!HandlesAbsence(RD!P, last, RD!Here) /\ RD!HandlesDbus(RD!P, RD!Here)
    BY <1>1, Fit DEF RD!Fits
  <1>3. RD!Outcome(t) \in RD!Reported \cup RD!Effects
    BY <1>1, ListingTrouble, ObjectTrouble
  <1>4. phase = "first" => RD!Outcome(t) \in (RD!Reported \ {"NotFound"}) \cup (RD!Effects \ {"skip"})
    BY ListingTrouble
  <1> QED
    BY <1>2, <1>3, <1>4 DEF RD!HandlesAbsence, RD!HandlesDbus, RD!Outcome
-----------------------------------------------------------------------------
(* How a command goes on and how it ends. *)

LEMMA SameSound ==
  ASSUME NEW how, Sound(how),
         UNCHANGED <<q, prog, present, alive, newest, rows, shown, met>>
  PROVE  Sound(how)'
  BY Same DEF Sound, RD!Always, RD!Page, RD!Start, RD!Stop, RD!Rank, RD!Least, RD!Absent

LEMMA SameVerdict ==
  ASSUME ReadInv, phase = "close",
         UNCHANGED <<q, prog, present, alive, newest, rows, shown, met, verdict>>
  PROVE  Sound(verdict)'
  <1>1. PICK how : how = verdict
    OBVIOUS
  <1>2. Sound(how)'
    BY <1>1, SameSound DEF ReadInv, Concluded
  <1> QED
    BY <1>1, <1>2 DEF Sound

\* The outcome is settled, with a session to be closed first or without.
LEMMA Ending ==
  ASSUME ReadInv, NEW how, how \in RD!Exits,
         UNCHANGED <<q, present, alive, newest, prog, pos, cur, rows>>,
         left' \subseteq left, shown'.rows \subseteq rows, met' \subseteq RD!Troubles, reply' = RD!NoReply,
         Sound(how)', phase = "close" => Sound(verdict)',
         \/ RD!End(how)
         \/ phase' = "close" /\ stage' = "ask" /\ verdict' = how /\ exit' = exit /\ stage # "over"
  PROVE  ReadInv'
  <1>1. /\ stage' \in {"over", "ask"}
        /\ stage' = "over" => exit' = how /\ phase' = phase /\ verdict' = verdict
        /\ stage' = "ask" => phase' = "close" /\ verdict' = how /\ exit' = "none"
    BY DEF RD!End, ReadInv, Placed
  <1>2. RD!TypeOK'
    BY <1>1 DEF ReadInv, RD!TypeOK, RD!Exits
  <1>3. Hosted'
    BY Same DEF ReadInv, Hosted, RD!Absent
  <1>4. Placed'
    BY <1>1, Same DEF ReadInv, Placed, Reading
  <1>5. Replied'
    BY <1>1 DEF Replied, RD!NoReply, RD!Troubles
  <1>6. Kept'
    BY <1>1, Same DEF ReadInv, Kept, Known, Reading
  <1>7. Complete'
    BY <1>1, Same DEF ReadInv, Complete, Listing
  <1>8. Concluded'
    BY <1>1 DEF Concluded
  <1> QED
    BY <1>2, <1>3, <1>4, <1>5, <1>6, <1>7, <1>8 DEF ReadInv

LEMMA NextCall ==
  ASSUME NEW i \in 1..7, NEW n \in 0..7, NEW j, j \in {1, i} \/ (i < n /\ j = i + 1)
  PROVE  j \in 1..7
  OBVIOUS

\* A call is dealt with, and the command goes on.
LEMMA Proceeding ==
  ASSUME ReadInv, phase # "close", stage \in {"ask", "wait"},
         NEW seen, seen \subseteq 1..newest, RD!Proceed(seen), reply' = RD!NoReply,
         UNCHANGED <<q, present, alive, newest, prog, cur, rows, shown>>,
         met \subseteq met', met' \subseteq RD!Troubles,
         phase = "first" /\ pos = RD!P.lists /\ ~RD!Bounded => RD!Always \subseteq seen \/ "Odd" \in met',
         phase = "each" /\ RD!P.named /\ pos = 1 => cur \in 1..newest
  PROVE  ReadInv'
  <1>1. /\ exit' = exit /\ verdict' = verdict /\ phase' \in {"first", "each"}
        /\ stage' \in {"ask", "pick", "row"}
    BY DEF RD!Proceed, RD!GoTo
  <1>a. /\ RD!TypeOK /\ Hosted /\ Placed /\ Replied /\ Kept /\ Complete
        /\ phase \in {"first", "each"}
    BY DEF ReadInv, RD!TypeOK
  <1>2. CASE phase = "first"
    <2> DEFINE new == IF pos = RD!P.lists THEN RD!Listed(seen) ELSE left
    <2>1. /\ left' = new
          /\ \/ pos < Len(RD!P.first) /\ pos' = pos + 1 /\ phase' = "first" /\ stage' = "ask"
             \/ pos >= Len(RD!P.first) /\ pos' = 1 /\ phase' = "each" /\ stage' = "pick"
      BY <1>2, <1>a, Shape DEF RD!Proceed, RD!GoTo, RD!TypeOK
    <2>2. ~RD!P.named /\ pos <= Len(RD!P.first)
      BY <1>2, <1>a, Shape DEF Placed, RD!TypeOK
    <2>3. new \subseteq 1..newest /\ (RD!P.filters /\ RD!P.sieve = 0 => new \subseteq q.wanted)
      BY <1>a, <2>2 DEF RD!Listed, RD!Accepts, Kept, Known
    <2>4. RD!TypeOK'
      <3>a. pos \in 1..7 /\ Len(RD!P.first) \in 0..7
        BY <1>a, Shape DEF RD!TypeOK
      <3>b. pos' \in {1, pos} \/ (pos < Len(RD!P.first) /\ pos' = pos + 1)
        BY <2>1, <2>2, <3>a
      <3>1. pos' \in 1..7
        BY <3>a, <3>b, NextCall, Zenon
      <3>2. left' \cup rows' \subseteq RD!Objects
        BY <1>a, <2>1, <2>3 DEF RD!TypeOK, RD!Objects
      <3> QED
        BY <1>a, <1>1, <2>1, <3>1, <3>2 DEF RD!TypeOK
    <2>5. Hosted'
      BY <1>a, Same DEF Hosted, RD!Absent
    <2>6. Placed'
      BY <1>a, <1>1, <1>2, <2>1, <2>2, Same, Shape DEF Placed, Reading, RD!TypeOK
    <2>7. Replied'
      BY <1>1 DEF Replied, RD!NoReply, RD!Troubles
    <2>8. Kept'
      <3>1. rows' = {} /\ ~Reading'
        BY <1>a, <1>2, <2>1 DEF Placed, Reading
      <3> QED
        BY <1>a, <2>1, <2>2, <2>3, <3>1, Same DEF Kept, Known
    <2>9. Complete'
      <3> SUFFICES ASSUME Listing', NEW o \in RD!Always \cap RD!Goal
                   PROVE  Accounted(o)'
        BY Same DEF Complete, RD!Always
      <3>1. RD!P.lists # 0 /\ ~RD!Bounded /\ RD!P.lists <= pos
        BY <2>1, <2>2, Shape, Same, <1>a DEF Listing, RD!TypeOK
      <3>2. CASE pos = RD!P.lists
        <4>1. o \in seen \/ "Odd" \in met'
          BY <1>2, <3>1, <3>2
        <4>2. o \in seen => o \in new \/ (RD!P.bytes /\ q.bytes = "base64")
          BY <3>2 DEF RD!Listed, RD!Accepts, RD!Goal
        <4> QED
          BY <2>1, <4>1, <4>2, Same DEF Accounted
      <3>3. CASE pos # RD!P.lists
        <4>1. Accounted(o) /\ new = left
          BY <1>a, <1>2, <3>1, <3>3, Shape DEF Complete, Listing, RD!TypeOK
        <4>2. ~Reading /\ ~Reading'
          BY <1>2, <2>1 DEF Reading
        <4> QED
          BY <4>1, <4>2, <2>1, Same DEF Accounted
      <3> QED
        BY <3>2, <3>3
    <2>10. Concluded'
      BY <1>1 DEF Concluded
    <2> QED
      BY <2>4, <2>5, <2>6, <2>7, <2>8, <2>9, <2>10 DEF ReadInv
  <1>3. CASE phase = "each"
    <2> DEFINE rejected == RD!P.filters /\ RD!P.sieve = pos /\ ~RD!Accepts(cur)
               last == pos = Len(RD!P.each)
    <2>1. /\ left' = IF RD!P.until /\ RD!P.sieve = pos /\ ~rejected THEN {} ELSE left
          /\ pos' = IF rejected \/ last THEN pos ELSE pos + 1
          /\ stage' = IF rejected THEN "pick" ELSE IF last THEN "row" ELSE "ask"
          /\ phase' = "each"
      BY <1>3 DEF RD!Proceed, RD!GoTo
    <2>2. /\ Reading /\ pos \in 1..Len(RD!P.each) /\ cur \in RD!Objects /\ cur \in Known
          /\ Passed => RD!P.sieve < pos
      BY <1>3, <1>a DEF Placed, RD!TypeOK, Reading, Kept, Passed
    <2>3. cur \in 1..newest
      BY <2>2, <1>a, <1>3 DEF Kept, Known, RD!TypeOK
    <2>4. RD!TypeOK'
      <3>a. pos \in 1..7 /\ Len(RD!P.each) \in 0..7
        BY <1>a, Shape DEF RD!TypeOK
      <3>b. pos' \in {1, pos} \/ (pos < Len(RD!P.each) /\ pos' = pos + 1)
        BY <2>1, <2>2, <3>a
      <3>1. pos' \in 1..7
        BY <3>a, <3>b, NextCall, Zenon
      <3>2. left' \cup rows' \subseteq RD!Objects
        BY <1>a, <2>1 DEF RD!TypeOK
      <3> QED
        BY <1>a, <1>1, <2>1, <3>1, <3>2 DEF RD!TypeOK
    <2>5. Hosted'
      BY <1>a, Same DEF Hosted, RD!Absent
    <2>6. Placed'
      BY <1>a, <1>1, <1>3, <2>1, <2>2, Same, Shape DEF Placed, Reading, RD!TypeOK
    <2>7. Replied'
      BY <1>1 DEF Replied, RD!NoReply, RD!Troubles
    <2>8. Kept'
      <3>1. left' \subseteq left /\ rows' = rows /\ cur' = cur /\ Known' = Known
        BY <2>1, Same DEF Known
      <3>2. RD!P.filters /\ Reading' /\ Passed' => cur \in q.wanted
        <4> SUFFICES ASSUME RD!P.filters, Reading', Passed'
                     PROVE  cur \in q.wanted
          OBVIOUS
        <4>1. ~rejected
          BY <2>1 DEF Reading
        <4>2. RD!P.sieve <= pos
          BY <1>a, <4>1, <2>1, <2>2, Same, Shape DEF Passed, Reading
        <4>3. RD!P.sieve = pos => cur \in q.wanted
          BY <4>1 DEF RD!Accepts
        <4>4. RD!P.sieve < pos => cur \in q.wanted
          BY <1>a, <2>2 DEF Kept, Passed
        <4> QED
          BY <1>a, <4>2, <4>3, <4>4, <2>2, Shape
      <3> QED
        BY <1>a, <2>2, <2>3, <3>1, <3>2, Same DEF Kept
    <2>9. Complete'
      <3> SUFFICES ASSUME Listing', NEW o \in RD!Always \cap RD!Goal
                   PROVE  Accounted(o)'
        BY Same DEF Complete, RD!Always
      <3>1. Accounted(o)
        BY <1>a, <1>3, Same DEF Complete, Listing
      <3>2. CASE rejected
        <4>1. left' = left /\ ~Passed
          BY <1>a, <2>1, <2>2, <3>2, Shape
        <4>2. o = cur => RD!P.bytes /\ q.bytes = "base64"
          BY <3>2 DEF RD!Accepts, RD!Goal
        <4> QED
          BY <3>1, <4>1, <4>2, Same DEF Accounted
      <3>3. CASE ~rejected
        <4>1. Reading' /\ (Passed => Passed')
          BY <1>a, <2>1, <2>2, <3>3, Same, Shape DEF Reading, Passed
        <4>2. CASE RD!P.until /\ RD!P.sieve = pos
          <5>1. Passed'
            BY <1>a, <2>1, <2>2, <3>3, <4>2, Same, Shape DEF Passed
          <5> QED
            BY <4>1, <4>2, <5>1, Same DEF Accounted
        <4>3. CASE ~(RD!P.until /\ RD!P.sieve = pos)
          BY <2>1, <3>1, <3>3, <4>1, <4>3, Same DEF Accounted
        <4> QED
          BY <4>2, <4>3
      <3> QED
        BY <3>2, <3>3
    <2>10. Concluded'
      BY <1>1 DEF Concluded
    <2> QED
      BY <2>4, <2>5, <2>6, <2>7, <2>8, <2>9, <2>10 DEF ReadInv
  <1> QED
    BY <1>a, <1>2, <1>3
-----------------------------------------------------------------------------
(* The steps of the client. *)

\* An outcome that stands for itself.
LEMMA PlainSound ==
  ASSUME NEW how, how \notin {"ok", "panic", "NotFound", "DependencyMissing", "Dbus"}
  PROVE  Sound(how)'
  BY DEF Sound

LEMMA SettleForms ==
  ASSUME NEW how, RD!Settle(how), ReadInv, stage # "over"
  PROVE  \/ RD!End(how)
         \/ phase' = "close" /\ stage' = "ask" /\ verdict' = how /\ exit' = exit /\ stage # "over"
  BY DEF RD!Settle

LEMMA ValidateRead ==
  ASSUME ReadInv, RD!Validate
  PROVE  ReadInv'
  <1>1. /\ stage = "connect" /\ RD!End("Usage")
        /\ UNCHANGED <<q, present, alive, newest, prog, pos, cur, left, rows, shown, reply, met>>
    BY DEF RD!Validate, RD!hostVars
  <1>2. RD!TypeOK /\ Placed /\ Replied
    BY DEF ReadInv
  <1>3. phase # "close" /\ reply' = RD!NoReply
    BY <1>1, <1>2 DEF Placed, Replied
  <1>4. Sound("Usage")' /\ "Usage" \in RD!Exits /\ met' \subseteq RD!Troubles /\ shown'.rows \subseteq rows
    BY <1>1, <1>2, PlainSound DEF RD!Exits, RD!TypeOK
  <1> QED
    BY <1>1, <1>3, <1>4, Ending

LEMMA ConnectRead ==
  ASSUME ReadInv, RD!Connect
  PROVE  ReadInv'
  <1>1. /\ stage = "connect"
        /\ UNCHANGED <<q, present, alive, newest, prog, pos, cur, rows, shown, reply, met>>
    BY DEF RD!Connect, RD!hostVars
  <1>2. RD!TypeOK /\ Hosted /\ Placed /\ Replied /\ Kept
    BY DEF ReadInv
  <1>3. phase # "close" /\ reply' = RD!NoReply /\ reply = RD!NoReply /\ pos = 1 /\ left = {} /\ rows = {}
    BY <1>1, <1>2 DEF Placed, Replied
  <1>4. CASE \E how \in {"failed", "killed"} : RD!End(how) /\ UNCHANGED left
    <2>1. PICK how \in {"failed", "killed"} : RD!End(how) /\ UNCHANGED left
      BY <1>4
    <2>2. Sound(how)' /\ how \in RD!Exits /\ met' \subseteq RD!Troubles /\ shown'.rows \subseteq rows
      BY <1>1, <1>2, <2>1, PlainSound DEF RD!Exits, RD!TypeOK
    <2> QED
      BY <1>1, <1>3, <2>1, <2>2, Ending
  <1>5. CASE /\ stage' = IF RD!P.named THEN "pick" ELSE "ask"
             /\ phase' = IF RD!P.named THEN "each" ELSE "first"
             /\ left' = IF RD!P.named THEN {RD!Named} ELSE {}
             /\ UNCHANGED <<verdict, exit>>
    <2>1. RD!TypeOK'
      BY <1>1, <1>2, <1>5 DEF RD!TypeOK, RD!Named, RD!Objects
    <2>2. Hosted'
      BY <1>1, <1>2, Same DEF Hosted, RD!Absent
    <2>3. Placed'
      BY <1>1, <1>2, <1>3, <1>5, Same, Shape DEF Placed, Reading
    <2>4. Replied'
      BY <1>3 DEF Replied, RD!NoReply, RD!Troubles
    <2>5. Kept'
      BY <1>1, <1>2, <1>3, <1>5, Same, Shape DEF Kept, Known, Reading
    <2>6. Complete'
      BY <1>1, <1>2, <1>3, <1>5, Same, Shape DEF Complete, Listing
    <2>7. Concluded'
      BY <1>5 DEF Concluded
    <2> QED
      BY <2>1, <2>2, <2>3, <2>4, <2>5, <2>6, <2>7 DEF ReadInv
  <1> QED
    BY <1>4, <1>5 DEF RD!Connect

LEMMA SendRead ==
  ASSUME ReadInv, RD!Send
  PROVE  ReadInv'
  <1>1. /\ stage = "ask" /\ (RD!GoTo("wait") \/ RD!End("killed"))
        /\ UNCHANGED <<q, present, alive, newest, prog, pos, cur, left, rows, shown, reply, met>>
    BY DEF RD!Send, RD!hostVars
  <1>2. RD!TypeOK /\ Hosted /\ Placed /\ Replied /\ Kept /\ Complete /\ Concluded
    BY DEF ReadInv
  <1>3. reply = RD!NoReply
    BY <1>1, <1>2 DEF Replied
  <1>4. CASE RD!End("killed")
    <2>1. Sound("killed")' /\ "killed" \in RD!Exits /\ met' \subseteq RD!Troubles /\ shown'.rows \subseteq rows
      BY <1>1, <1>2, PlainSound DEF RD!Exits, RD!TypeOK
    <2>2. phase # "close" => ReadInv'
      BY <1>1, <1>3, <1>4, <2>1, Ending
    <2>3. phase = "close" => ReadInv'
      BY <1>1, <1>3, <1>4, <2>1, Ending, SameVerdict DEF RD!End
    <2> QED
      BY <2>2, <2>3
  <1>5. CASE RD!GoTo("wait")
    <2>1. stage' = "wait" /\ UNCHANGED <<phase, verdict, exit>>
      BY <1>5 DEF RD!GoTo
    <2>2. RD!TypeOK'
      BY <1>1, <1>2, <2>1 DEF RD!TypeOK
    <2>3. Hosted'
      BY <1>1, <1>2, Same DEF Hosted, RD!Absent
    <2>4. Placed'
      BY <1>1, <1>2, <2>1, Same DEF Placed, Reading
    <2>5. Replied'
      BY <1>1, <1>3 DEF Replied, RD!NoReply, RD!Troubles
    <2>6. Kept'
      BY <1>1, <1>2, <2>1, Same DEF Kept, Known, Reading, Passed
    <2>7. Complete'
      BY <1>1, <1>2, <2>1, Same DEF Complete, Listing, Accounted, Reading, Passed, RD!Always
    <2>8. Concluded'
      BY <1>1, <1>2, <2>1, SameSound DEF Concluded
    <2> QED
      BY <2>2, <2>3, <2>4, <2>5, <2>6, <2>7, <2>8 DEF ReadInv
  <1> QED
    BY <1>1, <1>4, <1>5

LEMMA PassOverRead ==
  ASSUME ReadInv, RD!PassOver
  PROVE  ReadInv'
  <1>1. /\ stage = "ask" /\ RD!NoRef /\ RD!Proceed({})
        /\ UNCHANGED <<q, present, alive, newest, prog, cur, rows, shown, reply, met>>
    BY DEF RD!PassOver, RD!hostVars
  <1>2. RD!TypeOK /\ Placed /\ Replied
    BY DEF ReadInv
  <1>3. phase = "each" /\ RD!Here.on = "ref" /\ reply' = RD!NoReply
    BY <1>1, <1>2 DEF RD!NoRef, Replied
  <1>4. RD!Here = RD!P.each[pos]
    BY <1>3 DEF RD!Here
  <1>5. ~(RD!P.named /\ pos = 1)
    BY <1>2, <1>3, <1>4, Shape
  <1>6. met \subseteq met' /\ met' \subseteq RD!Troubles /\ {} \subseteq 1..newest
    BY <1>1, <1>2 DEF RD!TypeOK
  <1> QED
    BY <1>1, <1>3, <1>5, <1>6, Proceeding

LEMMA AnswerRead ==
  ASSUME ReadInv, RD!Answer
  PROVE  ReadInv'
  <1>1. /\ stage = "wait" /\ phase # "close" /\ reply.is = "ok" /\ reply' = RD!NoReply
        /\ RD!Proceed(reply.seen)
        /\ UNCHANGED <<q, present, alive, newest, prog, cur, rows, shown, met>>
    BY DEF RD!Answer, RD!Got, RD!hostVars
  <1>2. RD!TypeOK /\ Placed /\ Replied
    BY DEF ReadInv
  <1>3. PICK seen : seen = reply.seen
    OBVIOUS
  <1>4. met \subseteq met' /\ met' \subseteq RD!Troubles /\ seen \subseteq 1..newest
    BY <1>1, <1>2, <1>3 DEF RD!TypeOK, Replied
  <1>5. phase = "first" /\ pos = RD!P.lists /\ ~RD!Bounded => RD!Always \subseteq seen
    BY <1>1, <1>2, <1>3 DEF Replied
  <1>6. phase = "each" /\ RD!P.named /\ pos = 1 => cur \in 1..newest
    <2> SUFFICES ASSUME phase = "each", RD!P.named, pos = 1
                 PROVE  cur \in 1..newest
      OBVIOUS
    <2>1. RD!Here = RD!P.each[1]
      BY DEF RD!Here
    <2>2. RD!Here.on = "object"
      BY <1>2, <2>1, Shape
    <2> QED
      BY <1>1, <1>2, <2>2 DEF Replied
  <1> QED
    BY <1>1, <1>3, <1>4, <1>5, <1>6, Proceeding

LEMMA GarbledRead ==
  ASSUME ReadInv, RD!Garbled
  PROVE  ReadInv'
  <1>1. /\ stage = "wait" /\ phase # "close" /\ reply' = RD!NoReply /\ RD!Settle("Malformed")
        /\ UNCHANGED <<q, present, alive, newest, prog, pos, cur, left, rows, shown, met>>
    BY DEF RD!Garbled, RD!Got, RD!hostVars
  <1>2. Sound("Malformed")' /\ "Malformed" \in RD!Exits /\ met' \subseteq RD!Troubles /\ shown'.rows \subseteq rows
    BY <1>1, PlainSound DEF RD!Exits, RD!TypeOK, ReadInv
  <1> QED
    BY <1>1, <1>2, Ending, SettleForms

LEMMA LoseRead ==
  ASSUME ReadInv, RD!Lose \/ RD!Closed
  PROVE  ReadInv'
  <1>1. /\ stage = "wait" /\ reply' = RD!NoReply
        /\ UNCHANGED <<q, present, alive, newest, prog, pos, cur, left, rows, shown, met>>
    BY DEF RD!Lose, RD!Closed, RD!hostVars
  <1>2. met' \subseteq RD!Troubles /\ shown'.rows \subseteq rows
    BY <1>1 DEF RD!TypeOK, ReadInv
  <1>3. CASE phase = "close"
    <2>1. RD!End(verdict)
      BY <1>3 DEF RD!Lose, RD!Closed
    <2>2. PICK how : how = verdict
      OBVIOUS
    <2>3. Sound(how)' /\ Sound(verdict)' /\ how \in RD!Exits
      BY <1>1, <1>3, <2>1, <2>2, SameSound, SameVerdict DEF ReadInv, Concluded, Placed, RD!End
    <2> QED
      BY <1>1, <1>2, <2>1, <2>2, <2>3, Ending
  <1>4. CASE phase # "close"
    <2>1. RD!Settle("failed")
      BY <1>4 DEF RD!Lose, RD!Closed
    <2>2. Sound("failed")' /\ "failed" \in RD!Exits
      BY PlainSound DEF RD!Exits
    <2> QED
      BY <1>1, <1>2, <1>4, <2>1, <2>2, Ending, SettleForms
  <1> QED
    BY <1>3, <1>4

\* What becomes of a trouble.
LEMMA TroubleForms ==
  ASSUME NEW t \in RD!Troubles, RD!Trouble(t)
  PROVE  /\ stage = "wait" /\ phase # "close" /\ reply.is = t /\ reply' = RD!NoReply
         /\ met' = met \cup {t}
         /\ UNCHANGED <<q, present, alive, newest, cur, shown>>
         /\ \/ /\ RD!Outcome(t) = "skip"
               /\ RD!GoTo("pick") /\ UNCHANGED <<prog, pos, left, rows>>
            \/ /\ RD!Outcome(t) \in {"without", "empty"}
               /\ RD!Proceed({}) /\ UNCHANGED <<prog, rows>>
            \/ /\ RD!Outcome(t) = "fallback"
               /\ prog' = prog + 1 /\ phase' = "first" /\ pos' = 1 /\ left' = {} /\ rows' = {}
               /\ stage' = "ask" /\ UNCHANGED <<verdict, exit>>
            \/ /\ RD!Outcome(t) \notin RD!Effects
               /\ RD!Settle(RD!Outcome(t)) /\ UNCHANGED <<prog, pos, left, rows>>
  <1>1. /\ stage = "wait" /\ phase # "close" /\ reply.is = t /\ reply' = RD!NoReply
        /\ met' = met \cup {t}
        /\ UNCHANGED <<q, present, alive, newest, cur, shown>>
        /\ rows' = IF RD!Outcome(t) = "fallback" THEN {} ELSE rows
    BY DEF RD!Trouble, RD!Got, RD!hostVars
  <1>2. CASE RD!Outcome(t) = "skip"
    BY <1>1, <1>2 DEF RD!Trouble
  <1>3. CASE RD!Outcome(t) \in {"without", "empty"}
    BY <1>1, <1>3 DEF RD!Trouble
  <1>4. CASE RD!Outcome(t) = "fallback"
    BY <1>1, <1>4 DEF RD!Trouble
  <1>5. CASE RD!Outcome(t) \notin {"skip", "without", "empty", "fallback"}
    BY <1>1, <1>5 DEF RD!Trouble, RD!Effects
  <1> QED
    BY <1>2, <1>3, <1>4, <1>5

\* An object that is gone, or of another kind than the list is about, is passed over.
LEMMA SkipRead ==
  ASSUME ReadInv, NEW t \in RD!Troubles, RD!Trouble(t), RD!Outcome(t) = "skip"
  PROVE  ReadInv'
  <1>1. /\ stage = "wait" /\ phase # "close" /\ reply.is = t /\ reply' = RD!NoReply
        /\ met' = met \cup {t} /\ stage' = "pick"
        /\ UNCHANGED <<q, present, alive, newest, prog, pos, cur, left, rows, shown, phase, verdict, exit>>
    BY TroubleForms DEF RD!GoTo, RD!Effects
  <1>2. RD!TypeOK /\ Hosted /\ Placed /\ Replied /\ Kept /\ Complete
    BY DEF ReadInv
  <1>3. phase = "each"
    <2>1. phase = "first" => RD!Outcome(t) # "skip"
      BY <1>1, <1>2, ListingTrouble DEF RD!Reported, RD!Exits
    <2> QED
      BY <1>1, <1>2, <2>1 DEF RD!TypeOK
  <1>4. /\ pos \in 1..Len(RD!P.each) /\ RD!Here = RD!P.each[pos] /\ ~RD!P.until
        /\ t \in DOMAIN RD!Here.but /\ RD!Here.but[t] = "skip"
        /\ t \in {"NoInterface", "NoObject"} /\ RD!Here.on = "object"
    BY <1>1, <1>2, <1>3, ObjectTrouble
  <1>5. RD!Excused(cur) \/ cur \notin RD!Always
    <2>1. CASE t = "NoInterface"
      <3>1. ~RD!Has(cur, RD!P.each[pos])
        BY <1>1, <1>2, <1>4, <2>1 DEF Replied
      <3>2. pos \in DOMAIN RD!P.each
        BY <1>2, <1>4, Shape
      <3> QED
        BY <1>4, <2>1, <3>1, <3>2 DEF RD!Excused
    <2>2. CASE t = "NoObject"
      BY <1>1, <1>2, <1>4, <2>2 DEF Replied, RD!Always
    <2> QED
      BY <1>4, <2>1, <2>2
  <1>6. RD!TypeOK'
    BY <1>1, <1>2 DEF RD!TypeOK
  <1>7. Hosted'
    BY <1>1, <1>2, Same DEF Hosted, RD!Absent
  <1>8. Placed'
    BY <1>1, <1>2, <1>3, Same DEF Placed, Reading
  <1>9. Replied'
    BY <1>1 DEF Replied, RD!NoReply, RD!Troubles
  <1>10. Kept'
    BY <1>1, <1>2, Same DEF Kept, Known, Reading
  <1>11. Complete'
    <2> SUFFICES ASSUME Listing', NEW o \in RD!Always \cap RD!Goal
                 PROVE  Accounted(o)'
      BY <1>1, Same DEF Complete, RD!Always
    <2>1. Accounted(o)
      BY <1>1, <1>2, <1>3, Same DEF Complete, Listing
    <2> QED
      BY <1>1, <1>4, <1>5, <2>1, Same DEF Accounted
  <1>12. Concluded'
    BY <1>1 DEF Concluded
  <1> QED
    BY <1>6, <1>7, <1>8, <1>9, <1>10, <1>11, <1>12 DEF ReadInv

\* What cannot be had of an object, or read of a reply, is left out.
LEMMA WithoutRead ==
  ASSUME ReadInv, NEW t \in RD!Troubles, RD!Trouble(t), RD!Outcome(t) \in {"without", "empty"}
  PROVE  ReadInv'
  <1>1. /\ stage = "wait" /\ phase # "close" /\ reply' = RD!NoReply
        /\ met' = met \cup {t} /\ RD!Proceed({})
        /\ UNCHANGED <<q, present, alive, newest, prog, cur, rows, shown>>
    BY TroubleForms DEF RD!Effects
  <1>2. RD!TypeOK /\ Placed
    BY DEF ReadInv
  <1>3. phase = "first" => t = "Odd"
    BY <1>1, <1>2, ListingTrouble
  <1>4. ~(phase = "each" /\ RD!P.named /\ pos = 1)
    BY <1>1, <1>2, ObjectTrouble DEF RD!Effects
  <1>5. met \subseteq met' /\ met' \subseteq RD!Troubles /\ {} \subseteq 1..newest
    BY <1>1, <1>2 DEF RD!TypeOK
  <1> QED
    BY <1>1, <1>3, <1>4, <1>5, Proceeding

LEMMA NextProgram ==
  ASSUME NEW n \in Nat, NEW i \in 1..n, i # n
  PROVE  /\ i + 1 \in 1..n /\ (i + 1) - 1 = i /\ i + 1 # 1
         /\ \A k \in 1..i : k \in 1..(i - 1) \/ k = i
  OBVIOUS

\* The service is absent, and the next one is tried.
LEMMA FallBackRead ==
  ASSUME ReadInv, NEW t \in RD!Troubles, RD!Trouble(t), RD!Outcome(t) = "fallback"
  PROVE  ReadInv'
  <1>1. /\ stage = "wait" /\ phase # "close" /\ reply.is = t /\ reply' = RD!NoReply
        /\ met' = met \cup {t}
        /\ prog' = prog + 1 /\ phase' = "first" /\ pos' = 1 /\ left' = {} /\ rows' = {} /\ stage' = "ask"
        /\ UNCHANGED <<q, present, alive, newest, cur, shown, verdict, exit>>
    BY TroubleForms DEF RD!Effects
  <1>2. RD!TypeOK /\ Hosted /\ Placed /\ Replied
    BY DEF ReadInv
  <1>3. /\ t \in {"NoService", "NoChannel"}
        /\ RD!P.service \notin RD!Built
        /\ prog # Len(RD!Programs[q.name])
    BY <1>1, <1>2, AnyTrouble
  <1>4. RD!Absent(RD!P)
    BY <1>1, <1>2, <1>3 DEF Replied, RD!Built
  <1>5. /\ prog \in 1..Len(RD!Programs[q.name]) /\ Len(RD!Programs[q.name]) \in Nat
        /\ DOMAIN RD!Programs[q.name] = 1..Len(RD!Programs[q.name])
    BY <1>2, Fit
  <1>6. prog' \in 1..Len(RD!Programs[q.name]) /\ prog' - 1 = prog /\ prog' # 1
    BY <1>1, <1>3, <1>5, NextProgram, Zenon
  <1>7. RD!TypeOK'
    <2>1. shown.rows = {} /\ 1 \in 1..7 /\ t \in RD!Troubles
      BY <1>1, <1>2 DEF Placed, RD!Blank
    <2> QED
      BY <1>1, <1>2, <1>5, <1>6, <2>1 DEF RD!TypeOK
  <1>8. Hosted'
    <2>1. \A i \in 1..prog : i \in 1..(prog - 1) \/ i = prog
      BY <1>3, <1>5, NextProgram, Zenon
    <2>2. \A i \in 1..prog : RD!Absent(RD!Programs[q.name][i])
      BY <1>2, <1>4, <2>1 DEF Hosted, RD!P
    <2> QED
      BY <1>1, <1>2, <1>6, <2>2 DEF Hosted, RD!Absent
  <1>9. PICK p : p = RD!Programs[q.name][prog']
    OBVIOUS
  <1>a. p.lists \in Nat /\ 1 <= Len(p.first)
    <2>1. RD!Fits(q.name, p, prog' = Len(RD!Programs[q.name])) /\ ~p.named
      BY <1>2, <1>6, <1>9, ProgramsAssumption DEF RD!ProgramsFit, RD!TypeOK
    <2>2. p.lists \in 0..Len(p.first) /\ Len(p.first) \in 0..7 /\ Len(p.first) > 0
      BY <2>1 DEF RD!Fits
    <2> QED
      BY <2>2
  <1>b. RD!P' = p
    BY <1>1, <1>9 DEF RD!P
  <1>10. Placed'
    BY <1>1, <1>2, <1>a, <1>b DEF Placed, Reading
  <1>11. Replied'
    BY <1>1 DEF Replied, RD!NoReply, RD!Troubles
  <1>12. Kept'
    BY <1>1 DEF Kept, Reading
  <1>13. Complete'
    <2>1. p.lists # 0 => ~(1 > p.lists)
      BY <1>a
    <2>2. ~Listing'
      BY <1>1, <1>b, <2>1 DEF Listing
    <2> QED
      BY <2>2 DEF Complete
  <1>14. Concluded'
    BY <1>1 DEF Concluded
  <1> QED
    BY <1>7, <1>8, <1>10, <1>11, <1>12, <1>13, <1>14 DEF ReadInv

\* The command ends with what the trouble is mapped to.
LEMMA FailRead ==
  ASSUME ReadInv, NEW t \in RD!Troubles, RD!Trouble(t), RD!Outcome(t) \notin RD!Effects
  PROVE  ReadInv'
  <1>1. /\ stage = "wait" /\ phase # "close" /\ reply.is = t /\ reply' = RD!NoReply
        /\ met' = met \cup {t} /\ RD!Settle(RD!Outcome(t))
        /\ UNCHANGED <<q, present, alive, newest, prog, pos, cur, left, rows, shown>>
    BY TroubleForms DEF RD!Effects
  <1>2. RD!TypeOK /\ Hosted /\ Placed /\ Replied /\ Kept
    BY DEF ReadInv
  <1>3. PICK how : how = RD!Outcome(t)
    OBVIOUS
  <1>4. how \in RD!Reported /\ how \in RD!Exits /\ how \notin {"ok", "panic"}
    BY <1>1, <1>2, <1>3, AnyTrouble DEF RD!Reported, RD!Exits
  <1>5. how = "NotFound" => RD!P.named /\ RD!Named \notin RD!Always
    <2> SUFFICES ASSUME how = "NotFound"
                 PROVE  RD!P.named /\ RD!Named \notin RD!Always
      OBVIOUS
    <2>1. phase = "each"
      BY <1>1, <1>2, <1>3, ListingTrouble DEF RD!TypeOK, RD!Effects
    <2>2. t = "NoObject" /\ RD!P.named /\ RD!Here.on = "object"
      BY <1>1, <1>2, <1>3, <2>1, ObjectTrouble
    <2>3. cur = RD!Named
      BY <1>1, <1>2, <2>1, <2>2 DEF Kept, Known, Reading
    <2> QED
      BY <1>1, <1>2, <2>2, <2>3 DEF Replied, RD!Always
  <1>6. how = "DependencyMissing" =>
          \A i \in DOMAIN RD!Programs[q.name] : RD!Absent(RD!Programs[q.name][i])
    <2> SUFFICES ASSUME how = "DependencyMissing"
                 PROVE  \A i \in DOMAIN RD!Programs[q.name] : RD!Absent(RD!Programs[q.name][i])
      OBVIOUS
    <2>1. /\ t \in {"NoService", "NoChannel"}
          /\ RD!P.service \notin RD!Built
          /\ prog = Len(RD!Programs[q.name])
      BY <1>1, <1>2, <1>3, AnyTrouble
    <2>2. RD!Absent(RD!P)
      BY <1>1, <1>2, <2>1 DEF Replied, RD!Built
    <2>3. /\ Len(RD!Programs[q.name]) \in Nat
          /\ DOMAIN RD!Programs[q.name] = 1..Len(RD!Programs[q.name])
      BY <1>2, Fit
    <2>4. \A i \in DOMAIN RD!Programs[q.name] : i \in 1..(prog - 1) \/ i = prog
      BY <2>1, <2>3
    <2> QED
      BY <1>2, <2>2, <2>4 DEF Hosted, RD!P
  <1>7. how = "Dbus" =>
          \/ t \in {"Refused", "NoMethod", "Odd"}
          \/ RD!Absent(RD!P) /\ RD!P.errors["NoService"] = "Dbus"
          \/ t = "NoObject" /\ q.name \notin RD!LinkCommands
          \/ t = "NoInterface" /\ RD!Strays
    <2> SUFFICES ASSUME how = "Dbus", t \notin {"Refused", "NoMethod", "Odd"}
                 PROVE  \/ RD!Absent(RD!P) /\ RD!P.errors["NoService"] = "Dbus"
                        \/ t = "NoObject" /\ q.name \notin RD!LinkCommands
                        \/ t = "NoInterface" /\ RD!Strays
      OBVIOUS
    <2>1. /\ t \in {"NoService", "NoObject", "NoInterface"}
          /\ t = "NoService" => RD!P.errors["NoService"] = "Dbus"
      BY <1>1, <1>2, <1>3, AnyTrouble DEF RD!Troubles
    <2>2. CASE t = "NoService"
      BY <1>1, <1>2, <2>1, <2>2 DEF Replied
    <2>3. CASE t # "NoService"
      <3>1. /\ phase = "each"
            /\ t = "NoInterface" => \/ RD!Here.on = "ref"
                                    \/ RD!Here.on = "object" /\ ~RD!Has(cur, RD!Here)
        BY <1>1, <1>2, <2>1, <2>3 DEF Replied
      <3>2. /\ pos \in 1..Len(RD!P.each) /\ RD!Here = RD!P.each[pos]
            /\ t = "NoObject" => q.name \notin RD!LinkCommands
            /\ t = "NoInterface" =>
                 IF RD!Here.on = "ref" THEN t \notin DOMAIN RD!Here.but ELSE RD!Here.needs = "nothing"
        BY <1>1, <1>2, <1>3, <3>1, ObjectTrouble
      <3>3. t = "NoInterface" => RD!Here.on = "ref"
        BY <3>1, <3>2 DEF RD!Has
      <3>4. pos \in DOMAIN RD!P.each
        BY <1>2, <3>2, Shape
      <3>5. t = "NoInterface" => RD!Strays
        BY <3>2, <3>3, <3>4 DEF RD!Strays
      <3> QED
        BY <2>1, <2>3, <3>2, <3>5
    <2> QED
      BY <2>2, <2>3
  <1>8. Sound(how)'
    BY <1>1, <1>4, <1>5, <1>6, <1>7, Same DEF Sound, RD!Always, RD!Absent
  <1>9. met' \subseteq RD!Troubles /\ shown'.rows \subseteq rows
    BY <1>1, <1>2 DEF RD!TypeOK
  <1>10. RD!Settle(how)
    BY <1>1, <1>3
  <1> QED
    BY <1>1, <1>4, <1>8, <1>9, <1>10, Ending, SettleForms

LEMMA TroubleRead ==
  ASSUME ReadInv, NEW t \in RD!Troubles, RD!Trouble(t)
  PROVE  ReadInv'
  BY SkipRead, WithoutRead, FallBackRead, FailRead DEF RD!Effects

LEMMA PickRead ==
  ASSUME ReadInv, RD!Pick
  PROVE  ReadInv'
  <1>1. PICK o \in left :
          /\ left' = left \ {o}
          /\ IF RD!RowNeeds \cap q.odd[o] = {}
             THEN /\ cur' = o
                  /\ pos' = 1
                  /\ RD!GoTo(IF RD!P.each = <<>> THEN "row" ELSE "ask")
             ELSE /\ UNCHANGED <<cur, pos>>
                  /\ IF RD!P.bad = "skip" \/ RD!P.row \cap q.odd[o] = {}
                     THEN RD!GoTo("pick")
                     ELSE RD!Settle(RD!P.bad)
    BY DEF RD!Pick
  <1>2. /\ stage = "pick"
        /\ UNCHANGED <<q, present, alive, newest, prog, rows, shown, reply, met>>
    BY DEF RD!Pick, RD!hostVars
  <1>3. RD!TypeOK /\ Hosted /\ Placed /\ Replied /\ Kept /\ Complete
    BY DEF ReadInv
  <1>4. /\ phase = "each" /\ ~Reading /\ reply' = RD!NoReply
        /\ o \in RD!Objects /\ o \in Known
    BY <1>2, <1>3 DEF Placed, Replied, Reading, RD!TypeOK, Kept
  <1>5. Hosted'
    BY <1>2, <1>3, Same DEF Hosted, RD!Absent
  <1>6. Replied'
    BY <1>4 DEF Replied, RD!NoReply, RD!Troubles
  <1>7. CASE RD!RowNeeds \cap q.odd[o] = {}
    <2>1. /\ cur' = o /\ pos' = 1 /\ stage' \in {"row", "ask"} /\ UNCHANGED <<phase, verdict, exit>>
          /\ stage' = "ask" => RD!P.each # <<>>
          /\ stage' = "row" => RD!P.each = <<>>
      BY <1>1, <1>7 DEF RD!GoTo
    <2>2. /\ stage' = "ask" => 1 <= Len(RD!P.each)
          /\ stage' = "row" => Len(RD!P.each) = 0
      BY <1>3, <2>1, Shape
    <2>3. RD!P.named => Len(RD!P.each) > 0 /\ RD!P.each # <<>>
      BY <1>3, Shape
    <2>4. RD!TypeOK'
      BY <1>1, <1>2, <1>3, <1>4, <2>1 DEF RD!TypeOK, RD!Objects
    <2>5. Placed'
      BY <1>2, <1>3, <1>4, <2>1, <2>2, Same DEF Placed, Reading
    <2>6. Kept'
      <3>1. /\ left' \subseteq left /\ Known' = Known
            /\ stage' = "row" => o \in 1..newest
        BY <1>1, <1>2, <1>4, <2>1, <2>3, Same DEF Known
      <3>2. RD!P.filters /\ Passed' => o \in q.wanted
        <4>1. Passed' => RD!P.sieve = 0
          BY <1>2, <1>3, <2>1, <2>2, Same, Shape DEF Passed
        <4> QED
          BY <1>1, <1>3, <4>1 DEF Kept
      <3> QED
        BY <1>1, <1>2, <1>3, <1>4, <2>1, <3>1, <3>2, Same DEF Kept
    <2>7. Complete'
      <3> SUFFICES ASSUME Listing', NEW p \in RD!Always \cap RD!Goal
                   PROVE  Accounted(p)'
        BY <1>2, Same DEF Complete, RD!Always
      <3>1. Accounted(p)
        BY <1>2, <1>3, <1>4, Same DEF Complete, Listing
      <3>2. Reading'
        BY <1>4, <2>1 DEF Reading
      <3> QED
        BY <1>1, <1>2, <1>4, <2>1, <3>1, <3>2, Same DEF Accounted
    <2>8. Concluded'
      BY <1>4, <2>1 DEF Concluded
    <2> QED
      BY <1>5, <1>6, <2>4, <2>5, <2>6, <2>7, <2>8 DEF ReadInv
  <1>8. CASE RD!RowNeeds \cap q.odd[o] # {} /\ (RD!P.bad = "skip" \/ RD!P.row \cap q.odd[o] = {})
    <2>1. stage' = "pick" /\ UNCHANGED <<cur, pos, phase, verdict, exit>>
      BY <1>1, <1>8 DEF RD!GoTo
    <2>2. RD!TypeOK'
      BY <1>1, <1>2, <1>3, <2>1 DEF RD!TypeOK
    <2>3. Placed'
      BY <1>2, <1>3, <1>4, <2>1, Same DEF Placed, Reading
    <2>4. Kept'
      BY <1>1, <1>2, <1>3, <2>1, Same DEF Kept, Known, Reading
    <2>5. Complete'
      <3> SUFFICES ASSUME Listing', NEW p \in RD!Always \cap RD!Goal
                   PROVE  Accounted(p)'
        BY <1>2, Same DEF Complete, RD!Always
      <3>1. Accounted(p)
        BY <1>2, <1>3, <1>4, Same DEF Complete, Listing
      <3>2. RD!Excused(o)
        BY <1>8 DEF RD!Excused
      <3> QED
        BY <1>1, <1>2, <1>4, <2>1, <3>1, <3>2, Same DEF Accounted
    <2>6. Concluded'
      BY <1>4, <2>1 DEF Concluded
    <2> QED
      BY <1>5, <1>6, <2>2, <2>3, <2>4, <2>5, <2>6 DEF ReadInv
  <1>9. CASE RD!RowNeeds \cap q.odd[o] # {} /\ ~(RD!P.bad = "skip" \/ RD!P.row \cap q.odd[o] = {})
    <2>1. /\ RD!P.bad = "Malformed" /\ RD!Settle("Malformed") /\ UNCHANGED <<cur, pos>>
          /\ left' \subseteq left /\ phase # "close"
      BY <1>1, <1>3, <1>4, <1>9, Shape
    <2>2. /\ Sound("Malformed")' /\ "Malformed" \in RD!Exits
          /\ met' \subseteq RD!Troubles /\ shown'.rows \subseteq rows
      BY <1>2, <1>3, PlainSound DEF RD!Exits, RD!TypeOK
    <2> QED
      BY <1>2, <1>4, <2>1, <2>2, Ending, SettleForms
  <1> QED
    BY <1>7, <1>8, <1>9

LEMMA RowRead ==
  ASSUME ReadInv, RD!Row
  PROVE  ReadInv'
  <1>1. /\ stage = "row"
        /\ UNCHANGED <<q, present, alive, newest, prog, pos, cur, shown, reply, met>>
        /\ \/ RD!Settle("Malformed") /\ UNCHANGED <<left, rows>>
           \/ /\ RD!GoTo("pick")
              /\ IF RD!P.filters /\ RD!P.sieve > Len(RD!P.each) /\ ~RD!Accepts(cur)
                 THEN UNCHANGED <<left, rows>>
                 ELSE /\ rows' = rows \cup {cur}
                      /\ left' = IF RD!P.until THEN {} ELSE left
    BY DEF RD!Row, RD!hostVars
  <1>2. RD!TypeOK /\ Hosted /\ Placed /\ Replied /\ Kept /\ Complete
    BY DEF ReadInv
  <1>3. /\ phase = "each" /\ Reading /\ reply' = RD!NoReply /\ phase # "close"
        /\ cur \in RD!Objects /\ cur \in Known \cap 1..newest
    BY <1>1, <1>2 DEF Placed, Replied, Reading, Kept
  <1>4. CASE RD!Settle("Malformed") /\ UNCHANGED <<left, rows>>
    <2>1. /\ Sound("Malformed")' /\ "Malformed" \in RD!Exits
          /\ met' \subseteq RD!Troubles /\ shown'.rows \subseteq rows
      BY <1>1, <1>2, PlainSound DEF RD!Exits, RD!TypeOK
    <2> QED
      BY <1>1, <1>3, <1>4, <2>1, Ending, SettleForms
  <1>5. CASE /\ RD!GoTo("pick")
             /\ RD!P.filters /\ RD!P.sieve > Len(RD!P.each) /\ ~RD!Accepts(cur)
             /\ UNCHANGED <<left, rows>>
    <2>1. stage' = "pick" /\ UNCHANGED <<phase, verdict, exit, left, rows>> /\ ~Reading'
      BY <1>5 DEF RD!GoTo, Reading
    <2>2. RD!TypeOK'
      BY <1>1, <1>2, <2>1 DEF RD!TypeOK
    <2>3. Hosted'
      BY <1>1, <1>2, Same DEF Hosted, RD!Absent
    <2>4. Placed'
      BY <1>1, <1>2, <1>3, <2>1, Same DEF Placed
    <2>5. Replied'
      BY <1>3 DEF Replied, RD!NoReply, RD!Troubles
    <2>6. Kept'
      BY <1>1, <1>2, <2>1, Same DEF Kept, Known
    <2>7. Complete'
      <3> SUFFICES ASSUME Listing', NEW o \in RD!Always \cap RD!Goal
                   PROVE  Accounted(o)'
        BY <1>1, Same DEF Complete, RD!Always
      <3>1. Accounted(o)
        BY <1>1, <1>2, <1>3, Same DEF Complete, Listing
      <3>2. ~Passed
        BY <1>1, <1>2, <1>5, Shape DEF Passed, Placed, RD!TypeOK
      <3>3. o = cur => RD!P.bytes /\ q.bytes = "base64"
        BY <1>5 DEF RD!Accepts, RD!Goal
      <3> QED
        BY <1>1, <2>1, <3>1, <3>2, <3>3, Same DEF Accounted
    <2>8. Concluded'
      BY <1>3, <2>1 DEF Concluded
    <2> QED
      BY <2>2, <2>3, <2>4, <2>5, <2>6, <2>7, <2>8 DEF ReadInv
  <1>6. CASE /\ RD!GoTo("pick")
             /\ ~(RD!P.filters /\ RD!P.sieve > Len(RD!P.each) /\ ~RD!Accepts(cur))
             /\ rows' = rows \cup {cur}
             /\ left' = IF RD!P.until THEN {} ELSE left
    <2>1. stage' = "pick" /\ UNCHANGED <<phase, verdict, exit>> /\ ~Reading' /\ left' \subseteq left
      BY <1>6 DEF RD!GoTo, Reading
    <2>2. RD!TypeOK'
      BY <1>1, <1>2, <1>3, <1>6, <2>1 DEF RD!TypeOK
    <2>3. Hosted'
      BY <1>1, <1>2, Same DEF Hosted, RD!Absent
    <2>4. Placed'
      BY <1>1, <1>2, <1>3, <2>1, Same DEF Placed
    <2>5. Replied'
      BY <1>3 DEF Replied, RD!NoReply, RD!Troubles
    <2>6. Kept'
      <3>1. RD!P.filters => cur \in q.wanted
        <4>1. RD!P.sieve \in Nat /\ Len(RD!P.each) \in Nat
          BY <1>2, Shape
        <4>2. CASE RD!P.sieve <= Len(RD!P.each)
          BY <1>1, <1>2, <1>3, <4>2 DEF Kept, Passed
        <4>3. CASE RD!P.sieve > Len(RD!P.each)
          BY <1>6, <4>3 DEF RD!Accepts
        <4> QED
          BY <4>1, <4>2, <4>3
      <3> QED
        BY <1>1, <1>2, <1>3, <1>6, <2>1, <3>1, Same DEF Kept, Known
    <2>7. Complete'
      <3> SUFFICES ASSUME Listing', NEW o \in RD!Always \cap RD!Goal
                   PROVE  Accounted(o)'
        BY <1>1, Same DEF Complete, RD!Always
      <3>1. Accounted(o)
        BY <1>1, <1>2, <1>3, Same DEF Complete, Listing
      <3> QED
        BY <1>1, <1>6, <2>1, <3>1, Same DEF Accounted
    <2>8. Concluded'
      BY <1>3, <2>1 DEF Concluded
    <2> QED
      BY <2>2, <2>3, <2>4, <2>5, <2>6, <2>7, <2>8 DEF ReadInv
  <1> QED
    BY <1>1, <1>4, <1>5, <1>6
-----------------------------------------------------------------------------
(* The view. *)

LEMMA SameCardinality ==
  ASSUME NEW S
  PROVE  RD!Cardinality(S) = Cardinality(S)
  BY DEF RD!Cardinality, Cardinality

One(b) == IF b THEN 1 ELSE 0
Count(S) == One(1 \in S) + One(2 \in S) + One(3 \in S)

LEMMA Counted ==
  ASSUME NEW S, S \subseteq 1..3
  PROVE  Cardinality(S) = Count(S)
  <1> DEFINE A == S \cap {1}
             B == S \cap {1, 2}
  <1>1. IsFiniteSet({}) /\ Cardinality({}) = 0
    BY FS_EmptySet
  <1>2. IsFiniteSet(A) /\ Cardinality(A) = One(1 \in S)
    <2>1. A = IF 1 \in S THEN {} \cup {1} ELSE {}
      OBVIOUS
    <2>2. IsFiniteSet({} \cup {1}) /\ Cardinality({} \cup {1}) = 1
      BY <1>1, FS_AddElement
    <2> QED
      BY <1>1, <2>1, <2>2 DEF One
  <1>3. IsFiniteSet(B) /\ Cardinality(B) = Cardinality(A) + One(2 \in S)
    <2>1. (2 \in S => B = A \cup {2}) /\ (2 \notin S => B = A) /\ 2 \notin A
      OBVIOUS
    <2>2. IsFiniteSet(A \cup {2}) /\ Cardinality(A \cup {2}) = Cardinality(A) + 1
      BY <1>2, <2>1, FS_AddElement
    <2>3. Cardinality(A) \in Int
      BY <1>2 DEF One
    <2> QED
      BY <1>2, <2>1, <2>2, <2>3 DEF One
  <1>4. Cardinality(S) = Cardinality(B) + One(3 \in S)
    <2>1. 1..3 = {1, 2, 3}
      OBVIOUS
    <2>2. S \subseteq {1, 2, 3}
      BY <2>1
    <2>3. 3 \in S => S = B \cup {3}
      BY <2>2
    <2>a. (3 \notin S => S = B) /\ 3 \notin B
      <3>1. 3 \notin S => \A x : x \in S <=> x \in B
        BY <2>2
      <3>2. 3 \notin S => S = B
        BY <3>1
      <3> QED
        BY <3>2
    <2>4. Cardinality(B \cup {3}) = Cardinality(B) + 1
      BY <1>3, <2>a, FS_AddElement
    <2>5. Cardinality(B) \in Int
      BY <1>2, <1>3 DEF One
    <2> HIDE DEF B
    <2>6. CASE 3 \in S
      BY <2>3, <2>4, <2>6 DEF One
    <2>7. CASE 3 \notin S
      BY <2>5, <2>a, <2>7 DEF One
    <2> QED
      BY <2>6, <2>7
  <1> QED
    BY <1>2, <1>3, <1>4 DEF Count

\* A sum of machine words is the sum, unless it has wrapped below both.
LEMMA WordSum ==
  ASSUME NEW w \in Nat \ {0}, NEW a \in Nat, NEW b \in Nat, b < w
  PROVE  /\ (a + b) % w \in Nat
         /\ (a + b) % w >= a => (a + b) % w = a + b
         /\ a + b < w => (a + b) % w = a + b
  OBVIOUS

\* The ends of the slice.
LEMMA SliceEnds ==
  ASSUME RD!TypeOK, q \in Queries
  PROVE  /\ rows \subseteq 1..3 /\ Cardinality(rows) = Count(rows)
         /\ q.offset \in Nat /\ Word \in Nat \ {0}
         /\ q.limit = RD!NoLimit \/ (q.limit \in Nat /\ q.limit < Word)
         /\ RD!Start = IF q.offset < Count(rows) THEN q.offset ELSE Count(rows)
         /\ RD!Stop \in Nat /\ RD!Stop <= Count(rows)
         /\ q.limit = RD!NoLimit => RD!Stop = Count(rows)
         /\ q.limit # RD!NoLimit => RD!Stop = RD!Least((RD!Start + q.limit) % Word, Count(rows))
  <1>1. rows \subseteq 1..3
    BY DEF RD!TypeOK, RD!Objects
  <1>2. /\ Cardinality(rows) = Count(rows) /\ RD!Cardinality(rows) = Count(rows)
        /\ Count(rows) \in 0..3
    <2>1. Cardinality(rows) = Count(rows) /\ RD!Cardinality(rows) = Count(rows)
      BY <1>1, Counted, SameCardinality
    <2>2. Count(rows) \in 0..3
      BY DEF Count, One
    <2> QED
      BY <2>1, <2>2
  <1>3. /\ q.offset \in Nat /\ Word \in Nat \ {0}
        /\ q.limit = RD!NoLimit \/ (q.limit \in Nat /\ q.limit < Word)
    BY ReadsAssumption DEF RD!ReadsParameters, RD!Query, RD!NoLimit
  <1>4. RD!Start = IF q.offset < Count(rows) THEN q.offset ELSE Count(rows)
    BY <1>2 DEF RD!Start, RD!Least
  <1>5. RD!Start \in Nat
    BY <1>2, <1>3, <1>4
  <1>6. CASE q.limit = RD!NoLimit
    BY <1>1, <1>2, <1>3, <1>4, <1>6 DEF RD!Stop
  <1>7. CASE q.limit # RD!NoLimit
    <2>1. RD!Stop = RD!Least((RD!Start + q.limit) % Word, Count(rows))
      BY <1>2, <1>7 DEF RD!Stop
    <2>2. (RD!Start + q.limit) % Word \in Nat
      BY <1>3, <1>5, <1>7, WordSum
    <2>3. RD!Stop \in Nat /\ RD!Stop <= Count(rows)
      BY <1>2, <2>1, <2>2 DEF RD!Least
    <2> QED
      BY <1>1, <1>2, <1>3, <1>4, <1>7, <2>1, <2>3
  <1> QED
    BY <1>6, <1>7

\* The rows shown are rows.
LEMMA FinishForms ==
  ASSUME RD!Finish
  PROVE  /\ stage = "pick" /\ left = {}
         /\ UNCHANGED <<q, present, alive, newest, prog, pos, cur, left, rows, reply, met>>
         /\ \/ RD!P.must /\ rows = {} /\ RD!Settle("NotFound") /\ shown' = shown
            \/ RD!P.pages = "rows" /\ RD!Stop < RD!Start /\ RD!End("panic") /\ shown' = shown
            \/ /\ ~(RD!P.must /\ rows = {}) /\ ~(RD!P.pages = "rows" /\ RD!Stop < RD!Start)
               /\ RD!Settle("ok")
               /\ RD!P.pages = "rows" => shown' = RD!Page
               /\ shown' \in {RD!Page, RD!Oldest, [RD!Blank EXCEPT !.rows = rows]}
  <1>1. /\ stage = "pick" /\ left = {}
        /\ UNCHANGED <<q, present, alive, newest, prog, pos, cur, left, rows, reply, met>>
    BY DEF RD!Finish, RD!hostVars
  <1>2. CASE RD!P.must /\ rows = {}
    BY <1>1, <1>2 DEF RD!Finish
  <1>3. CASE ~(RD!P.must /\ rows = {}) /\ RD!P.pages = "rows" /\ RD!Stop < RD!Start
    BY <1>1, <1>3 DEF RD!Finish
  <1>4. CASE ~(RD!P.must /\ rows = {}) /\ ~(RD!P.pages = "rows" /\ RD!Stop < RD!Start)
    <2>1. /\ RD!Settle("ok")
          /\ shown' = CASE RD!P.pages = "rows" -> RD!Page
                        [] RD!P.pages = "tail" -> RD!Oldest
                        [] OTHER               -> [RD!Blank EXCEPT !.rows = rows]
      BY <1>4 DEF RD!Finish
    <2>2. CASE RD!P.pages = "rows"
      BY <1>1, <1>4, <2>1, <2>2
    <2>3. CASE RD!P.pages = "tail"
      BY <1>1, <1>4, <2>1, <2>3
    <2>4. CASE RD!P.pages \notin {"rows", "tail"}
      BY <1>1, <1>4, <2>1, <2>4
    <2> QED
      BY <2>2, <2>3, <2>4
  <1> QED
    BY <1>2, <1>3, <1>4

LEMMA FinishRead ==
  ASSUME ReadInv, RD!Finish
  PROVE  ReadInv'
  <1>1. /\ stage = "pick" /\ left = {} /\ left' \subseteq left
        /\ UNCHANGED <<q, present, alive, newest, prog, pos, cur, rows, reply, met>>
    BY FinishForms
  <1>2. RD!TypeOK /\ Hosted /\ Placed /\ Replied /\ Kept /\ Complete
    BY DEF ReadInv
  <1>3. /\ phase = "each" /\ phase # "close" /\ ~Reading /\ reply' = RD!NoReply
        /\ met' \subseteq RD!Troubles /\ shown.rows \subseteq rows
    BY <1>1, <1>2 DEF Placed, Reading, Replied, RD!TypeOK
  <1>4. RD!P.lists # 0 /\ ~RD!Bounded => \A o \in RD!Always \cap RD!Goal :
          \/ o \in rows \/ RD!Excused(o) \/ "Odd" \in met
          \/ RD!P.until /\ rows # {}
          \/ RD!P.bytes /\ q.bytes = "base64"
    BY <1>1, <1>2, <1>3 DEF Complete, Listing, Accounted
  <1>5. CASE RD!P.must /\ rows = {} /\ RD!Settle("NotFound") /\ shown' = shown
    <2>1. RD!P.lists # 0 /\ ~RD!Bounded
      BY <1>2, <1>5, Shape DEF RD!Bounded
    <2>2. Sound("NotFound")'
      BY <1>1, <1>4, <1>5, <2>1, Same DEF Sound, RD!Always
    <2>3. shown'.rows \subseteq rows /\ "NotFound" \in RD!Exits
      BY <1>3, <1>5 DEF RD!Exits
    <2> QED
      BY <1>1, <1>3, <1>5, <2>2, <2>3, Ending, SettleForms
  <1>6. CASE RD!P.pages = "rows" /\ RD!Stop < RD!Start /\ RD!End("panic") /\ shown' = shown
    <2>1. Sound("panic")'
      BY <1>1, <1>6, Same DEF Sound, RD!Start, RD!Stop
    <2>2. shown'.rows \subseteq rows /\ "panic" \in RD!Exits
      BY <1>3, <1>6 DEF RD!Exits
    <2> QED
      BY <1>1, <1>3, <1>6, <2>1, <2>2, Ending
  <1>7. CASE /\ ~(RD!P.must /\ rows = {}) /\ ~(RD!P.pages = "rows" /\ RD!Stop < RD!Start)
             /\ RD!Settle("ok")
             /\ RD!P.pages = "rows" => shown' = RD!Page
             /\ shown' \in {RD!Page, RD!Oldest, [RD!Blank EXCEPT !.rows = rows]}
    <2>1. shown'.rows \subseteq rows
      BY <1>7 DEF RD!Page, RD!Oldest, RD!Blank
    <2>2. rows \subseteq RD!Goal \cap 1..newest
      BY <1>2 DEF Kept, RD!Goal, RD!TypeOK
    <2>3. RD!P.lists # 0 /\ ~RD!P.until /\ ~RD!Bounded /\ "Odd" \notin met =>
            \A o \in RD!Always \cap RD!Goal : o \in rows \/ RD!Excused(o)
      BY <1>2, <1>4, Shape
    <2>4. RD!P.pages = "rows" => shown' = RD!Page' /\ RD!Start' <= RD!Stop'
      <3>1. RD!Page' = RD!Page /\ RD!Start' = RD!Start /\ RD!Stop' = RD!Stop
        BY <1>1 DEF RD!Page, RD!Start, RD!Stop
      <3>2. RD!Start \in Nat /\ RD!Stop \in Nat
        <4>1. Count(rows) \in Nat /\ q.offset \in Nat
          BY <1>2, SliceEnds DEF Count, One, Hosted
        <4>2. RD!Start \in Nat
          BY <1>2, <4>1, SliceEnds DEF Hosted
        <4>3. RD!Stop \in Nat
          BY <1>2, SliceEnds DEF Hosted
        <4> QED
          BY <4>2, <4>3
      <3> QED
        BY <1>7, <3>1, <3>2
    <2>5. Sound("ok")'
      BY <1>1, <1>7, <2>2, <2>3, <2>4, Same DEF Sound, RD!Always
    <2>6. "ok" \in RD!Exits
      BY DEF RD!Exits
    <2> QED
      BY <1>1, <1>3, <1>7, <2>1, <2>5, <2>6, Ending, SettleForms
  <1> QED
    BY <1>5, <1>6, <1>7, FinishForms
-----------------------------------------------------------------------------
(* The steps of the host. *)

LEMMA SameHere ==
  ASSUME UNCHANGED <<q, prog, phase, pos>>
  PROVE  RD!Here' = RD!Here
  <1>1. RD!P' = RD!P
    BY DEF RD!P
  <1> QED
    BY <1>1 DEF RD!Here

\* What a call can be answered with.
LEMMA CallAnswers ==
  ASSUME NEW what \in RD!Replies
  PROVE  /\ what \in {"ok"} \cup RD!Troubles
         /\ what = "ok" /\ phase = "each" /\ RD!Here.on = "object" => cur \in alive
         /\ what = "NoService" => RD!Absent(RD!P)
         /\ what = "NoChannel" => RD!Absent(RD!P) \/ RD!P.service \in RD!Streams
         /\ what = "NoObject" => phase = "each" /\ (RD!Here.on = "object" => cur \notin alive)
         /\ what = "NoInterface" =>
              phase = "each" /\ (RD!Here.on = "ref" \/ (RD!Here.on = "object" /\ ~RD!Has(cur, RD!Here)))
  <1> DEFINE atWill == {"NoChannel", "Refused", "NoMethod", "Denied", "Odd"}
  <1>1. /\ RD!AtWill \subseteq atWill
        /\ "NoChannel" \in RD!AtWill => RD!P.service \in RD!Streams
    BY DEF RD!AtWill
  <1>2. CASE RD!Absent(RD!P)
    BY <1>2 DEF RD!Replies, RD!Troubles
  <1>3. CASE ~RD!Absent(RD!P) /\ phase = "each" /\ RD!Here.on = "object" /\ cur \notin alive
    BY <1>3 DEF RD!Replies, RD!Troubles
  <1>4. CASE ~RD!Absent(RD!P) /\ phase = "each" /\ RD!Here.on = "object" /\ cur \in alive
    <2>1. CASE RD!Has(cur, RD!Here)
      BY <1>1, <1>4, <2>1 DEF RD!Replies, RD!Troubles
    <2>2. CASE ~RD!Has(cur, RD!Here)
      BY <1>4, <2>2 DEF RD!Replies, RD!Troubles
    <2> QED
      BY <2>1, <2>2
  <1>5. CASE ~RD!Absent(RD!P) /\ ~(phase = "each" /\ RD!Here.on = "object")
    <2>1. CASE phase = "each" /\ RD!Here.on = "ref"
      BY <1>1, <1>5, <2>1 DEF RD!Replies, RD!Troubles
    <2>2. CASE ~(phase = "each" /\ RD!Here.on = "ref")
      BY <1>1, <1>5, <2>2 DEF RD!Replies, RD!Troubles
    <2> QED
      BY <2>1, <2>2
  <1> QED
    BY <1>2, <1>3, <1>4, <1>5

LEMMA ReplyRead ==
  ASSUME ReadInv, RD!Reply
  PROVE  ReadInv'
  <1>1. PICK what \in RD!Replies :
          reply' = [is |-> what,
                    seen |-> IF what = "ok" /\ phase = "first" /\ pos = RD!P.lists THEN RD!InReply ELSE {}]
    BY DEF RD!Reply
  <1>2. /\ stage = "wait"
        /\ UNCHANGED <<q, present, alive, newest, prog, phase, pos, cur, left, rows, shown, met, verdict,
                      stage, exit>>
    BY DEF RD!Reply, RD!hostVars, RD!progVars
  <1>3. RD!TypeOK /\ Hosted /\ Placed /\ Kept /\ Complete /\ Concluded
    BY DEF ReadInv
  <1>4. RD!TypeOK'
    BY <1>2, <1>3 DEF RD!TypeOK
  <1>5. Hosted'
    BY <1>2, <1>3, Same DEF Hosted, RD!Absent
  <1>6. Placed'
    BY <1>2, <1>3, Same DEF Placed, Reading
  <1>7. Replied'
    <2>1. RD!InReply \subseteq alive /\ (~RD!Bounded => RD!InReply = alive)
      BY DEF RD!InReply, RD!Newest, RD!Bounded
    <2>2. RD!Always' = RD!Always /\ RD!Always \subseteq alive /\ alive \subseteq 1..newest
      BY <1>2, <1>3 DEF RD!Always, RD!TypeOK
    <2>3. RD!Here' = RD!Here /\ RD!P' = RD!P /\ (RD!Bounded' <=> RD!Bounded)
      BY <1>2, SameHere, Same
    <2>4. /\ reply'.is = what
          /\ reply'.seen = IF what = "ok" /\ phase = "first" /\ pos = RD!P.lists THEN RD!InReply ELSE {}
      BY <1>1
    <2>5. reply'.seen \subseteq 1..newest
      BY <2>1, <2>2, <2>4
    <2> QED
      BY <1>2, <2>1, <2>2, <2>3, <2>4, <2>5, CallAnswers DEF Replied, RD!Absent, RD!Has
  <1>8. Kept'
    BY <1>2, <1>3, Same DEF Kept, Known, Reading, Passed
  <1>9. Complete'
    BY <1>2, <1>3, Same DEF Complete, Listing, Accounted, Reading, Passed, RD!Always
  <1>10. Concluded'
    BY <1>2, <1>3, SameVerdict DEF Concluded, ReadInv
  <1> QED
    BY <1>4, <1>5, <1>6, <1>7, <1>8, <1>9, <1>10 DEF ReadInv

\* What comes and goes makes no difference to what was there all the time.
LEMMA MoveRead ==
  ASSUME ReadInv, RD!Appear \/ (\E o \in RD!Objects : RD!Vanish(o)) \/ \E s \in present \cap RD!Used : RD!Leave(s)
  PROVE  ReadInv'
  <1>1. /\ stage # "over"
        /\ UNCHANGED <<q, prog, phase, pos, cur, left, rows, shown, reply, met, verdict, stage, exit>>
        /\ present' \subseteq present
    BY DEF RD!Appear, RD!Vanish, RD!Leave, RD!progVars
  <1>2. RD!TypeOK /\ Hosted /\ Placed /\ Replied /\ Kept /\ Complete /\ Concluded
    BY DEF ReadInv
  <1>3. q.start \in 0..3
    BY <1>2, ReadsAssumption DEF Hosted, RD!ReadsParameters, RD!Query
  <1>4. /\ newest' \in newest..3 /\ alive' \subseteq 1..newest'
        /\ \A o \in 1..newest : o \in alive' => o \in alive
    <2>1. newest \in 0..3 /\ alive \subseteq 1..newest
      BY <1>2 DEF RD!TypeOK
    <2>2. CASE RD!Appear
      BY <2>1, <2>2 DEF RD!Appear, RD!Objects
    <2>3. CASE \E o \in RD!Objects : RD!Vanish(o)
      BY <2>1, <2>3 DEF RD!Vanish, RD!hostVars
    <2>4. CASE \E s \in present \cap RD!Used : RD!Leave(s)
      BY <2>1, <2>4 DEF RD!Leave
    <2> QED
      BY <2>2, <2>3, <2>4
  <1>5. RD!Always' \subseteq RD!Always
    BY <1>1, <1>2, <1>3, <1>4 DEF RD!Always, Hosted, RD!TypeOK
  <1>6. 1..newest \subseteq 1..newest' /\ newest \in 0..3
    BY <1>2, <1>4 DEF RD!TypeOK
  <1>7. RD!TypeOK'
    BY <1>1, <1>2, <1>4, <1>6 DEF RD!TypeOK
  <1>8. Hosted'
    BY <1>1, <1>2, <1>3, <1>4, <1>6, Same DEF Hosted, RD!Absent
  <1>9. Placed'
    BY <1>1, <1>2, Same DEF Placed, Reading
  <1>10. Replied'
    BY <1>1, <1>2, <1>5, <1>6, Same, SameHere DEF Replied, RD!Absent, RD!Has
  <1>11. Kept'
    BY <1>1, <1>2, <1>6, Same DEF Kept, Known, Reading, Passed
  <1>12. Complete'
    BY <1>1, <1>2, <1>5, Same DEF Complete, Listing, Accounted, Reading, Passed
  <1>13. Concluded'
    <2> SUFFICES ASSUME phase = "close"
                 PROVE  Sound(verdict)'
      BY <1>1 DEF Concluded
    <2>1. Sound(verdict)
      BY <1>2 DEF Concluded
    <2>2. RD!Page' = RD!Page /\ RD!Start' = RD!Start /\ RD!Stop' = RD!Stop
      BY <1>1 DEF RD!Page, RD!Start, RD!Stop
    <2> QED
      BY <1>1, <1>5, <1>6, <2>1, <2>2, Same DEF Sound, RD!Absent
  <1> QED
    BY <1>7, <1>8, <1>9, <1>10, <1>11, <1>12, <1>13 DEF ReadInv
-----------------------------------------------------------------------------
(* The pages. *)

LEMMA Ranks ==
  ASSUME NEW S, S \subseteq 1..3
  PROVE  /\ RD!Rank(1, S) = One(1 \in S)
         /\ RD!Rank(2, S) = One(1 \in S) + One(2 \in S)
         /\ RD!Rank(3, S) = Count(S)
  <1> DEFINE upTo(n) == {p \in S : p <= n}
  <1>1. \A n : RD!Rank(n, S) = Cardinality(upTo(n))
    BY SameCardinality DEF RD!Rank
  <1>2. \A n : Cardinality(upTo(n)) = Count(upTo(n))
    BY Counted
  <1>3. Count(upTo(1)) = One(1 \in S)
    BY DEF Count, One
  <1>4. Count(upTo(2)) = One(1 \in S) + One(2 \in S)
    BY DEF Count, One
  <1>5. Count(upTo(3)) = Count(S)
    BY DEF Count, One
  <1> QED
    BY <1>1, <1>2, <1>3, <1>4, <1>5

\* The page, by what is on it.
LEMMA PageForm ==
  ASSUME RD!TypeOK, q \in Queries, shown = RD!Page, RD!Start <= RD!Stop
  PROVE  /\ \A o \in 1..3 : o \in shown.rows <=>
              o \in rows /\ RD!Start < RD!Rank(o, rows) /\ RD!Rank(o, rows) <= RD!Stop
         /\ shown.rows \subseteq rows
         /\ shown.next = IF RD!Stop < Count(rows) THEN RD!Stop ELSE RD!NoLimit
         /\ q.limit # RD!NoLimit =>
              RD!Stop = IF RD!Start + q.limit < Count(rows) THEN RD!Start + q.limit ELSE Count(rows)
  <1>1. RD!Cardinality(rows) = Count(rows) /\ rows \subseteq 1..3 /\ Count(rows) \in Nat
    BY SliceEnds, SameCardinality DEF Count, One
  <1>2. RD!Start \in Nat /\ RD!Stop \in Nat
    BY <1>1, SliceEnds
  <1>3. ASSUME q.limit # RD!NoLimit
        PROVE  RD!Stop = IF RD!Start + q.limit < Count(rows) THEN RD!Start + q.limit ELSE Count(rows)
    <2>1. q.limit \in Nat /\ q.limit < Word /\ Word \in Nat \ {0}
      BY <1>3, SliceEnds
    <2>2. RD!Stop = RD!Least((RD!Start + q.limit) % Word, Count(rows))
      BY <1>3, SliceEnds
    <2>3. (RD!Start + q.limit) % Word \in Nat
      BY <1>2, <2>1, WordSum
    <2>4. (RD!Start + q.limit) % Word >= RD!Start
      BY <1>1, <1>2, <2>2, <2>3 DEF RD!Least
    <2>5. (RD!Start + q.limit) % Word = RD!Start + q.limit
      BY <1>2, <2>1, <2>4, WordSum
    <2> QED
      BY <2>2, <2>5 DEF RD!Least
  <1>4. shown.next = IF RD!Stop < Count(rows) THEN RD!Stop ELSE RD!NoLimit
    BY <1>1 DEF RD!Page
  <1>5. /\ \A o \in 1..3 : o \in shown.rows <=>
              o \in rows /\ RD!Start < RD!Rank(o, rows) /\ RD!Rank(o, rows) <= RD!Stop
        /\ shown.rows \subseteq rows
    BY <1>1 DEF RD!Page
  <1> QED
    BY <1>3, <1>4, <1>5

LEMMA PageRight ==
  ASSUME RD!TypeOK, q \in Queries, shown = RD!Page, RD!Start <= RD!Stop
  PROVE  /\ \A o \in shown.rows, p \in rows : p \notin shown.rows =>
              p < o <=> RD!Rank(p, rows) <= q.offset
         /\ q.limit = RD!NoLimit =>
              RD!Cardinality(shown.rows) = RD!Cardinality({o \in rows : RD!Rank(o, rows) > q.offset})
         /\ q.limit # RD!NoLimit => RD!Cardinality(shown.rows) <= q.limit
         /\ (shown.next = RD!NoLimit) <=> \A o \in rows : RD!Rank(o, rows) <= q.offset \/ o \in shown.rows
         /\ shown.next # RD!NoLimit =>
              shown.next = RD!Cardinality(shown.rows \cup {o \in rows : RD!Rank(o, rows) <= q.offset})
         /\ shown.next # RD!NoLimit /\ q.limit > 0 => shown.next > q.offset
  <1> DEFINE n == Count(rows)
             after == {o \in rows : RD!Rank(o, rows) > q.offset}
             before == {o \in rows : RD!Rank(o, rows) <= q.offset}
  <1>1. PICK S : S = shown.rows
    OBVIOUS
  <1>2. rows \subseteq 1..3 /\ S \subseteq rows /\ n \in 0..3
    BY <1>1, SliceEnds, PageForm DEF Count, One
  <1>3. PICK a \in 0..3, z \in 0..3 : a = RD!Start /\ z = RD!Stop
    <2>1. RD!Start \in 0..3
      BY <1>2, SliceEnds
    <2>2. RD!Stop \in 0..3
      BY <1>2, SliceEnds
    <2> QED
      BY <2>1, <2>2
  <1>4. /\ RD!Rank(1, rows) = One(1 \in rows)
        /\ RD!Rank(2, rows) = One(1 \in rows) + One(2 \in rows)
        /\ RD!Rank(3, rows) = Count(rows)
    BY <1>2, Ranks
  <1>5. /\ q.offset \in Nat /\ a <= z /\ z <= n
        /\ a = IF q.offset < n THEN q.offset ELSE n
        /\ \A o \in 1..3 : o \in S <=> o \in rows /\ a < RD!Rank(o, rows) /\ RD!Rank(o, rows) <= z
    BY <1>1, <1>3, SliceEnds, PageForm
  <1>6. PICK r \in [1..3 -> 0..3] : \A o \in 1..3 : r[o] = RD!Rank(o, rows)
    <2> DEFINE rank == [o \in 1..3 |-> RD!Rank(o, rows)]
    <2>1. \A o \in 1..3 : RD!Rank(o, rows) \in 0..3
      BY <1>4 DEF Count, One
    <2>2. rank \in [1..3 -> 0..3] /\ \A o \in 1..3 : rank[o] = RD!Rank(o, rows)
      BY <2>1
    <2> HIDE DEF rank
    <2> QED
      BY <2>2
  <1>7. /\ r[1] = One(1 \in rows) /\ r[2] = One(1 \in rows) + One(2 \in rows) /\ r[3] = n
        /\ \A o \in 1..3 : o \in S <=> o \in rows /\ a < r[o] /\ r[o] <= z
    BY <1>4, <1>5, <1>6
  <1>8. /\ after = {o \in rows : r[o] > q.offset} /\ before = {o \in rows : r[o] <= q.offset}
    BY <1>2, <1>6
  <1>9. \A T : T \subseteq 1..3 => RD!Cardinality(T) = Count(T)
    BY SameCardinality, Counted
  <1>10. \A o \in shown.rows, p \in rows : p \notin shown.rows => p < o <=> RD!Rank(p, rows) <= q.offset
    <2>1. \A o \in S, p \in rows : p \notin S => p < o <=> r[p] <= q.offset
      BY <1>2, <1>5, <1>7 DEF Count, One
    <2> QED
      BY <1>1, <1>2, <1>6, <2>1
  <1>a. \A o \in rows : r[o] <= n
    BY <1>2, <1>7 DEF Count, One
  <1>b. shown.next = (IF z < n THEN z ELSE RD!NoLimit) /\ RD!NoLimit \notin 0..3
    BY <1>3, PageForm DEF RD!NoLimit
  <1>11. q.limit = RD!NoLimit => RD!Cardinality(shown.rows) = RD!Cardinality(after)
    <2>1. ASSUME q.limit = RD!NoLimit
          PROVE  S = after
      <3>1. z = n
        BY <1>3, <2>1, SliceEnds
      <3>2. \A o \in rows : r[o] > a <=> r[o] > q.offset
        BY <1>2, <1>5, <1>6, <1>a
      <3>3. \A o \in rows : o \in S <=> r[o] > q.offset
        BY <1>2, <1>7, <1>a, <3>1, <3>2
      <3> QED
        BY <1>2, <1>8, <3>3
    <2> QED
      BY <1>1, <2>1
  <1>12. q.limit # RD!NoLimit => RD!Cardinality(shown.rows) <= q.limit
    <2> SUFFICES ASSUME q.limit # RD!NoLimit
                 PROVE  Count(S) <= q.limit
      BY <1>1, <1>2, <1>9
    <2>1. q.limit \in Nat /\ z = IF a + q.limit < n THEN a + q.limit ELSE n
      BY <1>3, SliceEnds, PageForm
    <2>2. z <= a + q.limit
      BY <1>2, <2>1
    <2>3. Count(S) <= z - a
      BY <1>2, <1>5, <1>7 DEF Count, One
    <2>4. Count(S) \in 0..3
      BY DEF Count, One
    <2> QED
      BY <2>1, <2>2, <2>3, <2>4
  <1>13. (shown.next = RD!NoLimit) <=> \A o \in rows : RD!Rank(o, rows) <= q.offset \/ o \in shown.rows
    <2>1. CASE z < n
      <3>1. n > q.offset
        BY <1>2, <1>5, <2>1
      <3>2. PICK o \in rows : r[o] = n
        BY <1>2, <1>7, <2>1 DEF Count, One
      <3>3. ~(RD!Rank(o, rows) <= q.offset) /\ o \notin shown.rows
        BY <1>1, <1>2, <1>5, <1>6, <1>7, <2>1, <3>1, <3>2
      <3> QED
        BY <1>b, <2>1, <3>3
    <2>2. CASE ~(z < n)
      <3>1. \A o \in rows : r[o] <= q.offset \/ o \in S
        BY <1>2, <1>5, <1>6, <1>7, <1>a, <2>2
      <3> QED
        BY <1>1, <1>2, <1>6, <1>b, <2>2, <3>1
    <2> QED
      BY <2>1, <2>2
  <1>14. shown.next # RD!NoLimit => shown.next = RD!Cardinality(shown.rows \cup before)
    <2> SUFFICES ASSUME z < n
                 PROVE  RD!Cardinality(S \cup before) = z
      BY <1>1, <1>b
    <2>1. q.offset = a
      BY <1>2, <1>5
    <2>2. \A o \in 1..3 : o \in S \cup before <=> o \in rows /\ r[o] <= z
      BY <1>2, <1>5, <1>6, <1>7, <1>8, <2>1
    <2>3. Count(S \cup before) = z
      BY <1>2, <1>7, <2>2 DEF Count, One
    <2> QED
      BY <1>2, <1>9, <2>3
  <1>15. shown.next # RD!NoLimit /\ q.limit > 0 => shown.next > q.offset
    <2> SUFFICES ASSUME z < n, q.limit > 0
                 PROVE  z > q.offset
      BY <1>b
    <2>1. q.limit # RD!NoLimit
      BY DEF RD!NoLimit
    <2>2. q.limit \in Nat /\ z = IF a + q.limit < n THEN a + q.limit ELSE n
      BY <1>3, <2>1, SliceEnds, PageForm
    <2> QED
      BY <1>2, <1>5, <2>2
  <1> QED
    BY <1>10, <1>11, <1>12, <1>13, <1>14, <1>15
-----------------------------------------------------------------------------
(* The theorems. *)

Inv == area = "reads" => ReadInv

LEMMA ReadInit == Init => Inv
  <1> SUFFICES ASSUME RD!Init
               PROVE  ReadInv
    BY DEF Init, Inv
  <1>1. q \in Queries /\ q.start \in 0..3 /\ q.name \in DOMAIN RD!Programs
    BY ReadsAssumption DEF RD!Init, RD!ReadsParameters, RD!Query
  <1>2. 1 \in DOMAIN RD!Programs[q.name]
    BY <1>1, ProgramsAssumption DEF RD!ProgramsFit
  <1>3. RD!TypeOK
    BY <1>1, <1>2 DEF RD!Init, RD!TypeOK, RD!Exits, RD!Blank
  <1>4. Hosted
    BY <1>1 DEF RD!Init, Hosted
  <1>5. Placed
    BY DEF RD!Init, Placed, Reading
  <1>6. Replied
    BY DEF RD!Init, Replied, RD!NoReply, RD!Troubles
  <1>7. Kept
    BY DEF RD!Init, Kept, Reading
  <1>8. Complete
    <2>1. RD!P.lists \in Nat
      BY <1>3, Shape
    <2> QED
      BY <2>1 DEF RD!Init, Complete, Listing
  <1>9. Concluded
    BY DEF RD!Init, Concluded
  <1> QED
    BY <1>3, <1>4, <1>5, <1>6, <1>7, <1>8, <1>9 DEF ReadInv

LEMMA ReadStutters ==
  ASSUME ReadInv, UNCHANGED vars
  PROVE  ReadInv'
  <1>1. UNCHANGED <<q, present, alive, newest, prog, phase, pos, cur, left, rows, shown, reply, met, verdict,
                    stage, exit>>
    BY DEF vars, readVars
  <1>2. RD!TypeOK /\ Hosted /\ Placed /\ Replied /\ Kept /\ Complete /\ Concluded
    BY DEF ReadInv
  <1>3. RD!TypeOK'
    BY <1>1, <1>2 DEF RD!TypeOK
  <1>4. Hosted'
    BY <1>1, <1>2, Same DEF Hosted, RD!Absent
  <1>5. Placed'
    BY <1>1, <1>2, Same DEF Placed, Reading
  <1>6. Replied'
    BY <1>1, <1>2, Same, SameHere DEF Replied, RD!Absent, RD!Has, RD!Always
  <1>7. Kept'
    BY <1>1, <1>2, Same DEF Kept, Known, Reading, Passed
  <1>8. Complete'
    BY <1>1, <1>2, Same DEF Complete, Listing, Accounted, Reading, Passed, RD!Always
  <1>9. Concluded'
    <2>1. PICK how : how = exit
      OBVIOUS
    <2>2. stage = "over" => Sound(how)'
      BY <1>1, <1>2, <2>1, SameSound DEF Concluded
    <2>3. stage = "over" => Sound(exit)'
      BY <1>1, <2>1, <2>2 DEF Sound
    <2> QED
      BY <1>1, <2>3, SameVerdict DEF Concluded
  <1> QED
    BY <1>3, <1>4, <1>5, <1>6, <1>7, <1>8, <1>9 DEF ReadInv

LEMMA ReadNext == Inv /\ [Next]_vars => Inv'
  <1> SUFFICES ASSUME Inv, [Next]_vars, area' = "reads"
               PROVE  ReadInv'
    BY DEF Inv
  <1>1. area = "reads"
    BY DEF Next, Client, Environment, Over, vars
  <1>2. ReadInv
    BY <1>1 DEF Inv
  <1>3. CASE RD!Client
    BY <1>2, <1>3, ValidateRead, ConnectRead, SendRead, PassOverRead, AnswerRead, GarbledRead, TroubleRead,
       LoseRead, PickRead, RowRead, FinishRead DEF RD!Client
  <1>4. CASE RD!Host
    BY <1>2, <1>4, ReplyRead, MoveRead DEF RD!Host
  <1>5. CASE UNCHANGED vars
    BY <1>2, <1>5, ReadStutters
  <1> QED
    BY <1>1, <1>3, <1>4, <1>5 DEF Next, Client, Environment, Over

LEMMA ReadInvariance == Spec => []Inv
  BY ReadInit, ReadNext, PTL DEF Spec

\* Every part keeps to its types.
THEOREM TypesHold == Spec => []TypeOK
  <1>1. ChangeInv /\ Inv => TypeOK
    BY DEF ChangeInv, FwInv, HcInv, Inv, ReadInv, TypeOK
  <1> QED
    BY <1>1, Invariance, ReadInvariance, PTL

\* A listing that ends well shows nothing that was not there and not asked for, and,
\* however the objects came and went while it was made, every object asked for that was
\* there all the time; unless a reply could not be read and was taken for empty.
THEOREM ListingsAreFaithful == Spec => []Faithful
  <1>1. Inv => Faithful
    <2> SUFFICES ASSUME ReadInv, exit = "ok"
                 PROVE  RD!Faithful
      BY DEF Inv, Faithful, RD!Faithful
    <2>1. Sound("ok")
      BY DEF ReadInv, Placed, Concluded
    <2> QED
      BY <2>1 DEF Sound, RD!Faithful
  <1> QED
    BY <1>1, ReadInvariance, PTL

\* The pages of a listing neither miss a row nor repeat one, for every --offset and
\* --limit a machine word can hold; only a sum beyond the word makes the command panic.
THEOREM PagesAreExact == Spec => []PageExact
  <1>1. Inv => PageExact
    <2> SUFFICES ASSUME ReadInv, exit \in {"ok", "panic"}, RD!P.pages = "rows"
                 PROVE  RD!PageExact
      BY DEF Inv, PageExact, RD!PageExact
    <2>1. RD!TypeOK /\ q \in Queries /\ Sound(exit)
      BY DEF ReadInv, Hosted, Placed, Concluded
    <2>2. CASE exit = "ok"
      <3>1. shown = RD!Page /\ RD!Start <= RD!Stop
        BY <2>1, <2>2 DEF Sound
      <3> QED
        BY <2>1, <2>2, <3>1, PageRight DEF RD!PageExact
    <2>3. CASE exit = "panic"
      <3>1. RD!Stop < RD!Start
        BY <2>1, <2>3 DEF Sound
      <3>2. q.offset + q.limit >= Word
        <4> DEFINE n == Count(rows)
        <4>1. n \in 0..3 /\ q.offset \in Nat /\ Word \in Nat \ {0}
          BY <2>1, SliceEnds DEF Count, One
        <4>2. RD!Start = (IF q.offset < n THEN q.offset ELSE n) /\ RD!Start \in Nat
          BY <2>1, <4>1, SliceEnds
        <4>3. q.limit # RD!NoLimit
          BY <2>1, <3>1, <4>1, <4>2, SliceEnds
        <4>4. q.limit \in Nat /\ q.limit < Word
          BY <2>1, <4>3, SliceEnds
        <4>5. RD!Stop = RD!Least((RD!Start + q.limit) % Word, n)
          BY <2>1, <4>3, SliceEnds
        <4>6. RD!Start + q.limit >= Word
          <5>1. RD!Start + q.limit < Word => RD!Stop = RD!Least(RD!Start + q.limit, n)
            BY <4>1, <4>2, <4>4, <4>5, WordSum
          <5> QED
            BY <3>1, <4>1, <4>2, <4>4, <5>1 DEF RD!Least
        <4> QED
          BY <4>1, <4>2, <4>4, <4>6
      <3> QED
        BY <2>3, <3>2 DEF RD!PageExact
    <2> QED
      BY <2>2, <2>3
  <1> QED
    BY <1>1, ReadInvariance, PTL

\* A read that ends in NotFound, DependencyMissing or a D-Bus error ends so for a reason
\* that is the case: see ErrorsAreReal in Reads.
THEOREM ReadErrorsAreReal == Spec => []ErrorsAreReal
  <1>1. Inv => ErrorsAreReal
    <2> SUFFICES ASSUME ReadInv, exit \in {"NotFound", "DependencyMissing", "Dbus"}
                 PROVE  RD!ErrorsAreReal
      BY DEF Inv, ErrorsAreReal, RD!ErrorsAreReal
    <2>1. Sound(exit)
      BY DEF ReadInv, Placed, Concluded
    <2> QED
      BY <2>1 DEF Sound, RD!ErrorsAreReal
  <1> QED
    BY <1>1, ReadInvariance, PTL
=============================================================================
