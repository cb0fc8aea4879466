------------------------------- MODULE Reads -------------------------------
(***************************************************************************)
(* The read commands.  A command is a program of DeviceReads, SystemReads  *)
(* or SoftwareReads; this module runs it against a host whose services can *)
(* be absent, leave or refuse, whose objects come and go between two       *)
(* calls, and whose replies can have a shape the command does not expect.  *)
(***************************************************************************)
EXTENDS Integers, FiniteSets, ReadPrograms

CONSTANTS
  Queries,      \* the commands considered, with the host they meet; see Query
  Presences,    \* the sets of services a host can have at first
  MaxMoves,     \* bound on the objects that come or go
  Word          \* the number of values of a usize

\* The objects of the host are numbered in the order in which a reply lists them.
Objects == 1..3
Named == 1          \* the object a command names, whether or not the host has it
NoLimit == -1       \* --limit not given

\* wanted: the objects that were asked for; has: what an object has of the interfaces and
\* references it may lack; odd: its properties of an unexpected type; start: how many
\* there are at first; bytes: how the bridge encodes an array of bytes.
Query ==
  [name : DOMAIN Programs, valid : BOOLEAN, limit : {NoLimit} \cup 0..(Word - 1), offset : 0..(Word - 1),
   wanted : SUBSET Objects, has : [Objects -> SUBSET STRING], odd : [Objects -> SUBSET STRING],
   start : 0..3, bytes : {"array", "base64"}]

\* What the constants are; Dispatch assumes it.
ReadsParameters ==
  /\ Queries \subseteq Query
  /\ MaxMoves \in Nat
  /\ Word \in Nat \ {0}

VARIABLES
  q,         \* the command and the host
  present,   \* the services the host has
  alive,     \* the objects that exist
  newest,    \* the newest object there has been
  prog,      \* which of the programs runs
  phase,     \* its part: "first", "each", or "close" for the session
  pos,       \* the call of that part it is at
  cur, left, \* the object at hand and those that follow
  rows,      \* the objects kept
  shown,     \* what is printed of them, and the offset of the next page
  reply,     \* the host's reply to the call
  met,       \* the troubles met
  verdict,   \* the outcome to report once the session is closed
  stage, exit

hostVars == <<present, alive, newest>>
progVars == <<prog, phase, pos, cur, left, rows>>
vars == <<q, hostVars, progVars, shown, reply, met, verdict, stage, exit>>

P == Programs[q.name][prog]
NoReply == [is |-> "none", seen |-> {}]
Blank == [rows |-> {}, next |-> NoLimit]

\* The errors of FezError by what they say; `failed` is a silence or the loss of the bridge.
Exits ==
  {"none", "ok", "Usage", "NotFound", "DependencyMissing", "UnsupportedApi", "Dbus", "AccessDenied",
   "Malformed", "Channel", "failed", "killed", "panic"}

\* The commands that pass over a link that is gone.
LinkCommands == {"dns status", "dns status --all"}

\* Services that are never absent.
Streams == {"journalctl", "pcp"}
Built == {"host"} \cup Streams

\* What becomes of a trouble: the step's own handling, or the program's error mapping.
Handling(p, step, t) == IF t \in DOMAIN step.but THEN step.but[t] ELSE p.errors[t]

(* What every program keeps to.  The table of programs has no parameters, so that TLC
   decides these formulas for good; the proofs rely on them. *)

Reported == Exits \ {"none", "ok", "killed", "panic"}

\* Another service is tried, or reported missing, only if the first is absent.
HandlesAbsence(p, last, step) ==
  \A t \in Troubles :
    Handling(p, step, t) \in {"fallback", "DependencyMissing"} =>
      /\ t \in {"NoService", "NoChannel"}
      /\ p.service \notin Built
      /\ last <=> Handling(p, step, t) = "DependencyMissing"

\* A D-Bus error is passed on as such if nothing maps it.
HandlesDbus(p, step) ==
  \A t \in Troubles :
    Handling(p, step, t) = "Dbus" =>
      /\ t \notin {"NoChannel", "Denied"}
      /\ t = "NoService" => p.errors["NoService"] = "Dbus"

\* A listing is not found empty but by a reply of an unexpected shape.
ListingFits(p, step) ==
  \A t \in Troubles :
    /\ Handling(p, step, t) \in (Reported \ {"NotFound"}) \cup (Effects \ {"skip"})
    /\ Handling(p, step, t) \in {"empty", "without"} => t = "Odd"

\* An object is passed over if it is gone or not of the kind listed, and not found if it
\* was named and is gone.
ObjectFits(name, p, step) ==
  \A t \in Troubles :
    /\ Handling(p, step, t) \in Reported \cup Effects
    /\ Handling(p, step, t) = "skip" =>
         /\ ~p.until
         /\ t \in DOMAIN step.but
         /\ t \in {"NoInterface", "NoObject"}
         /\ step.on = "object"
    /\ Handling(p, step, t) = "NotFound" => t = "NoObject" /\ p.named /\ step.on = "object"
    /\ Handling(p, step, t) = "Dbus" =>
         /\ t = "NoObject" => name \notin LinkCommands
         /\ t = "NoInterface" => IF step.on = "ref" THEN t \notin DOMAIN step.but ELSE step.needs = "nothing"

\* A command that names its object asks for it first and takes no trouble lightly.
NamedFits(p) ==
  /\ Len(p.first) = 0 /\ Len(p.each) > 0 /\ p.lists = 0 /\ ~p.filters
  /\ p.each[1].on = "object"
  /\ \A t \in Troubles : Handling(p, p.each[1], t) \notin Effects

Fits(name, p, last) ==
  /\ Len(p.first) \in 0..7
  /\ Len(p.each) \in 0..7 /\ DOMAIN p.each = 1..Len(p.each) /\ (Len(p.each) = 0 <=> p.each = <<>>)
  /\ p.bad \in {"skip", "Malformed"}
  /\ p.sieve \in 0..(Len(p.each) + 1)
  /\ p.lists \in 0..Len(p.first)
  /\ IF p.named THEN NamedFits(p) ELSE Len(p.first) > 0
  /\ p.must => p.lists # 0 /\ p.pages = "no"
  /\ p.bytes => p.until
  /\ \A i \in 1..Len(p.first) :
       /\ HandlesAbsence(p, last, p.first[i]) /\ HandlesDbus(p, p.first[i]) /\ ListingFits(p, p.first[i])
  /\ \A i \in 1..Len(p.each) :
       /\ HandlesAbsence(p, last, p.each[i]) /\ HandlesDbus(p, p.each[i])
       /\ ObjectFits(name, p, p.each[i])

ProgramsFit ==
  \A name \in DOMAIN Programs :
    /\ Len(Programs[name]) \in Nat \ {0}
    /\ DOMAIN Programs[name] = 1..Len(Programs[name])
    /\ \A i \in 1..Len(Programs[name]) :
         /\ Fits(name, Programs[name][i], i = Len(Programs[name]))
         /\ Programs[name][i].named => i = 1

TypeOK ==
  /\ q.name \in DOMAIN Programs
  /\ alive \subseteq 1..newest
  /\ newest \in 0..3
  /\ prog \in DOMAIN Programs[q.name]
  /\ phase \in {"first", "each", "close"}
  /\ pos \in 1..7
  /\ cur \in 0..3
  /\ left \cup rows \subseteq Objects
  /\ shown.rows \subseteq rows
  /\ met \subseteq Troubles
  /\ stage \in {"connect", "ask", "wait", "pick", "row", "over"}
  /\ exit \in Exits

Init ==
  /\ q \in Queries
  /\ present \in Presences
  /\ alive = 1..q.start
  /\ newest = q.start
  /\ prog = 1
  /\ phase = "first"
  /\ pos = 1
  /\ cur = 0
  /\ left = {}
  /\ rows = {}
  /\ shown = Blank
  /\ reply = NoReply
  /\ met = {}
  /\ verdict = "none"
  /\ stage = "connect"
  /\ exit = "none"
-----------------------------------------------------------------------------
(* The program. *)

Here ==
  CASE phase = "first" -> P.first[pos]
    [] phase = "each"  -> P.each[pos]
    [] OTHER           -> Step("close_session")

End(how) ==
  /\ stage' = "over"
  /\ exit' = how
  /\ UNCHANGED <<phase, verdict>>

SessionOpen == P.closes /\ (phase # "first" \/ pos > 1)

\* The outcome of the program; a session is closed before it is reported.
Settle(how) ==
  IF SessionOpen
  THEN /\ phase' = "close"
       /\ stage' = "ask"
       /\ verdict' = how
       /\ UNCHANGED exit
  ELSE End(how)

GoTo(where) == stage' = where /\ UNCHANGED <<phase, verdict, exit>>

\* decode_ay_path takes anything but a JSON array for the empty path.
Accepts(o) == o \in q.wanted /\ ~(P.bytes /\ q.bytes = "base64")

\* The objects that the calls following the listing are about.
Listed(seen) == IF P.filters /\ P.sieve = 0 THEN {o \in seen : Accepts(o)} ELSE seen

\* To the next call, or to what follows the last one of this part.
Proceed(seen) ==
  \/ /\ phase = "first"
     /\ left' = IF pos = P.lists THEN Listed(seen) ELSE left
     /\ IF pos < Len(P.first)
        THEN pos' = pos + 1 /\ GoTo("ask")
        ELSE phase' = "each" /\ pos' = 1 /\ stage' = "pick" /\ UNCHANGED <<verdict, exit>>
  \/ /\ phase = "each"
     /\ LET rejected == P.filters /\ P.sieve = pos /\ ~Accepts(cur)
            last == pos = Len(P.each)
        IN  /\ left' = IF P.until /\ P.sieve = pos /\ ~rejected THEN {} ELSE left
            /\ pos' = IF rejected \/ last THEN pos ELSE pos + 1
            /\ GoTo(IF rejected THEN "pick" ELSE IF last THEN "row" ELSE "ask")

\* The arguments that are looked at before the connection.
Validate ==
  /\ stage = "connect"
  /\ P.checked
  /\ ~q.valid
  /\ End("Usage")
  /\ UNCHANGED <<q, hostVars, prog, pos, cur, left, rows, shown, reply, met>>

Connect ==
  /\ stage = "connect"
  /\ P.checked => q.valid
  /\ \/ /\ stage' = IF P.named THEN "pick" ELSE "ask"
        /\ phase' = IF P.named THEN "each" ELSE "first"
        /\ left' = IF P.named THEN {Named} ELSE {}
        /\ UNCHANGED <<verdict, exit>>
     \/ \E how \in {"failed", "killed"} : End(how) /\ UNCHANGED left
  /\ UNCHANGED <<q, hostVars, prog, pos, cur, rows, shown, reply, met>>

NoRef == phase = "each" /\ Here.on = "ref" /\ Here.needs \notin q.has[cur]

Send ==
  /\ stage = "ask"
  /\ ~NoRef
  /\ GoTo("wait") \/ End("killed")
  /\ UNCHANGED <<q, hostVars, prog, pos, cur, left, rows, shown, reply, met>>

\* A reference to "/" is not followed.
PassOver ==
  /\ stage = "ask"
  /\ NoRef
  /\ Proceed({})
  /\ UNCHANGED <<q, hostVars, prog, cur, rows, shown, reply, met>>

Got(what) ==
  /\ stage = "wait"
  /\ phase # "close"
  /\ reply.is = what
  /\ reply' = NoReply

\* A reply decodes, or is kept to be decoded with the others of its object.
Answer ==
  /\ Got("ok")
  /\ phase = "each" /\ ~P.late => Here.strict \cap q.odd[cur] = {}
  /\ Proceed(reply.seen)
  /\ UNCHANGED <<q, hostVars, prog, cur, rows, shown, met>>

Garbled ==
  /\ Got("ok")
  /\ phase = "each" /\ ~P.late /\ Here.strict \cap q.odd[cur] # {}
  /\ Settle("Malformed")
  /\ UNCHANGED <<q, hostVars, prog, pos, cur, left, rows, shown, met>>

\* Mutant of Outcome: the step's own handling of an error is forgotten.
OutcomeMapped(t) == P.errors[t]

Outcome(t) == Handling(P, Here, t)

\* An error, or a reply without the value expected.
Trouble(t) ==
  /\ Got(t)
  /\ met' = met \cup {t}
  /\ CASE Outcome(t) = "skip" ->
            GoTo("pick") /\ UNCHANGED <<prog, pos, left>>
       [] Outcome(t) \in {"without", "empty"} ->
            Proceed({}) /\ UNCHANGED prog
       [] Outcome(t) = "fallback" ->
            /\ prog' = prog + 1
            /\ phase' = "first"
            /\ pos' = 1
            /\ left' = {}
            /\ stage' = "ask"
            /\ UNCHANGED <<verdict, exit>>
       [] OTHER ->
            Settle(Outcome(t)) /\ UNCHANGED <<prog, pos, left>>
  /\ rows' = IF Outcome(t) = "fallback" THEN {} ELSE rows
  /\ UNCHANGED <<q, hostVars, cur, shown>>

\* A silence or the end of the bridge.
Lose ==
  /\ stage = "wait"
  /\ reply' = NoReply
  /\ IF phase = "close" THEN End(verdict) ELSE Settle("failed")
  /\ UNCHANGED <<q, hostVars, prog, pos, cur, left, rows, shown, met>>

\* The reply to close_session is not looked at.
Closed ==
  /\ stage = "wait"
  /\ phase = "close"
  /\ reply # NoReply
  /\ reply' = NoReply
  /\ End(verdict)
  /\ UNCHANGED <<q, hostVars, prog, pos, cur, left, rows, shown, met>>

\* What a row must give to be gone into.
RowNeeds == P.row \cup P.passes

\* Mutant of Pick: the first row that cannot be read ends the listing.
PickStops ==
  /\ stage = "pick"
  /\ \E o \in left :
       IF RowNeeds \cap q.odd[o] = {}
       THEN /\ left' = left \ {o}
            /\ cur' = o
            /\ pos' = 1
            /\ GoTo(IF P.each = <<>> THEN "row" ELSE "ask")
       ELSE /\ left' = {}
            /\ UNCHANGED <<cur, pos>>
            /\ GoTo("pick")
  /\ UNCHANGED <<q, hostVars, prog, rows, shown, reply, met>>

\* The next object, if its row of the list can be read.
Pick ==
  /\ stage = "pick"
  /\ \E o \in left :
       /\ left' = left \ {o}
       /\ IF RowNeeds \cap q.odd[o] = {}
          THEN /\ cur' = o
               /\ pos' = 1
               /\ GoTo(IF P.each = <<>> THEN "row" ELSE "ask")
          ELSE /\ UNCHANGED <<cur, pos>>
               /\ IF P.bad = "skip" \/ P.row \cap q.odd[o] = {} THEN GoTo("pick") ELSE Settle(P.bad)
  /\ UNCHANGED <<q, hostVars, prog, rows, shown, reply, met>>

Has(o, step) == step.needs = "nothing" \/ step.needs \in q.has[o]

\* All calls about an object are made.
Row ==
  /\ stage = "row"
  /\ IF P.late /\ \E i \in DOMAIN P.each :
                     Has(cur, P.each[i]) /\ P.each[i].strict \cap q.odd[cur] # {}
     THEN Settle("Malformed") /\ UNCHANGED <<left, rows>>
     ELSE /\ GoTo("pick")
          /\ IF P.filters /\ P.sieve > Len(P.each) /\ ~Accepts(cur)
             THEN UNCHANGED <<left, rows>>
             ELSE /\ rows' = rows \cup {cur}
                  /\ left' = IF P.until THEN {} ELSE left
  /\ UNCHANGED <<q, hostVars, prog, pos, cur, shown, reply, met>>

Least(a, b) == IF a < b THEN a ELSE b
Rank(o, set) == Cardinality({p \in set : p <= o})

\* The slice start..end of the rows; the sum is one of machine words.
Start == Least(q.offset, Cardinality(rows))
Stop ==
  IF q.limit = NoLimit THEN Cardinality(rows)
  ELSE Least((Start + q.limit) % Word, Cardinality(rows))

\* Mutant of Page: the offset of the next page is counted from --offset and --limit.
PageNext ==
  [rows |-> {o \in rows : Start < Rank(o, rows) /\ Rank(o, rows) <= Stop},
   next |-> IF q.offset + q.limit < Cardinality(rows) THEN q.offset + q.limit ELSE NoLimit]

Page ==
  [rows |-> {o \in rows : Start < Rank(o, rows) /\ Rank(o, rows) <= Stop},
   next |-> IF Stop < Cardinality(rows) THEN Stop ELSE NoLimit]

\* Mutant of Oldest: there may be fewer lines than asked for.
OldestUnclipped == [Blank EXCEPT !.rows = 1..q.limit]

\* Of one line more than --lines, the first ones are kept.
Oldest == [Blank EXCEPT !.rows = {o \in rows : Rank(o, rows) <= q.limit}]

\* The view is built from the rows.
Finish ==
  /\ stage = "pick"
  /\ left = {}
  /\ IF P.must /\ rows = {} THEN Settle("NotFound") /\ UNCHANGED shown
     ELSE IF P.pages = "rows" /\ Stop < Start THEN End("panic") /\ UNCHANGED shown
     ELSE /\ Settle("ok")
          /\ shown' = CASE P.pages = "rows" -> Page
                        [] P.pages = "tail" -> Oldest
                        [] OTHER            -> [Blank EXCEPT !.rows = rows]
  /\ UNCHANGED <<q, hostVars, prog, pos, cur, left, rows, reply, met>>

Client ==
  \/ Validate
  \/ Connect
  \/ Send
  \/ PassOver
  \/ Answer
  \/ Garbled
  \/ \E t \in Troubles : Trouble(t)
  \/ Lose
  \/ Closed
  \/ Pick
  \/ Row
  \/ Finish
-----------------------------------------------------------------------------
(* The host. *)

Absent(p) == p.service \notin present \cup Built

\* What can go wrong with any call at any time.
AtWill ==
  IF P.service \in Streams THEN {"NoChannel", "Denied"}
  ELSE {"Refused", "NoMethod", "Denied", "Odd"}

Replies ==
  IF Absent(P) THEN {"NoService", "NoChannel"}
  ELSE IF phase = "each" /\ Here.on = "object" /\ cur \notin alive THEN {"NoObject"}
  ELSE IF phase = "each" /\ Here.on = "object" /\ ~Has(cur, Here) THEN {"NoInterface"}
  ELSE IF phase = "each" /\ Here.on = "ref" THEN {"ok", "NoObject", "NoInterface"} \cup AtWill
  ELSE {"ok"} \cup AtWill

\* journalctl --lines gives the newest entries.
Newest(n, set) == {o \in set : Cardinality(set) - Rank(o, set) < n}

InReply ==
  CASE P.pages = "tail"  -> Newest(q.limit + 1, alive)
    [] P.pages = "lines" /\ q.limit # NoLimit -> Newest(q.limit, alive)
    [] OTHER -> alive

\* The service replies to the call; a listing shows what exists at that moment.
Reply ==
  /\ stage = "wait"
  /\ reply = NoReply
  /\ \E what \in Replies :
       reply' = [is |-> what,
                 seen |-> IF what = "ok" /\ phase = "first" /\ pos = P.lists THEN InReply ELSE {}]
  /\ UNCHANGED <<q, hostVars, progVars, shown, met, verdict, stage, exit>>

Moves == (newest - q.start) + (newest - Cardinality(alive))

\* An object goes away, or a new one comes.
Vanish(o) ==
  /\ stage # "over"
  /\ Moves < MaxMoves
  /\ o \in alive
  /\ alive' = alive \ {o}
  /\ UNCHANGED <<q, present, newest, progVars, shown, reply, met, verdict, stage, exit>>

Appear ==
  /\ stage # "over"
  /\ Moves < MaxMoves
  /\ newest + 1 \in Objects
  /\ newest' = newest + 1
  /\ alive' = alive \cup {newest + 1}
  /\ UNCHANGED <<q, present, progVars, shown, reply, met, verdict, stage, exit>>

\* A service of the command's goes away.
Leave(s) ==
  /\ stage # "over"
  /\ present' = present \ {s}
  /\ UNCHANGED <<q, alive, newest, progVars, shown, reply, met, verdict, stage, exit>>

Used == {Programs[q.name][i].service : i \in DOMAIN Programs[q.name]}

Host ==
  \/ Reply
  \/ \E o \in Objects : Vanish(o)
  \/ Appear
  \/ \E s \in present \cap Used : Leave(s)

Over == stage = "over" /\ UNCHANGED vars

Next == Client \/ Host \/ Over

\* BridgeClient ends every call, so the client goes on; nothing is assumed of the host.
Spec == Init /\ [][Next]_vars
FairSpec == Spec /\ WF_vars(Client)
-----------------------------------------------------------------------------
(* Properties *)

Goal == IF P.filters THEN q.wanted ELSE Objects
Always == alive \cap 1..q.start

\* What a command says it leaves out: rows and objects it cannot read, objects without
\* the interface it is about.
Excused(o) ==
  \/ RowNeeds \cap q.odd[o] # {}
  \/ \E i \in DOMAIN P.each :
       ~Has(o, P.each[i]) /\ "NoInterface" \in DOMAIN P.each[i].but
                          /\ P.each[i].but["NoInterface"] = "skip"

Bounded == P.pages \in {"lines", "tail"}

\* A listing that ends well shows nothing that was not there and not asked for, and,
\* however the objects came and went while it was made, every object asked for that was
\* there all the time; unless a reply could not be read and was taken for empty.
Faithful ==
  exit = "ok" =>
    /\ rows \subseteq Goal \cap 1..newest
    /\ P.must => rows # {}
    /\ P.lists # 0 /\ ~P.until /\ ~Bounded /\ "Odd" \notin met =>
         \A o \in Always \cap Goal : o \in rows \/ Excused(o)

\* A page of a listing is the part of it that --offset and --limit ask for, without gap
\* or overlap; `next_offset` is where the rows that follow begin, is given exactly if
\* there are any, and leads on if the page is not empty.  Only a sum beyond the machine
\* word makes the command panic.
PageExact ==
  exit \in {"ok", "panic"} /\ P.pages = "rows" =>
    /\ exit = "ok" =>
         /\ \A o \in shown.rows, p \in rows : p \notin shown.rows =>
              p < o <=> Rank(p, rows) <= q.offset
         /\ q.limit = NoLimit => Cardinality(shown.rows) = Cardinality({o \in rows : Rank(o, rows) > q.offset})
         /\ q.limit # NoLimit => Cardinality(shown.rows) <= q.limit
         /\ (shown.next = NoLimit) <=> \A o \in rows : Rank(o, rows) <= q.offset \/ o \in shown.rows
         /\ shown.next # NoLimit =>
              shown.next = Cardinality(shown.rows \cup {o \in rows : Rank(o, rows) <= q.offset})
         /\ shown.next # NoLimit /\ q.limit > 0 => shown.next > q.offset
    /\ exit = "panic" => q.offset + q.limit >= Word

\* A reference of the command's is followed to an object that may be of another kind.
Strays ==
  \E i \in DOMAIN P.each : P.each[i].on = "ref" /\ "NoInterface" \notin DOMAIN P.each[i].but

\* An error says what is the case.  NotFound: no object asked for was there all the
\* time, or its description could not be read.  DependencyMissing: none of the services
\* the command can use is there.  A D-Bus error: the host refused something, or the
\* service is absent and that is not mapped, or what the command asks about vanished, or
\* a reference led to an object of another kind; a link that vanishes does not end
\* `dns status`, nor a drive of another kind `storage show`.
ErrorsAreReal ==
  /\ exit = "NotFound" =>
       \/ "Odd" \in met
       \/ P.bytes /\ q.bytes = "base64"
       \/ P.named /\ Named \notin Always
       \/ P.must /\ \A o \in Always \cap Goal : Excused(o)
  /\ exit = "DependencyMissing" =>
       \A i \in DOMAIN Programs[q.name] : Absent(Programs[q.name][i])
  /\ exit = "Dbus" =>
       \/ met \cap {"Refused", "NoMethod", "Odd"} # {}
       \/ Absent(P) /\ P.errors["NoService"] = "Dbus"
       \/ "NoObject" \in met /\ q.name \notin LinkCommands
       \/ "NoInterface" \in met /\ Strays

\* The command ends, whatever the host does.
InvocationEnds == <>(stage = "over")

\* "Returns the last 25 entries by default" (src/schema/journal.rs): the entries shown
\* are the newest of those journalctl gave.
JournalNewest ==
  q.name = "journal" /\ exit = "ok" => shown.rows = Newest(q.limit, rows)

\* "Returns `NotFound` if the target device does not exist" (storage/reads.rs): `storage
\* show` reports so of no device that was there all the time.
DeviceFound ==
  q.name = "storage show" /\ exit = "NotFound" => Always \cap q.wanted = {}
=============================================================================
