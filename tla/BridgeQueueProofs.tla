--------------------------- MODULE BridgeQueueProofs ---------------------------
(***************************************************************************)
(* Theorems about what BridgeClient's operations make of the frames in the *)
(* queue, for every value of its constants: items are gathered whole and   *)
(* in order, samples stay within their bound, a close is reported by the   *)
(* operation it concerns, and no answer is lost on the way.                *)
(*                                                                         *)
(* The argument is about the pipe and the queue as one sequence, in the    *)
(* order in which the client will read it.  Every frame in it says         *)
(* something of an operation or a channel that stays true (FramesOwned),   *)
(* and for the operation that is waiting it holds just the items not yet   *)
(* taken, in order, with the end marker last (Sequenced).                  *)
(***************************************************************************)
EXTENDS BridgeClientProofs

\* The frames on their way to the client, in the order in which it will read them.
queue == rx \o pipe

\* The operations that have a channel.
HasChannel(k) == ops[k].kind \in DbusKinds \cup ChannelKinds

\* Channels are numbered in the order of their opening; an operation with a channel of
\* its own shares it with no other.  The bridge has done nothing for what was not started.
Channels ==
  /\ \A c \in Chans : c >= next_channel => chan[c] = "unused"
  /\ \A k \in Ids : HasChannel(k) => ops[k].chan \in Chans /\ ops[k].chan < next_channel
  /\ \A j, k \in Ids :
       HasChannel(j) /\ ops[k].kind \in ChannelKinds /\ ops[j].chan = ops[k].chan => j = k
  /\ \A k \in Ids : k >= nextOp => k \notin replied /\ k \notin finished /\ sent[k] = 0

\* Every operation with channel c for its own was finished by the bridge.
Ended(c) ==
  /\ c < next_channel
  /\ \A k \in Ids : ops[k].kind \in ChannelKinds /\ ops[k].chan = c => k \in finished

\* The kind of operation whose frames are of a kind.
Emits(kind) ==
  CASE kind = "reply" -> DbusKinds
    [] kind = "signal" -> {"collect"}
    [] kind = "data" -> {"stream"}
    [] OTHER -> {"metrics"}

\* A frame rides on the channel of the operation it belongs to, which is of its kind.
OnChannel(f) ==
  f.kind \in {"reply", "signal", "data", "batch", "meta"} =>
    f.id \in Ids /\ ops[f.id].kind \in Emits(f.kind) /\ f.chan = ops[f.id].chan

\* What a frame says of a channel is so, and stays so.
SaysOfChannel(f) ==
  /\ f.kind = "bad" =>
       /\ f.chan \in Chans /\ f.chan < next_channel
       /\ \A k \in Ids : ops[k].kind = "stream" => ops[k].chan # f.chan
  /\ f.kind = "close" => f.chan \in Chans /\ f.val \in Problems /\ chan[f.chan] = f.val
  /\ f.kind = "done" \/ (f.kind = "close" /\ f.val = "none") => Ended(f.chan)

Owned(f) == OnChannel(f) /\ SaysOfChannel(f)

FramesOwned == \A i \in DOMAIN queue : Owned(queue[i])

\* A signal or chunk of operation k; a frame that ends its channel without a problem.
ItemOf(f, k) == f.kind \in {"signal", "data"} /\ f.id = k
EndOf(f, k) == (f.kind = "done" \/ (f.kind = "close" /\ f.val = "none")) /\ f.chan = ops[k].chan

\* What is in the queue for operation k: just the items not yet taken, in order.
InSequence(k) ==
  /\ \A i \in DOMAIN queue :
       ItemOf(queue[i], k) => queue[i].n \in (Len(ops[k].got) + 1)..sent[k]
  /\ \A i, j \in DOMAIN queue :
       i < j /\ ItemOf(queue[i], k) /\ ItemOf(queue[j], k) => queue[i].n < queue[j].n
  /\ \A n \in (Len(ops[k].got) + 1)..sent[k] :
       \E i \in DOMAIN queue : ItemOf(queue[i], k) /\ queue[i].n = n

\* The end marker of operation k comes last.
EndLast(k) ==
  /\ \A i \in DOMAIN queue :
       ItemOf(queue[i], k) /\ queue[i].kind = "signal" /\ queue[i].val = "Finished" =>
         k \in finished /\ queue[i].n = sent[k]
  /\ ops[k].kind = "stream" =>
       \A i, j \in DOMAIN queue : ItemOf(queue[i], k) /\ EndOf(queue[j], k) => i < j

Sequenced ==
  \A k \in Ids :
    ops[k].kind \in {"collect", "stream"} /\ ops[k].out = "pending" => InSequence(k) /\ EndLast(k)

\* CollectedWhole, SamplesBounded and CloseReportedByOwner, for one operation.
Whole(k) ==
  ops[k].kind \in {"collect", "stream"} =>
    /\ ops[k].got = [i \in 1..Len(ops[k].got) |-> i]
    /\ Len(ops[k].got) <= sent[k]
    /\ ops[k].out = "ok" => k \in finished /\ Len(ops[k].got) = sent[k]

Bounded(k) ==
  ops[k].kind = "metrics" =>
    /\ Len(ops[k].got) <= SampleCount
    /\ ops[k].out = "ok" => k \in finished \/ Len(ops[k].got) = SampleCount

\* What a close with a problem makes of an operation.
ReportOf(kind, problem, out) ==
  /\ problem \in Problems
  /\ out \in {ClosedAs(problem), "DependencyMissing"}
  /\ out = "DependencyMissing" => kind = "metrics" /\ problem = "not-supported"

Reported(k) ==
  ops[k].out \in CloseErrors \cup {"DependencyMissing"} =>
    HasChannel(k) /\ ReportOf(ops[k].kind, chan[ops[k].chan], ops[k].out)

Result(k) == Whole(k) /\ Bounded(k) /\ Reported(k)
Results == \A k \in Ids : Result(k)

\* AnswerKept, in terms of the sequence.
AnswerQueued(k) == \E i \in DOMAIN queue : queue[i].kind = "reply" /\ queue[i].id = k

AnswersQueued ==
  \A k \in replied :
    ops[k].kind = "call" /\ ops[k].out = "pending" /\ reader # "broken" => AnswerQueued(k)

QueueInv ==
  /\ CallInv
  /\ Channels
  /\ FramesOwned
  /\ Sequenced
  /\ Results
  /\ AnswersQueued
-----------------------------------------------------------------------------
(* How the sequence of frames moves. *)

LEMMA Joined ==
  ASSUME NEW S, NEW a \in Seq(S), NEW b \in Seq(S)
  PROVE  /\ a \o b \in Seq(S) /\ DOMAIN (a \o b) = 1..Len(a \o b)
         /\ Len(a \o b) \in Nat /\ Len(a) \in Nat /\ Len(b) \in Nat
         /\ Len(a \o b) = Len(a) + Len(b)
         /\ \A i \in 1..Len(a) : i \in 1..Len(a \o b) /\ (a \o b)[i] = a[i]
         /\ \A j \in 1..Len(b) : \A i : i = Len(a) + j =>
              i \in 1..Len(a \o b) /\ (a \o b)[i] = b[j]
         /\ \A i \in 1..Len(a \o b) : i \in 1..Len(a) \/ i - Len(a) \in 1..Len(b)
  <1>1. /\ a \o b \in Seq(S)
        /\ Len(a \o b) = Len(a) + Len(b)
        /\ \A i \in 1..(Len(a) + Len(b)) :
             (a \o b)[i] = IF i <= Len(a) THEN a[i] ELSE b[i - Len(a)]
    BY ConcatProperties
  <1>2. Len(a) \in Nat /\ Len(b) \in Nat /\ DOMAIN (a \o b) = 1..Len(a \o b)
    BY <1>1, LenProperties
  <1>3. ASSUME NEW j \in 1..Len(b), NEW i, i = Len(a) + j
        PROVE  i \in 1..Len(a \o b) /\ (a \o b)[i] = b[j]
    <2>1. i \in 1..(Len(a) + Len(b)) /\ ~(i <= Len(a)) /\ i - Len(a) = j
      BY <1>2, <1>3
    <2> QED
      BY <1>1, <2>1
  <1>4. ASSUME NEW i \in 1..Len(a) PROVE i \in 1..Len(a \o b) /\ (a \o b)[i] = a[i]
    BY <1>1, <1>2
  <1>5. \A i \in 1..Len(a \o b) : i \in 1..Len(a) \/ i - Len(a) \in 1..Len(b)
    BY <1>1, <1>2
  <1> QED
    BY <1>1, <1>2, <1>3, <1>4, <1>5

LEMMA QueueIsSeq ==
  ASSUME TypeOK
  PROVE  queue \in Seq(Frame) /\ DOMAIN queue = 1..Len(queue) /\ Len(queue) \in Nat
  BY Joined DEF queue, TypeOK

LEMMA InFlightIsQueue ==
  ASSUME TypeOK
  PROVE  InFlight = {queue[i] : i \in 1..Len(queue)}
  <1>1. DOMAIN rx = 1..Len(rx) /\ DOMAIN pipe = 1..Len(pipe)
    BY LenProperties DEF TypeOK
  <1>2. ASSUME NEW f \in InFlight PROVE \E i \in 1..Len(queue) : queue[i] = f
    <2>1. CASE \E i \in 1..Len(rx) : rx[i] = f
      BY <2>1, Joined DEF queue, TypeOK
    <2>2. CASE \E j \in 1..Len(pipe) : pipe[j] = f
      <3>1. PICK j \in 1..Len(pipe) : pipe[j] = f
        BY <2>2
      <3>2. Len(rx) + j \in 1..Len(queue) /\ queue[Len(rx) + j] = pipe[j]
        BY Joined DEF queue, TypeOK
      <3> QED
        BY <3>1, <3>2
    <2> QED
      BY <1>1, <1>2, <2>1, <2>2 DEF InFlight
  <1>3. ASSUME NEW i \in 1..Len(queue) PROVE queue[i] \in InFlight
    <2>1. CASE i \in 1..Len(rx)
      <3>1. queue[i] = rx[i]
        BY <2>1, Joined DEF queue, TypeOK
      <3> QED
        BY <1>1, <2>1, <3>1 DEF InFlight
    <2>2. CASE i - Len(rx) \in 1..Len(pipe)
      <3>1. Len(rx) + (i - Len(rx)) = i
        BY Joined DEF queue, TypeOK
      <3>2. \E j \in 1..Len(pipe) : i = Len(rx) + j
        BY <2>2, <3>1
      <3>3. PICK j \in 1..Len(pipe) : i = Len(rx) + j
        BY <3>2
      <3>4. queue[i] = pipe[j]
        BY <3>3, Joined DEF queue, TypeOK
      <3> QED
        BY <1>1, <3>4 DEF InFlight
    <2> QED
      BY <2>1, <2>2, Joined DEF queue, TypeOK
  <1> QED
    BY <1>2, <1>3

\* The client reads the first frame.
LEMMA ReadQueue ==
  ASSUME TypeOK, rx # <<>>, rx' = Tail(rx), pipe' = pipe
  PROVE  /\ 1 \in 1..Len(queue) /\ queue[1] = Head(rx)
         /\ DOMAIN queue' = 1..(Len(queue) - 1)
         /\ \A i \in 1..(Len(queue) - 1) : i + 1 \in 1..Len(queue) /\ queue'[i] = queue[i + 1]
  <1>1. rx \in Seq(Frame) /\ pipe \in Seq(Frame) /\ Tail(rx) \in Seq(Frame)
    BY HeadTailProperties DEF TypeOK
  <1>2. /\ Len(rx) \in Nat \ {0} /\ Len(Tail(rx)) = Len(rx) - 1
        /\ \A i \in 1..Len(Tail(rx)) : Tail(rx)[i] = rx[i + 1]
    BY <1>1, HeadTailProperties, EmptySeq
  <1>3. queue' = Tail(rx) \o pipe
    BY DEF queue
  <1>4. Len(queue) = Len(rx) + Len(pipe) /\ Len(queue') = Len(queue) - 1 /\ Len(pipe) \in Nat
    BY <1>1, <1>2, <1>3, Joined DEF queue
  <1>5. 1 \in 1..Len(queue) /\ queue[1] = Head(rx)
    BY <1>1, <1>2, Joined DEF queue
  <1>6. DOMAIN queue' = 1..(Len(queue) - 1)
    BY <1>1, <1>3, <1>4, Joined
  <1>7. ASSUME NEW i \in 1..(Len(queue) - 1)
        PROVE  i + 1 \in 1..Len(queue) /\ queue'[i] = queue[i + 1]
    <2>1. i \in 1..Len(queue') /\ i + 1 \in 1..Len(queue)
      BY <1>4
    <2>2. CASE i \in 1..Len(Tail(rx))
      <3>1. queue'[i] = Tail(rx)[i] /\ i + 1 \in 1..Len(rx)
        BY <1>1, <1>2, <1>3, <2>2, Joined
      <3> QED
        BY <1>1, <1>2, <2>1, <2>2, <3>1, Joined DEF queue
    <2>3. CASE i - Len(Tail(rx)) \in 1..Len(pipe)
      <3> DEFINE j == i - Len(Tail(rx))
      <3>1. Len(Tail(rx)) + j = i /\ Len(rx) + j = i + 1 /\ j \in 1..Len(pipe)
        BY <1>2, <2>3
      <3> HIDE DEF j
      <3>2. queue'[i] = pipe[j]
        <4>1. (Tail(rx) \o pipe)[Len(Tail(rx)) + j] = pipe[j]
          BY <1>1, <3>1, Joined
        <4> QED
          BY <1>3, <3>1, <4>1
      <3>3. queue[i + 1] = pipe[j]
        <4>1. (rx \o pipe)[Len(rx) + j] = pipe[j]
          BY <1>1, <3>1, Joined
        <4> QED
          BY <3>1, <4>1 DEF queue
      <3> QED
        BY <2>1, <3>2, <3>3
    <2> QED
      BY <1>1, <1>3, <2>1, <2>2, <2>3, Joined
  <1> QED
    BY <1>5, <1>6, <1>7

\* The bridge adds a frame at the end.
LEMMA WriteQueue ==
  ASSUME TypeOK, NEW f \in Frame, rx' = rx, pipe' = Append(pipe, f)
  PROVE  /\ DOMAIN queue' = 1..(Len(queue) + 1)
         /\ \A i \in 1..Len(queue) : queue'[i] = queue[i]
         /\ queue'[Len(queue) + 1] = f
  <1>1. rx \in Seq(Frame) /\ pipe \in Seq(Frame) /\ Append(pipe, f) \in Seq(Frame)
    BY AppendProperties DEF TypeOK
  <1>2. /\ Len(Append(pipe, f)) = Len(pipe) + 1 /\ Append(pipe, f)[Len(pipe) + 1] = f
        /\ \A i \in 1..Len(pipe) : Append(pipe, f)[i] = pipe[i]
    BY <1>1, AppendProperties
  <1>3. queue' = rx \o Append(pipe, f)
    BY DEF queue
  <1>4. /\ Len(queue) = Len(rx) + Len(pipe) /\ Len(queue') = Len(queue) + 1
        /\ Len(pipe) \in Nat /\ Len(rx) \in Nat
    BY <1>1, <1>2, <1>3, Joined DEF queue
  <1>5. DOMAIN queue' = 1..(Len(queue) + 1)
    BY <1>1, <1>3, <1>4, Joined
  <1>6. queue'[Len(queue) + 1] = f
    <2>1. Len(pipe) + 1 \in 1..Len(Append(pipe, f)) /\ Len(rx) + (Len(pipe) + 1) = Len(queue) + 1
      BY <1>2, <1>4
    <2> QED
      BY <1>1, <1>2, <1>3, <2>1, Joined
  <1>7. ASSUME NEW i \in 1..Len(queue) PROVE queue'[i] = queue[i]
    <2>1. CASE i \in 1..Len(rx)
      BY <1>1, <1>3, <2>1, Joined DEF queue
    <2>2. CASE \E j \in 1..Len(pipe) : i = Len(rx) + j
      <3>0. PICK j \in 1..Len(pipe) : i = Len(rx) + j
        BY <2>2
      <3>1. i = Len(rx) + j /\ j \in 1..Len(Append(pipe, f))
        BY <1>2, <1>4, <3>0
      <3>2. queue[i] = pipe[j]
        BY <1>1, <3>1, Joined DEF queue
      <3> DEFINE longer == Append(pipe, f)
      <3>3. queue' = rx \o longer /\ longer \in Seq(Frame) /\ j \in 1..Len(longer)
        BY <1>1, <1>3, <3>1
      <3> HIDE DEF longer
      <3>4. queue'[i] = longer[j]
        BY <1>1, <3>1, <3>3, Joined
      <3> USE DEF longer
      <3> QED
        BY <1>2, <3>2, <3>4
    <2>3. i \in 1..Len(rx) \/ i - Len(rx) \in 1..Len(pipe)
      BY <1>1, Joined DEF queue
    <2>4. i = Len(rx) + (i - Len(rx))
      BY <1>4
    <2> QED
      BY <2>1, <2>2, <2>3, <2>4
  <1> QED
    BY <1>5, <1>6, <1>7

\* The reader thread moves a frame from the pipe to the queue: the sequence stays.
LEMMA ForwardQueue ==
  ASSUME TypeOK, pipe # <<>>, rx' = Append(rx, Head(pipe)), pipe' = Tail(pipe)
  PROVE  queue' = queue
  <1>1. /\ rx \in Seq(Frame) /\ pipe \in Seq(Frame) /\ Tail(pipe) \in Seq(Frame)
        /\ Head(pipe) \in Frame /\ Append(rx, Head(pipe)) \in Seq(Frame)
    BY HeadTailProperties, AppendProperties DEF TypeOK
  <1>2. /\ Len(pipe) \in Nat \ {0} /\ Len(Tail(pipe)) = Len(pipe) - 1
        /\ \A i \in 1..Len(Tail(pipe)) : Tail(pipe)[i] = pipe[i + 1]
    BY <1>1, HeadTailProperties, EmptySeq
  <1>3. /\ Len(Append(rx, Head(pipe))) = Len(rx) + 1
        /\ Append(rx, Head(pipe))[Len(rx) + 1] = Head(pipe)
        /\ \A i \in 1..Len(rx) : Append(rx, Head(pipe))[i] = rx[i]
    BY <1>1, AppendProperties
  <1> DEFINE longer == Append(rx, Head(pipe))
  <1> DEFINE shorter == Tail(pipe)
  <1>4. queue' = longer \o shorter /\ longer \in Seq(Frame) /\ shorter \in Seq(Frame)
    BY <1>1 DEF queue
  <1>5. /\ Len(queue') = Len(queue) /\ queue \in Seq(Frame) /\ queue' \in Seq(Frame)
        /\ Len(rx) \in Nat /\ Len(queue) = Len(rx) + Len(pipe)
    <2>1. Len(queue') = Len(longer) + Len(shorter) /\ queue' \in Seq(Frame)
      BY <1>4, Joined
    <2> HIDE DEF longer, shorter
    <2>2. Len(queue) = Len(rx) + Len(pipe) /\ queue \in Seq(Frame) /\ Len(rx) \in Nat
      BY <1>1, Joined DEF queue
    <2> QED
      BY <1>2, <1>3, <2>1, <2>2 DEF longer, shorter
  <1>6. ASSUME NEW i \in 1..Len(queue) PROVE queue'[i] = queue[i]
    <2>1. CASE i \in 1..Len(rx)
      <3>1. i \in 1..Len(longer)
        BY <1>3, <1>5, <2>1
      <3>2. queue'[i] = longer[i]
        BY <1>4, <3>1, Joined
      <3>3. queue[i] = rx[i]
        BY <1>1, <2>1, Joined DEF queue
      <3> QED
        BY <1>3, <2>1, <3>2, <3>3
    <2>2. CASE i = Len(rx) + 1
      <3>1. i \in 1..Len(longer) /\ 1 \in 1..Len(pipe)
        BY <1>2, <1>3, <1>5, <2>2
      <3>2. queue'[i] = longer[i]
        BY <1>4, <3>1, Joined
      <3>3. queue[i] = pipe[1]
        BY <1>1, <2>2, <3>1, Joined DEF queue
      <3> QED
        BY <1>3, <2>2, <3>2, <3>3
    <2>3. CASE i - (Len(rx) + 1) \in 1..(Len(pipe) - 1)
      <3> DEFINE j == i - (Len(rx) + 1)
      <3>1. /\ Len(longer) + j = i /\ j \in 1..Len(shorter)
            /\ Len(rx) + (j + 1) = i /\ j + 1 \in 1..Len(pipe)
        BY <1>2, <1>3, <1>5, <2>3
      <3>2. queue'[i] = shorter[j]
        BY <1>4, <3>1, Joined
      <3>3. queue[i] = pipe[j + 1]
        BY <1>1, <3>1, Joined DEF queue
      <3> QED
        BY <1>2, <3>1, <3>2, <3>3
    <2>4. \/ i \in 1..Len(rx)
          \/ i = Len(rx) + 1
          \/ i - (Len(rx) + 1) \in 1..(Len(pipe) - 1)
      BY <1>2, <1>5
    <2> QED
      BY <2>1, <2>2, <2>3, <2>4
  <1> QED
    BY <1>5, <1>6, SeqEqual

\* The reader thread meets bytes that are no frame, and drops them.
LEMMA LoseQueue ==
  ASSUME TypeOK, pipe # <<>>, rx' = rx, pipe' = Tail(pipe)
  PROVE  \E p \in 1..Len(queue) :
           /\ queue[p] = Head(pipe)
           /\ DOMAIN queue' = 1..(Len(queue) - 1)
           /\ \A i \in 1..(Len(queue) - 1) :
                queue'[i] = IF i < p THEN queue[i] ELSE queue[i + 1]
  <1>1. rx \in Seq(Frame) /\ pipe \in Seq(Frame) /\ Tail(pipe) \in Seq(Frame)
    BY HeadTailProperties DEF TypeOK
  <1>2. /\ Len(pipe) \in Nat \ {0} /\ Len(Tail(pipe)) = Len(pipe) - 1
        /\ \A i \in 1..Len(Tail(pipe)) : Tail(pipe)[i] = pipe[i + 1]
    BY <1>1, HeadTailProperties, EmptySeq
  <1>3. queue' = rx \o Tail(pipe)
    BY DEF queue
  <1>4. /\ Len(queue) = Len(rx) + Len(pipe) /\ Len(queue') = Len(queue) - 1
        /\ Len(rx) \in Nat
    BY <1>1, <1>2, <1>3, Joined DEF queue
  <1> DEFINE p == Len(rx) + 1
  <1>5. p \in 1..Len(queue) /\ queue[p] = Head(pipe)
    <2>1. 1 \in 1..Len(pipe)
      BY <1>2
    <2> QED
      BY <1>1, <2>1, Joined DEF queue
  <1>6. DOMAIN queue' = 1..(Len(queue) - 1)
    BY <1>1, <1>3, <1>4, Joined
  <1>7. ASSUME NEW i \in 1..(Len(queue) - 1)
        PROVE  queue'[i] = IF i < p THEN queue[i] ELSE queue[i + 1]
    <2>1. CASE i \in 1..Len(rx)
      <3>1. queue'[i] = rx[i] /\ queue[i] = rx[i]
        BY <1>1, <1>3, <2>1, Joined DEF queue
      <3> QED
        BY <1>4, <2>1, <3>1
    <2>2. CASE i - Len(rx) \in 1..Len(Tail(pipe))
      <3> DEFINE j == i - Len(rx)
      <3>1. /\ Len(rx) + j = i /\ Len(rx) + (j + 1) = i + 1 /\ j + 1 \in 1..Len(pipe)
            /\ ~(i < p)
        BY <1>2, <1>4, <2>2
      <3>2. queue'[i] = Tail(pipe)[j]
        BY <1>1, <1>3, <2>2, <3>1, Joined
      <3>3. queue[i + 1] = pipe[j + 1]
        BY <1>1, <3>1, Joined DEF queue
      <3> QED
        BY <1>2, <2>2, <3>1, <3>2, <3>3
    <2> QED
      BY <1>2, <1>4, <2>1, <2>2
  <1> QED
    BY <1>5, <1>6, <1>7
-----------------------------------------------------------------------------
(* What frames say stays true. *)

\* What every step leaves as it is: the problem a channel was closed with, the kind and
\* the channel of an operation; and a new operation's own channel is a new one.
Grows ==
  /\ next_channel' \in Nat /\ next_channel' >= next_channel
  /\ finished \subseteq finished'
  /\ \A c \in Chans : chan[c] \in Problems => chan'[c] = chan[c]
  /\ \A k \in Ids : HasChannel(k) => ops'[k].kind = ops[k].kind /\ ops'[k].chan = ops[k].chan
  /\ \A k \in Ids : ~HasChannel(k) /\ ops'[k].kind \in ChannelKinds =>
       ops'[k].chan \in Nat /\ ops'[k].chan >= next_channel

LEMMA EmitsOwn == \A kind : Emits(kind) \subseteq DbusKinds \cup ChannelKinds
  BY DEF Emits, DbusKinds, ChannelKinds

LEMMA OwnedStable ==
  ASSUME TypeOK, Channels, Grows, NEW f \in Frame, Owned(f)
  PROVE  Owned(f)'
  <1>1. OnChannel(f)'
    <2> SUFFICES ASSUME f.kind \in {"reply", "signal", "data", "batch", "meta"}
                 PROVE  f.id \in Ids /\ ops'[f.id].kind \in Emits(f.kind) /\ f.chan = ops'[f.id].chan
      BY DEF OnChannel
    <2>1. f.id \in Ids /\ ops[f.id].kind \in Emits(f.kind) /\ f.chan = ops[f.id].chan
      BY DEF Owned, OnChannel
    <2>2. HasChannel(f.id)
      BY <2>1, EmitsOwn DEF HasChannel
    <2> QED
      BY <2>1, <2>2 DEF Grows
  <1>2. ASSUME NEW c \in Nat, c < next_channel, NEW k \in Ids, ops'[k].chan = c,
               ops'[k].kind \in ChannelKinds
        PROVE  ops[k].chan = c /\ ops[k].kind = ops'[k].kind
    <2>1. HasChannel(k)
      BY <1>2 DEF Grows, TypeOK
    <2> QED
      BY <1>2, <2>1 DEF Grows
  <1>3. ASSUME NEW c \in Nat, Ended(c) PROVE Ended(c)'
    <2>1. c < next_channel'
      BY <1>3 DEF Ended, Grows, TypeOK
    <2>2. \A k \in Ids : ops'[k].kind \in ChannelKinds /\ ops'[k].chan = c => k \in finished'
      BY <1>2, <1>3 DEF Ended, Grows
    <2> QED
      BY <2>1, <2>2 DEF Ended
  <1>4. f.kind = "bad" => (/\ f.chan \in Chans /\ f.chan < next_channel'
                           /\ \A k \in Ids : ops'[k].kind = "stream" => ops'[k].chan # f.chan)
    <2> SUFFICES ASSUME f.kind = "bad"
                 PROVE  /\ f.chan \in Chans /\ f.chan < next_channel'
                        /\ \A k \in Ids : ops'[k].kind = "stream" => ops'[k].chan # f.chan
      OBVIOUS
    <2>1. /\ f.chan \in Chans /\ f.chan < next_channel
          /\ \A k \in Ids : ops[k].kind = "stream" => ops[k].chan # f.chan
      BY DEF Owned, SaysOfChannel
    <2>2. f.chan \in Nat /\ f.chan < next_channel'
      BY <2>1 DEF Chans, Grows, TypeOK
    <2> QED
      BY <1>2, <2>1, <2>2 DEF ChannelKinds
  <1>5. f.kind = "close" => f.chan \in Chans /\ f.val \in Problems /\ chan'[f.chan] = f.val
    BY DEF Owned, SaysOfChannel, Grows
  <1>6. f.kind = "done" \/ (f.kind = "close" /\ f.val = "none") => Ended(f.chan)'
    <2>1. f.chan \in Nat
      BY BoundsAssumption DEF Frame, BoundsAssumption
    <2>2. (f.kind = "done" \/ (f.kind = "close" /\ f.val = "none")) => Ended(f.chan)
      BY DEF Owned, SaysOfChannel
    <2> QED
      BY <1>3, <2>1, <2>2
  <1>7. SaysOfChannel(f)'
    BY <1>4, <1>5, <1>6 DEF SaysOfChannel
  <1> QED
    BY <1>1, <1>7 DEF Owned

\* Frames that were in the sequence before, and a new one that is owned.
LEMMA FramesStay ==
  ASSUME TypeOK, Channels, FramesOwned, Grows,
         \A i \in DOMAIN queue' :
           (\E j \in DOMAIN queue : queue'[i] = queue[j])
             \/ Owned(queue[i])'
  PROVE  FramesOwned'
  <1> SUFFICES ASSUME NEW i \in DOMAIN queue' PROVE Owned(queue[i])'
    BY DEF FramesOwned
  <1>1. CASE \E j \in DOMAIN queue : queue'[i] = queue[j]
    <2>1. PICK j \in DOMAIN queue : queue'[i] = queue[j]
      BY <1>1
    <2>2. PICK f \in Frame : f = queue[j]
      BY QueueIsSeq, ElementOfSeq
    <2>3. Owned(f)
      BY <2>2 DEF FramesOwned
    <2>4. Owned(f)'
      BY <2>3, OwnedStable
    <2> QED
      BY <2>1, <2>2, <2>4
  <1>2. CASE Owned(queue[i])'
    BY <1>2
  <1> QED
    BY <1>1, <1>2
-----------------------------------------------------------------------------
(* The frames of one operation stay in sequence, however the queue moves. *)

\* Operation k, and what the bridge has written for it, stays as it is.
Unmoved(k) ==
  /\ ops'[k].kind = ops[k].kind /\ ops'[k].chan = ops[k].chan /\ ops'[k].got = ops[k].got
  /\ sent'[k] = sent[k]
  /\ k \in finished => k \in finished'

LEMMA SequenceKept ==
  ASSUME NEW k \in Ids, InSequence(k), EndLast(k), Unmoved(k), queue' = queue
  PROVE  InSequence(k)' /\ EndLast(k)'
  BY DEF InSequence, EndLast, ItemOf, EndOf, Unmoved

\* A frame that is neither an item nor the end of an operation's channel is dropped.
LEMMA SequenceLost ==
  ASSUME TypeOK, NEW k \in Ids, InSequence(k), EndLast(k), Unmoved(k),
         NEW p \in 1..Len(queue), ~ItemOf(queue[p], k),
         DOMAIN queue' = 1..(Len(queue) - 1),
         \A i \in 1..(Len(queue) - 1) : queue'[i] = IF i < p THEN queue[i] ELSE queue[i + 1]
  PROVE  InSequence(k)' /\ EndLast(k)'
  <1>0. Len(queue) \in Nat /\ DOMAIN queue = 1..Len(queue)
    BY QueueIsSeq
  <1> DEFINE at(i) == IF i < p THEN i ELSE i + 1
  <1>1. ASSUME NEW i \in DOMAIN queue' PROVE at(i) \in DOMAIN queue /\ queue'[i] = queue[at(i)]
    BY <1>0
  <1>2. ASSUME NEW i \in DOMAIN queue', NEW j \in DOMAIN queue' PROVE i < j <=> at(i) < at(j)
    BY <1>0
  <1>3. ASSUME NEW j \in DOMAIN queue, j # p PROVE \E i \in DOMAIN queue' : at(i) = j
    <2>1. CASE j < p
      BY <1>0, <2>1
    <2>2. CASE j > p
      <3>1. j - 1 \in DOMAIN queue' /\ at(j - 1) = j
        BY <1>0, <2>2
      <3> QED
        BY <3>1
    <2> QED
      BY <1>0, <1>3, <2>1, <2>2
  <1> HIDE DEF at
  <1>4. \A n \in (Len(ops'[k].got) + 1)..sent'[k] :
          \E i \in DOMAIN queue' : ItemOf(queue'[i], k) /\ queue'[i].n = n
    <2> TAKE n \in (Len(ops'[k].got) + 1)..sent'[k]
    <2>1. PICK j \in DOMAIN queue : ItemOf(queue[j], k) /\ queue[j].n = n
      BY DEF InSequence, Unmoved
    <2>2. PICK i \in DOMAIN queue' : at(i) = j
      BY <1>3, <2>1
    <2> QED
      BY <1>1, <2>1, <2>2
  <1>5. InSequence(k)'
    BY <1>1, <1>2, <1>4 DEF InSequence, ItemOf, Unmoved
  <1>6. EndLast(k)'
    BY <1>1, <1>2 DEF EndLast, ItemOf, EndOf, Unmoved
  <1> QED
    BY <1>5, <1>6

\* A frame is added that is no item of the operation; it may be its end.
LEMMA SequenceWaits ==
  ASSUME TypeOK, NEW k \in Ids, InSequence(k), EndLast(k), Unmoved(k),
         NEW f, ~ItemOf(f, k),
         DOMAIN queue' = 1..(Len(queue) + 1), queue'[Len(queue) + 1] = f,
         \A i \in 1..Len(queue) : queue'[i] = queue[i]
  PROVE  InSequence(k)' /\ EndLast(k)'
  <1>0. Len(queue) \in Nat /\ DOMAIN queue = 1..Len(queue)
    BY QueueIsSeq
  <1>1. ASSUME NEW i \in DOMAIN queue', ItemOf(queue'[i], k)
        PROVE  i \in DOMAIN queue /\ queue'[i] = queue[i] /\ i < Len(queue) + 1
    BY <1>0, <1>1
  <1>2. ASSUME NEW i \in DOMAIN queue'
        PROVE  i = Len(queue) + 1 \/ (i \in DOMAIN queue /\ queue'[i] = queue[i])
    BY <1>0
  <1>3. \A j \in DOMAIN queue : j \in DOMAIN queue' /\ queue'[j] = queue[j]
    BY <1>0
  <1>4. InSequence(k)'
    BY <1>1, <1>3 DEF InSequence, ItemOf, Unmoved
  <1>5. EndLast(k)'
    BY <1>1, <1>2 DEF EndLast, ItemOf, EndOf, Unmoved
  <1> QED
    BY <1>4, <1>5

\* The next item is added.
LEMMA SequenceGrows ==
  ASSUME TypeOK, NEW k \in Ids, InSequence(k), EndLast(k), k \notin finished,
         ops'[k] = ops[k], Len(ops[k].got) \in Nat, Len(ops[k].got) <= sent[k],
         NEW f, ItemOf(f, k), f.n = sent[k] + 1, sent'[k] = sent[k] + 1,
         f.kind = "signal" /\ f.val = "Finished" => k \in finished',
         \A i \in DOMAIN queue : ~(ops[k].kind = "stream" /\ EndOf(queue[i], k)),
         DOMAIN queue' = 1..(Len(queue) + 1), queue'[Len(queue) + 1] = f,
         \A i \in 1..Len(queue) : queue'[i] = queue[i]
  PROVE  InSequence(k)' /\ EndLast(k)'
  <1>0. /\ Len(queue) \in Nat /\ DOMAIN queue = 1..Len(queue) /\ sent[k] \in Nat
    BY QueueIsSeq DEF TypeOK
  <1> DEFINE last == Len(queue) + 1
  <1>1. ASSUME NEW i \in DOMAIN queue'
        PROVE  (i = last /\ queue'[i] = f) \/ (i \in DOMAIN queue /\ queue'[i] = queue[i] /\ i < last)
    BY <1>0
  <1>2. \A j \in DOMAIN queue : j \in DOMAIN queue' /\ queue'[j] = queue[j]
    BY <1>0
  <1>3. \A i \in DOMAIN queue' : ItemOf(queue'[i], k) => queue'[i].n \in (Len(ops'[k].got) + 1)..sent'[k]
    BY <1>0, <1>1 DEF InSequence
  <1>4. \A i, j \in DOMAIN queue' :
          i < j /\ ItemOf(queue'[i], k) /\ ItemOf(queue'[j], k) => queue'[i].n < queue'[j].n
    <2> TAKE i, j \in DOMAIN queue'
    <2> HAVE i < j /\ ItemOf(queue'[i], k) /\ ItemOf(queue'[j], k)
    <2>1. i \in DOMAIN queue /\ queue'[i] = queue[i]
      BY <1>0, <1>1
    <2>2. queue[i].n \in (Len(ops[k].got) + 1)..sent[k]
      BY <2>1 DEF InSequence
    <2>3. CASE j = last /\ queue'[j] = f
      BY <1>0, <2>1, <2>2, <2>3
    <2>4. CASE j \in DOMAIN queue /\ queue'[j] = queue[j]
      BY <2>1, <2>4 DEF InSequence
    <2> QED
      BY <1>1, <2>3, <2>4
  <1>5. \A n \in (Len(ops'[k].got) + 1)..sent'[k] :
          \E i \in DOMAIN queue' : ItemOf(queue'[i], k) /\ queue'[i].n = n
    <2> TAKE n \in (Len(ops'[k].got) + 1)..sent'[k]
    <2>1. CASE n = sent[k] + 1
      <3>1. last \in DOMAIN queue'
        BY <1>0
      <3> QED
        BY <2>1, <3>1
    <2>2. CASE n \in (Len(ops[k].got) + 1)..sent[k]
      BY <1>2, <2>2 DEF InSequence
    <2> QED
      BY <1>0, <2>1, <2>2
  <1>6. InSequence(k)'
    BY <1>3, <1>4, <1>5 DEF InSequence, ItemOf
  <1>7. ASSUME NEW i \in DOMAIN queue', ItemOf(queue'[i], k),
               queue'[i].kind = "signal", queue'[i].val = "Finished"
        PROVE  k \in finished' /\ queue'[i].n = sent'[k]
    <2>1. ~(i \in DOMAIN queue /\ queue'[i] = queue[i])
      BY <1>7 DEF EndLast
    <2> QED
      BY <1>1, <1>7, <2>1
  <1>8. ASSUME ops[k].kind = "stream", NEW j \in DOMAIN queue', EndOf(queue'[j], k)
        PROVE  FALSE
    BY <1>1, <1>8 DEF EndOf, ItemOf
  <1>9. EndLast(k)'
    BY <1>7, <1>8 DEF EndLast, ItemOf, EndOf
  <1> QED
    BY <1>6, <1>9

\* What the first frame is, if it is an item or the end of operation k: the next item,
\* or the sign that there is no more.
LEMMA FirstFrame ==
  ASSUME TypeOK, NEW k \in Ids, InSequence(k), EndLast(k), 1 \in 1..Len(queue),
         Len(ops[k].got) \in Nat, Len(ops[k].got) <= sent[k], NEW f, f = queue[1]
  PROVE  /\ ItemOf(f, k) => f.n = Len(ops[k].got) + 1 /\ f.n <= sent[k]
         /\ ItemOf(f, k) /\ f.kind = "signal" /\ f.val = "Finished" =>
              k \in finished /\ f.n = sent[k]
         /\ ops[k].kind = "stream" /\ EndOf(f, k) => Len(ops[k].got) = sent[k]
  <1>0. /\ Len(queue) \in Nat /\ DOMAIN queue = 1..Len(queue) /\ sent[k] \in Nat
        /\ 1 \in DOMAIN queue
    BY QueueIsSeq DEF TypeOK
  <1>1. ASSUME ItemOf(f, k) PROVE f.n = Len(ops[k].got) + 1 /\ f.n <= sent[k]
    <2>1. f.n \in (Len(ops[k].got) + 1)..sent[k]
      BY <1>0, <1>1 DEF InSequence
    <2>2. Len(ops[k].got) + 1 \in (Len(ops[k].got) + 1)..sent[k]
      BY <1>0, <2>1
    <2>3. PICK i \in DOMAIN queue : ItemOf(queue[i], k) /\ queue[i].n = Len(ops[k].got) + 1
      BY <2>2 DEF InSequence
    <2>4. CASE i = 1
      BY <1>0, <2>1, <2>3, <2>4
    <2>5. CASE 1 < i
      <3>1. f.n < Len(ops[k].got) + 1
        BY <1>0, <1>1, <2>3, <2>5 DEF InSequence
      <3> QED
        BY <1>0, <2>1, <3>1
    <2> QED
      BY <1>0, <2>4, <2>5
  <1>2. ItemOf(f, k) /\ f.kind = "signal" /\ f.val = "Finished" => k \in finished /\ f.n = sent[k]
    BY <1>0 DEF EndLast
  <1>3. ASSUME ops[k].kind = "stream", EndOf(f, k) PROVE Len(ops[k].got) = sent[k]
    <2>1. \A i \in DOMAIN queue : ~ItemOf(queue[i], k)
      <3> SUFFICES ASSUME NEW i \in DOMAIN queue, ItemOf(queue[i], k) PROVE FALSE
        OBVIOUS
      <3>1. i < 1
        BY <1>0, <1>3 DEF EndLast
      <3> QED
        BY <1>0, <3>1
    <2>2. \A n \in (Len(ops[k].got) + 1)..sent[k] : FALSE
      BY <2>1 DEF InSequence
    <2>3. ~(Len(ops[k].got) + 1 <= sent[k])
      BY <1>0, <2>2
    <2> QED
      BY <1>0, <2>3
  <1> QED
    BY <1>1, <1>2, <1>3

\* The first frame is read, and taken if it is an item.
LEMMA SequenceRead ==
  ASSUME TypeOK, NEW k \in Ids, InSequence(k), EndLast(k), 1 \in 1..Len(queue),
         Len(ops[k].got) \in Nat, Len(ops[k].got) <= sent[k],
         ops'[k].kind = ops[k].kind, ops'[k].chan = ops[k].chan,
         sent'[k] = sent[k], k \in finished => k \in finished',
         Len(ops'[k].got) = IF ItemOf(queue[1], k) THEN Len(ops[k].got) + 1 ELSE Len(ops[k].got),
         DOMAIN queue' = 1..(Len(queue) - 1),
         \A i \in 1..(Len(queue) - 1) : i + 1 \in 1..Len(queue) /\ queue'[i] = queue[i + 1]
  PROVE  InSequence(k)' /\ EndLast(k)'
  <1>0. /\ Len(queue) \in Nat /\ DOMAIN queue = 1..Len(queue) /\ sent[k] \in Nat
        /\ 1 \in DOMAIN queue
    BY QueueIsSeq DEF TypeOK
  <1>1. \A i \in DOMAIN queue' : i + 1 \in DOMAIN queue /\ queue'[i] = queue[i + 1]
    BY <1>0
  <1>2. ItemOf(queue[1], k) => queue[1].n = Len(ops[k].got) + 1
    BY FirstFrame
  <1>3. ASSUME NEW i \in DOMAIN queue', ItemOf(queue'[i], k)
        PROVE  queue'[i].n \in (Len(ops'[k].got) + 1)..sent'[k]
    <2>1. ItemOf(queue[i + 1], k) /\ queue[i + 1].n \in (Len(ops[k].got) + 1)..sent[k]
      BY <1>1, <1>3 DEF InSequence
    <2>2. CASE ItemOf(queue[1], k)
      <3>0. PICK j \in DOMAIN queue : j = i + 1 /\ 1 < j
        BY <1>0, <1>1
      <3>1. queue[1].n < queue[j].n
        BY <1>0, <2>1, <2>2, <3>0 DEF InSequence
      <3> QED
        BY <1>0, <1>1, <1>2, <2>1, <2>2, <3>0, <3>1
    <2>3. CASE ~ItemOf(queue[1], k)
      BY <1>1, <2>1, <2>3
    <2> QED
      BY <2>2, <2>3
  <1>4. \A i, j \in DOMAIN queue' :
          i < j /\ ItemOf(queue'[i], k) /\ ItemOf(queue'[j], k) => queue'[i].n < queue'[j].n
    BY <1>0, <1>1 DEF InSequence
  <1>5. \A n \in (Len(ops'[k].got) + 1)..sent'[k] :
          \E i \in DOMAIN queue' : ItemOf(queue'[i], k) /\ queue'[i].n = n
    <2> TAKE n \in (Len(ops'[k].got) + 1)..sent'[k]
    <2>1. n \in (Len(ops[k].got) + 1)..sent[k]
      BY <1>0
    <2>2. PICK j \in DOMAIN queue : ItemOf(queue[j], k) /\ queue[j].n = n
      BY <2>1 DEF InSequence
    <2>3. j # 1
      BY <1>0, <1>2, <2>1, <2>2
    <2>4. j - 1 \in DOMAIN queue' /\ (j - 1) + 1 = j
      BY <1>0, <2>3
    <2> QED
      BY <1>1, <2>2, <2>4
  <1>6. InSequence(k)'
    BY <1>3, <1>4, <1>5 DEF InSequence, ItemOf
  <1>7. ASSUME NEW i \in DOMAIN queue', ItemOf(queue'[i], k),
               queue'[i].kind = "signal", queue'[i].val = "Finished"
        PROVE  k \in finished' /\ queue'[i].n = sent'[k]
    BY <1>1, <1>7 DEF EndLast
  <1>8. ASSUME ops[k].kind = "stream", NEW i \in DOMAIN queue', NEW j \in DOMAIN queue',
               ItemOf(queue'[i], k), EndOf(queue'[j], k)
        PROVE  i < j
    <2>1. i + 1 < j + 1
      BY <1>1, <1>8 DEF EndLast
    <2> QED
      BY <1>0, <2>1
  <1>9. EndLast(k)'
    BY <1>7, <1>8 DEF EndLast, ItemOf, EndOf
  <1> QED
    BY <1>6, <1>9
-----------------------------------------------------------------------------
(* What an operation has got stays true. *)

LEMMA ResultKept ==
  ASSUME TypeOK, Channels, Grows, NEW k \in Ids, Result(k), ops'[k] = ops[k],
         sent'[k] \in Nat, sent'[k] >= sent[k], k \in finished => sent'[k] = sent[k]
  PROVE  Result(k)'
  <1>0. sent[k] \in Nat /\ ops[k].got \in Seq(Nat)
    BY DEF TypeOK, Operation
  <1>1. Whole(k)'
    <2>1. Len(ops[k].got) \in Nat
      BY <1>0, LenProperties
    <2> QED
      BY <1>0, <2>1 DEF Result, Whole, Grows
  <1>2. Bounded(k)'
    BY DEF Result, Bounded, Grows
  <1>3. Reported(k)'
    <2> SUFFICES ASSUME ops[k].out \in CloseErrors \cup {"DependencyMissing"}
                 PROVE  /\ HasChannel(k)
                        /\ ReportOf(ops[k].kind, chan'[ops[k].chan], ops[k].out)
      BY DEF Reported, HasChannel, ReportOf, ClosedAs
    <2>1. HasChannel(k) /\ ReportOf(ops[k].kind, chan[ops[k].chan], ops[k].out)
      BY DEF Result, Reported
    <2>2. ops[k].chan \in Chans /\ chan[ops[k].chan] \in Problems
      BY <2>1 DEF Channels, ReportOf
    <2> QED
      BY <2>1, <2>2 DEF Grows
  <1> QED
    BY <1>1, <1>2, <1>3 DEF Result

LEMMA ResultsMean ==
  ASSUME Results
  PROVE  CollectedWhole /\ SamplesBounded /\ CloseReportedByOwner
  <1>1. CollectedWhole
    BY DEF Results, Result, Whole, CollectedWhole
  <1>2. SamplesBounded
    BY DEF Results, Result, Bounded, SamplesBounded
  <1>3. CloseReportedByOwner
    BY DEF Results, Result, Reported, ReportOf, CloseReportedByOwner
  <1> QED
    BY <1>1, <1>2, <1>3

\* A reply in the queue stays there while its call waits.
LEMMA AnswersStay ==
  ASSUME TypeOK, AnswersQueued,
         \A k \in Ids :
           k \in replied' /\ ops'[k].kind = "call" /\ ops'[k].out = "pending" /\ reader' # "broken" =>
           \/ \E i \in DOMAIN queue' : queue'[i].kind = "reply" /\ queue'[i].id = k
           \/ /\ k \in replied /\ ops[k].kind = "call" /\ ops[k].out = "pending" /\ reader # "broken"
              /\ \A j \in DOMAIN queue : queue[j].kind = "reply" /\ queue[j].id = k =>
                   \E i \in DOMAIN queue' : queue'[i] = queue[j],
         replied' \subseteq Ids
  PROVE  AnswersQueued'
  BY DEF AnswersQueued, AnswerQueued

LEMMA AnswersMean ==
  ASSUME TypeOK, AnswersQueued
  PROVE  AnswerKept
  BY InFlightIsQueue, QueueIsSeq DEF AnswersQueued, AnswerQueued, AnswerKept
-----------------------------------------------------------------------------
(* Starting an operation. *)

LEMMA KindsApart ==
  /\ DbusKinds \cap ChannelKinds = {}
  /\ \A kind \in {"none", "init"} : kind \notin DbusKinds \cup ChannelKinds
  BY DEF DbusKinds, ChannelKinds

\* The operation about to start has left no trace: nothing was written for it.
LEMMA Untouched ==
  ASSUME QueueInv, nextOp \in Ids
  PROVE  /\ ops[nextOp].kind = "none" /\ ~HasChannel(nextOp)
         /\ nextOp \notin replied /\ nextOp \notin finished /\ sent[nextOp] = 0
         /\ \A i \in DOMAIN queue : ~ItemOf(queue[i], nextOp)
  <1>1. ops[nextOp].kind = "none"
    BY DEF QueueInv, CallInv, OrderInv, Ids
  <1>2. ~HasChannel(nextOp)
    BY <1>1, KindsApart DEF HasChannel
  <1>3. nextOp \notin replied /\ nextOp \notin finished /\ sent[nextOp] = 0
    BY DEF QueueInv, Channels, Ids
  <1>4. ASSUME NEW i \in DOMAIN queue, ItemOf(queue[i], nextOp) PROVE FALSE
    <2>1. OnChannel(queue[i])
      BY DEF QueueInv, FramesOwned, Owned
    <2>2. ops[nextOp].kind \in Emits(queue[i].kind)
      BY <1>4, <2>1 DEF ItemOf, OnChannel
    <2> QED
      BY <1>1, <2>2, EmitsOwn, KindsApart
  <1> QED
    BY <1>1, <1>2, <1>3, <1>4

LEMMA StartOp ==
  ASSUME QueueInv, NEW kind \in {"init"} \cup DbusKinds \cup ChannelKinds,
         NEW c \in 0..MaxChannels, Start(kind, c)
  PROVE  /\ nextOp \in Ids /\ nextOp' = nextOp + 1 /\ cur = 0
         /\ ops'[nextOp].kind = kind /\ ops'[nextOp].chan = c /\ ops'[nextOp].got = <<>>
         /\ ops'[nextOp].out \in {"pending", "Killed"}
         /\ \A k \in Ids : k # nextOp => ops'[k] = ops[k] /\ ops[k].out # "pending"
  <1>1. /\ nextOp \in Ids /\ nextOp' = nextOp + 1 /\ cur = 0
        /\ \A k \in Ids : k # nextOp => ops'[k] = ops[k]
    BY StartFacts DEF QueueInv, CallInv, Start
  <1>2. ops'[nextOp] = [kind |-> kind, chan |-> c, got |-> <<>>,
                        out |-> IF bridge = "running" THEN "pending" ELSE "Killed"]
    BY <1>1 DEF Start, QueueInv, CallInv, AnswerInv, TypeOK
  <1>3. \A k \in Ids : ops[k].out # "pending"
    BY <1>1 DEF QueueInv, CallInv, OrderInv, Ids
  <1> QED
    BY <1>1, <1>2, <1>3

\* The channel of a new operation: none, one of a D-Bus service, or a new one.
Opens(kind, c) ==
  \/ kind = "init" /\ UNCHANGED <<next_channel, chan>>
  \/ kind \in DbusKinds /\ c \in Chans /\ DbusChannel(c) /\ UNCHANGED <<next_channel, chan>>
  \/ kind \in ChannelKinds /\ c \in Chans /\ Allocate(c)

LEMMA AllocateKeeps ==
  ASSUME TypeOK, Channels, NEW c \in Chans, Allocate(c)
  PROVE  /\ c = next_channel /\ next_channel' = next_channel + 1
         /\ next_channel \in Nat /\ next_channel' \in Nat
         /\ \A d \in Chans : d # c => chan'[d] = chan[d]
         /\ chan[c] = "unused"
  <1>1. c = next_channel /\ next_channel' = next_channel + 1 /\ next_channel \in Nat
    BY BoundsAssumption DEF Allocate, TypeOK, BoundsAssumption
  <1>2. \A d \in Chans : d # c => chan'[d] = chan[d]
    BY DEF Allocate, TypeOK
  <1>3. chan[c] = "unused"
    BY <1>1 DEF Channels
  <1> QED
    BY <1>1, <1>2, <1>3

LEMMA ProblemsApart == {"unused", "open", "dropped"} \cap Problems = {}
  BY KindsAssumption DEF KindsAssumption

LEMMA StartGrows ==
  ASSUME QueueInv, NEW kind \in {"init"} \cup DbusKinds \cup ChannelKinds,
         NEW c \in 0..MaxChannels, Start(kind, c), Opens(kind, c), UNCHANGED finished
  PROVE  Grows
  <1> USE DEF QueueInv, CallInv, AnswerInv
  <1>1. next_channel \in Nat
    BY BoundsAssumption DEF TypeOK, BoundsAssumption
  <1>2. next_channel' \in Nat /\ next_channel' >= next_channel
    BY <1>1, AllocateKeeps DEF Opens
  <1>3. \A d \in Chans : chan[d] \in Problems => chan'[d] = chan[d]
    BY AllocateKeeps, ProblemsApart DEF Opens
  <1>4. \A k \in Ids : HasChannel(k) => ops'[k].kind = ops[k].kind /\ ops'[k].chan = ops[k].chan
    BY StartOp, Untouched
  <1>5. ASSUME NEW k \in Ids, ~HasChannel(k), ops'[k].kind \in ChannelKinds
        PROVE  ops'[k].chan \in Nat /\ ops'[k].chan >= next_channel
    <2>1. k = nextOp
      BY <1>5, StartOp DEF HasChannel
    <2>2. kind \in ChannelKinds /\ ops'[k].chan = c
      BY <1>5, <2>1, StartOp
    <2>3. c = next_channel
      BY <2>2, AllocateKeeps, KindsApart DEF Opens
    <2> QED
      BY <1>1, <2>2, <2>3
  <1> QED
    BY <1>2, <1>3, <1>4, <1>5 DEF Grows

LEMMA StartChannels ==
  ASSUME QueueInv, NEW kind \in {"init"} \cup DbusKinds \cup ChannelKinds,
         NEW c \in 0..MaxChannels, Start(kind, c), Opens(kind, c),
         UNCHANGED <<replied, finished, sent>>
  PROVE  Channels'
  <1> USE DEF QueueInv, CallInv, AnswerInv
  <1>0. PICK me \in Ids : me = nextOp
    BY StartOp
  <1>1. /\ ops'[me].kind = kind /\ ops'[me].chan = c /\ ~HasChannel(me)
        /\ \A k \in Ids : k # me => ops'[k] = ops[k]
    BY <1>0, StartOp, Untouched
  <1>2. next_channel \in Nat /\ next_channel' >= next_channel /\ next_channel' \in Nat
    BY StartGrows DEF Grows, TypeOK
  <1>3. ASSUME NEW k \in Ids, HasChannel(k)'
        PROVE  ops'[k].chan \in Chans /\ ops'[k].chan < next_channel'
    <2>1. CASE k = me
      <3>1. kind \in DbusKinds \cup ChannelKinds
        BY <1>1, <1>3, <2>1 DEF HasChannel
      <3>2. c \in Chans /\ c < next_channel'
        BY <1>2, <3>1, AllocateKeeps, KindsApart DEF Opens, DbusChannel
      <3> QED
        BY <1>1, <2>1, <3>2
    <2>2. CASE k # me
      <3>1. HasChannel(k) /\ ops'[k] = ops[k]
        BY <1>1, <1>3, <2>2 DEF HasChannel
      <3>2. ops[k].chan \in Chans /\ ops[k].chan < next_channel
        BY <3>1 DEF Channels
      <3> QED
        BY <1>2, <3>1, <3>2 DEF Chans
    <2> QED
      BY <2>1, <2>2
  <1>4. ASSUME NEW j \in Ids, NEW k \in Ids, HasChannel(j)', ops'[k].kind \in ChannelKinds,
               ops'[j].chan = ops'[k].chan
        PROVE  j = k
    <2>1. CASE j # me /\ k # me
      <3>1. HasChannel(j) /\ ops'[j] = ops[j] /\ ops'[k] = ops[k]
        BY <1>1, <1>4, <2>1 DEF HasChannel
      <3> QED
        BY <1>4, <3>1 DEF Channels
    <2>2. CASE j = me /\ k # me
      <3>1. ops'[k] = ops[k] /\ HasChannel(k) /\ ops[k].chan = c
        BY <1>1, <1>4, <2>2 DEF HasChannel
      <3>2. ops[k].chan \in Chans /\ ops[k].chan < next_channel
        BY <3>1 DEF Channels
      <3>3. kind \in DbusKinds \cup ChannelKinds
        BY <1>1, <1>4, <2>2 DEF HasChannel
      <3>4. CASE kind \in DbusKinds
        BY <1>4, <3>1, <3>4, KindsApart DEF Opens, DbusChannel
      <3>5. CASE kind \in ChannelKinds
        BY <1>2, <3>1, <3>2, <3>5, AllocateKeeps, KindsApart DEF Opens
      <3> QED
        BY <3>3, <3>4, <3>5
    <2>3. CASE j # me /\ k = me
      <3>1. ops'[j] = ops[j] /\ HasChannel(j) /\ ops[j].chan = c /\ kind \in ChannelKinds
        BY <1>1, <1>4, <2>3 DEF HasChannel
      <3>2. ops[j].chan < next_channel /\ c = next_channel
        BY <3>1, AllocateKeeps, KindsApart DEF Opens, Channels
      <3> QED
        BY <1>2, <3>1, <3>2
    <2> QED
      BY <2>1, <2>2, <2>3
  <1>5. \A d \in Chans : d >= next_channel' => chan'[d] = "unused"
    <2> SUFFICES ASSUME NEW d \in Chans, d >= next_channel' PROVE chan'[d] = "unused"
      OBVIOUS
    <2>1. d \in Nat /\ d >= next_channel
      BY <1>2 DEF Chans
    <2>2. chan[d] = "unused"
      BY <2>1 DEF Channels
    <2>3. chan'[d] = chan[d]
      BY <2>1, AllocateKeeps DEF Opens
    <2> QED
      BY <2>2, <2>3
  <1>6. \A k \in Ids : k >= nextOp' => k \notin replied' /\ k \notin finished' /\ sent'[k] = 0
    <2> SUFFICES ASSUME NEW k \in Ids, k >= nextOp'
                 PROVE  k \notin replied /\ k \notin finished /\ sent[k] = 0
      OBVIOUS
    <2>1. k >= nextOp
      BY <1>0, StartOp DEF Ids
    <2> QED
      BY <2>1 DEF Channels
  <1> QED
    BY <1>3, <1>4, <1>5, <1>6 DEF Channels

LEMMA NothingCounted == <<>> = [i \in 1..Len(<<>>) |-> i]
  <1>1. Len(<<>>) = 0
    BY EmptySeq
  <1>2. [i \in 1..0 |-> i] \in Seq(Nat)
    BY CountedIsSeq
  <1>3. Len([i \in 1..0 |-> i]) = 0
    BY LenProperties, <1>2
  <1> QED
    BY <1>1, <1>2, <1>3, EmptySeq

\* A new operation waits for nothing that is already in the queue.
LEMMA StartQueue ==
  ASSUME QueueInv, CallInv', NEW kind \in {"init"} \cup DbusKinds \cup ChannelKinds,
         NEW c \in 0..MaxChannels, Start(kind, c), Opens(kind, c),
         UNCHANGED <<pipe, rx, replied, finished, sent>>
  PROVE  QueueInv'
  <1> USE DEF QueueInv, CallInv, AnswerInv
  <1>0. PICK me \in Ids : me = nextOp
    BY StartOp
  <1>1. /\ ops'[me].kind = kind /\ ops'[me].got = <<>> /\ ops'[me].out \in {"pending", "Killed"}
        /\ \A k \in Ids : k # me => ops'[k] = ops[k] /\ ops[k].out # "pending"
        /\ me \notin replied /\ me \notin finished /\ sent[me] = 0
        /\ \A i \in DOMAIN queue : ~ItemOf(queue[i], me)
    BY <1>0, StartOp, Untouched
  <1>2. queue' = queue /\ Grows
    BY StartGrows DEF queue
  <1>3. FramesOwned'
    BY <1>2, FramesStay
  <1>4. Sequenced'
    <2> SUFFICES ASSUME NEW k \in Ids, ops'[k].kind \in {"collect", "stream"}, ops'[k].out = "pending"
                 PROVE  InSequence(k)' /\ EndLast(k)'
      BY DEF Sequenced
    <2>1. k = me
      BY <1>1
    <2>2. Len(ops'[k].got) = 0 /\ sent'[k] = 0
      BY <1>1, <2>1, EmptySeq
    <2>3. \A i \in DOMAIN queue' : ~ItemOf(queue'[i], k)
      BY <1>1, <1>2, <2>1
    <2> QED
      BY <2>2, <2>3 DEF InSequence, EndLast, ItemOf
  <1>5. Results'
    <2> SUFFICES ASSUME NEW k \in Ids PROVE Result(k)'
      BY DEF Results
    <2>1. CASE k = me
      <3>1. Len(ops'[k].got) = 0 /\ ops'[k].got = <<>> /\ sent'[k] = 0
        BY <1>1, <2>1, EmptySeq
      <3>2. ops'[k].out \notin CloseErrors \cup {"ok", "DependencyMissing"}
        BY <1>1, <2>1 DEF CloseErrors
      <3>3. Whole(k)'
        BY <3>1, <3>2, NothingCounted DEF Whole
      <3>4. Bounded(k)' /\ Reported(k)'
        BY <3>1, <3>2, BoundsAssumption DEF Bounded, Reported, BoundsAssumption
      <3> QED
        BY <3>3, <3>4 DEF Result
    <2>2. CASE k # me
      <3>1. sent'[k] = sent[k] /\ sent[k] \in Nat /\ ops'[k] = ops[k] /\ Result(k)
        BY <1>1, <2>2 DEF TypeOK, Results
      <3> QED
        BY <1>2, <3>1, ResultKept
    <2> QED
      BY <2>1, <2>2
  <1>6. AnswersQueued'
    BY <1>1 DEF AnswersQueued, TypeOK
  <1>7. Channels'
    BY StartChannels
  <1> QED
    BY <1>3, <1>4, <1>5, <1>6, <1>7
-----------------------------------------------------------------------------
(* One turn of a receive loop. *)

LEMMA CountNext ==
  ASSUME NEW s \in Seq(Nat), s = [i \in 1..Len(s) |-> i], NEW m, m = Len(s) + 1
  PROVE  /\ Len(Append(s, m)) = m
         /\ Append(s, m) = [i \in 1..m |-> i]
  <1>1. Len(s) \in Nat /\ m \in Nat
    BY LenProperties
  <1>2. /\ Append(s, m) \in Seq(Nat) /\ Len(Append(s, m)) = m
        /\ \A i \in 1..Len(s) : Append(s, m)[i] = s[i]
        /\ Append(s, m)[m] = m
    BY <1>1, AppendProperties
  <1>3. [i \in 1..m |-> i] \in Seq(Nat) /\ Len([i \in 1..m |-> i]) = m
    BY <1>1, CountedIsSeq, LenProperties
  <1>4. \A i \in 1..m : Append(s, m)[i] = i
    <2> TAKE i \in 1..m
    <2>1. CASE i = m
      BY <1>2, <2>1
    <2>2. CASE i \in 1..Len(s)
      <3>1. s[i] = i
        BY <2>2
      <3> QED
        BY <1>2, <2>2, <3>1
    <2> QED
      BY <1>1, <2>1, <2>2
  <1> QED
    BY <1>2, <1>3, <1>4, SeqEqual

LEMMA SettleOp ==
  ASSUME TypeOK, cur \in Ids, NEW out \in Outcomes, NEW got \in Seq(Nat), Settle(out, got)
  PROVE  /\ ops'[cur].kind = ops[cur].kind /\ ops'[cur].chan = ops[cur].chan
         /\ ops'[cur].out = out /\ ops'[cur].got = got
         /\ \A k \in Ids : k # cur => ops'[k] = ops[k]
  <1>1. ops' = [ops EXCEPT ![cur].out = out, ![cur].got = got]
    BY DEF Settle
  <1>2. ops[cur] \in Operation
    BY DEF TypeOK
  <1>3. ops'[cur] = [ops[cur] EXCEPT !.out = out, !.got = got]
    BY <1>1 DEF TypeOK
  <1>4. \A k \in Ids : k # cur => ops'[k] = ops[k]
    BY <1>1 DEF TypeOK
  <1> QED
    BY <1>2, <1>3, <1>4 DEF Operation

\* No operation begins and no channel is opened.
LEMMA NothingOpens ==
  ASSUME TypeOK, Channels,
         \A k \in Ids : ops'[k].kind = ops[k].kind /\ ops'[k].chan = ops[k].chan,
         UNCHANGED <<nextOp, next_channel>>, finished \subseteq finished',
         \A c \in Chans : chan'[c] = chan[c] \/ chan[c] = "open",
         \A k \in Ids : k >= nextOp =>
           k \notin replied' /\ k \notin finished' /\ sent'[k] = 0
  PROVE  Grows /\ Channels'
  <1>1. next_channel \in Nat
    BY BoundsAssumption DEF TypeOK, BoundsAssumption
  <1>2. \A c \in Chans : chan[c] # "open" => chan'[c] = chan[c]
    OBVIOUS
  <1>3. Grows
    BY <1>1, <1>2, ProblemsApart DEF Grows, HasChannel
  <1>4. Channels'
    BY <1>2 DEF Channels, HasChannel
  <1> QED
    BY <1>3, <1>4

\* What operation k has after a frame was looked at, and how many items that are.
Gathered(f, k) == IF ItemOf(f, k) THEN Append(ops[k].got, f.n) ELSE ops[k].got
Count(f, k) == IF ItemOf(f, k) THEN Len(ops[k].got) + 1 ELSE Len(ops[k].got)

\* An operation that ends in order has all the bridge wrote for it.
LEMMA SettledWhole ==
  ASSUME QueueInv, cur \in Ids, NEW f \in Frame, 1 \in 1..Len(queue), f = queue[1],
         NEW out, NEW got, ops[cur].out = "pending",
         ops'[cur].kind = ops[cur].kind, ops'[cur].out = out, ops'[cur].got = got,
         ops[cur].kind \in {"collect", "stream"},
         got = Gathered(f, cur),
         out = "ok" =>
           \/ ItemOf(f, cur) /\ f.kind = "signal" /\ f.val = "Finished"
           \/ ops[cur].kind = "stream" /\ EndOf(f, cur),
         UNCHANGED <<sent, finished>>
  PROVE  /\ Len(got) = Count(f, cur)
         /\ got = [i \in 1..Len(got) |-> i]
         /\ Len(got) <= sent[cur]
         /\ out = "ok" => cur \in finished /\ Len(got) = sent[cur]
  <1> USE DEF QueueInv, CallInv, AnswerInv, Gathered, Count
  <1>0. PICK me \in Ids : me = cur
    OBVIOUS
  <1>1. /\ ops[me].got \in Seq(Nat) /\ Len(ops[me].got) \in Nat /\ sent[me] \in Nat
        /\ ops[me].got = [i \in 1..Len(ops[me].got) |-> i]
        /\ Len(ops[me].got) <= sent[me]
    <2>1. ops[me].got \in Seq(Nat) /\ sent[me] \in Nat
      BY DEF TypeOK, Operation
    <2> QED
      BY <1>0, <2>1, LenProperties DEF Results, Result, Whole
  <1>2. InSequence(me) /\ EndLast(me)
    BY <1>0 DEF Sequenced
  <1>3. /\ ItemOf(f, me) => f.n = Len(ops[me].got) + 1 /\ f.n <= sent[me]
        /\ ItemOf(f, me) /\ f.kind = "signal" /\ f.val = "Finished" =>
             me \in finished /\ f.n = sent[me]
        /\ ops[me].kind = "stream" /\ EndOf(f, me) => Len(ops[me].got) = sent[me]
    BY <1>1, <1>2, FirstFrame
  <1>4. CASE ItemOf(f, me)
    <2>1. Len(got) = f.n /\ got = [i \in 1..f.n |-> i] /\ f.n = Len(ops[me].got) + 1
      BY <1>0, <1>1, <1>3, <1>4, CountNext
    <2>2. ~EndOf(f, me)
      BY <1>4 DEF ItemOf, EndOf
    <2> QED
      BY <1>0, <1>3, <1>4, <2>1, <2>2
  <1>5. CASE ~ItemOf(f, me)
    <2>1. got = ops[me].got
      BY <1>0, <1>5
    <2>2. ASSUME out = "ok" PROVE me \in finished /\ Len(got) = sent[me]
      <3>1. ops[me].kind = "stream" /\ EndOf(f, me)
        BY <1>0, <1>5, <2>2
      <3>2. SaysOfChannel(f)
        BY QueueIsSeq DEF FramesOwned, Owned
      <3>3. Ended(f.chan) /\ f.chan = ops[me].chan
        BY <3>1, <3>2 DEF SaysOfChannel, EndOf
      <3>4. me \in finished
        BY <3>1, <3>3 DEF Ended, ChannelKinds
      <3> QED
        BY <1>3, <2>1, <3>1, <3>4
    <2> QED
      BY <1>0, <1>1, <1>5, <2>1, <2>2
  <1> QED
    BY <1>4, <1>5

\* What a turn may make of the operation: of kind `kind`, with outcome out and items got.
TurnOf(f, kind, out, got) ==
  /\ out \in CloseErrors \cup {"DependencyMissing"} =>
       HasChannel(cur) /\ ReportOf(kind, chan[ops[cur].chan], out)
  /\ kind \in {"collect", "stream"} =>
       /\ got = Gathered(f, cur)
       /\ out = "ok" =>
            \/ ItemOf(f, cur) /\ f.kind = "signal" /\ f.val = "Finished"
            \/ kind = "stream" /\ EndOf(f, cur)
  /\ kind = "metrics" =>
       Len(got) <= SampleCount /\ (out = "ok" => cur \in finished \/ Len(got) = SampleCount)
  /\ kind = "call" /\ out = "pending" => ~(f.kind = "reply" /\ f.id = cur)

LEMMA TurnQueue ==
  ASSUME QueueInv, CallInv', cur \in Ids, rx # <<>>, rx' = Tail(rx), pipe' = pipe,
         NEW f, f = Head(rx), NEW out \in Outcomes, NEW got \in Seq(Nat),
         Settle(out, got), TurnOf(f, ops[cur].kind, out, got),
         UNCHANGED <<nextOp, next_channel, replied, finished, sent>>,
         \A c \in Chans : chan'[c] = chan[c] \/ chan[c] = "open",
         reader' = reader \/ ops[cur].kind # "call"
  PROVE  QueueInv'
  <1> USE DEF QueueInv, CallInv, AnswerInv
  <1>0. PICK me \in Ids : me = cur
    OBVIOUS
  <1>1. /\ ops'[me].kind = ops[me].kind /\ ops'[me].chan = ops[me].chan
        /\ ops'[me].out = out /\ ops'[me].got = got
        /\ \A k \in Ids : k # me => ops'[k] = ops[k] /\ ops[k].out # "pending"
        /\ ops[me].out = "pending"
    <2>1. cur # 0
      BY BoundsAssumption DEF Ids, BoundsAssumption
    <2> QED
      BY <1>0, <2>1, SettleOp DEF OrderInv
  <1>2. \A k \in Ids : k >= nextOp => k \notin replied /\ k \notin finished /\ sent[k] = 0
    BY DEF Channels
  <1>3. Grows /\ Channels'
    BY <1>1, <1>2, NothingOpens
  <1>4. /\ 1 \in 1..Len(queue) /\ queue[1] = f /\ f \in Frame
        /\ DOMAIN queue' = 1..(Len(queue) - 1)
        /\ \A i \in 1..(Len(queue) - 1) : i + 1 \in 1..Len(queue) /\ queue'[i] = queue[i + 1]
    BY ReadQueue, HeadTail DEF TypeOK
  <1>5. FramesOwned'
    <2>1. \A i \in DOMAIN queue' : \E j \in DOMAIN queue : queue'[i] = queue[j]
      BY <1>4, QueueIsSeq
    <2> QED
      BY <1>3, <2>1, FramesStay
  <1>6. ASSUME ops[me].kind \in {"collect", "stream"}
        PROVE  /\ Len(got) = Count(f, me)
               /\ got = [i \in 1..Len(got) |-> i]
               /\ Len(got) <= sent[me]
               /\ out = "ok" => me \in finished /\ Len(got) = sent[me]
    <2>1. /\ got = Gathered(f, cur)
          /\ out = "ok" =>
               \/ ItemOf(f, cur) /\ f.kind = "signal" /\ f.val = "Finished"
               \/ ops[cur].kind = "stream" /\ EndOf(f, cur)
      BY <1>0, <1>6 DEF TurnOf
    <2>2. /\ ops[cur].out = "pending" /\ ops'[cur].kind = ops[cur].kind
          /\ ops'[cur].out = out /\ ops'[cur].got = got
          /\ ops[cur].kind \in {"collect", "stream"}
          /\ f \in Frame /\ 1 \in 1..Len(queue) /\ f = queue[1] /\ UNCHANGED <<sent, finished>>
      BY <1>0, <1>1, <1>4, <1>6
    <2>3. /\ Len(got) = Count(f, cur)
          /\ got = [i \in 1..Len(got) |-> i]
          /\ Len(got) <= sent[cur]
          /\ out = "ok" => cur \in finished /\ Len(got) = sent[cur]
      <3> HIDE DEF QueueInv, CallInv, AnswerInv
      <3> QED
        BY <2>1, <2>2, SettledWhole
    <2> QED
      BY <1>0, <2>3
  <1>7. Sequenced'
    <2> SUFFICES ASSUME NEW k \in Ids, ops'[k].kind \in {"collect", "stream"}, ops'[k].out = "pending"
                 PROVE  InSequence(k)' /\ EndLast(k)'
      BY DEF Sequenced
    <2>1. k = me
      BY <1>1
    <2>2. ops[me].kind \in {"collect", "stream"}
      BY <1>1, <2>1
    <2>3. Len(ops[me].got) \in Nat /\ Len(ops[me].got) <= sent[me]
      BY <2>2, LenProperties DEF TypeOK, Operation, Results, Result, Whole
    <2>4. InSequence(me) /\ EndLast(me)
      BY <1>1, <2>2 DEF Sequenced
    <2>5. Len(ops'[me].got) = IF ItemOf(queue[1], me) THEN Len(ops[me].got) + 1 ELSE Len(ops[me].got)
      BY <1>1, <1>4, <1>6, <2>2 DEF Count
    <2> QED
      BY <1>1, <1>4, <2>1, <2>3, <2>4, <2>5, SequenceRead
  <1>8. Results'
    <2> SUFFICES ASSUME NEW k \in Ids PROVE Result(k)'
      BY DEF Results
    <2>1. CASE k = me
      <3>1. Whole(k)'
        BY <1>1, <1>6, <2>1 DEF Whole
      <3>2. Bounded(k)'
        BY <1>0, <1>1, <2>1 DEF TurnOf, Bounded
      <3>3. Reported(k)'
        <4> SUFFICES ASSUME out \in CloseErrors \cup {"DependencyMissing"}
                     PROVE  HasChannel(me) /\ ReportOf(ops[me].kind, chan'[ops[me].chan], out)
          BY <1>1, <2>1 DEF Reported, HasChannel, ReportOf, ClosedAs
        <4>1. HasChannel(me) /\ ReportOf(ops[me].kind, chan[ops[me].chan], out)
          BY <1>0 DEF TurnOf
        <4>2. ops[me].chan \in Chans /\ chan[ops[me].chan] \in Problems
          BY <4>1 DEF Channels, ReportOf
        <4> QED
          BY <1>3, <4>1, <4>2 DEF Grows
      <3> QED
        BY <3>1, <3>2, <3>3 DEF Result
    <2>2. CASE k # me
      <3>1. sent'[k] = sent[k] /\ sent[k] \in Nat /\ ops'[k] = ops[k] /\ Result(k)
        BY <1>1, <2>2 DEF TypeOK, Results
      <3> QED
        BY <1>3, <3>1, ResultKept
    <2> QED
      BY <2>1, <2>2
  <1>9. AnswersQueued'
    <2> SUFFICES ASSUME NEW k \in Ids, k \in replied, ops'[k].kind = "call", ops'[k].out = "pending",
                        reader' # "broken"
                 PROVE  \E i \in DOMAIN queue' : queue'[i].kind = "reply" /\ queue'[i].id = k
      BY DEF AnswersQueued, AnswerQueued, TypeOK
    <2>1. k = me /\ ops[me].kind = "call" /\ out = "pending" /\ reader # "broken"
      BY <1>0, <1>1
    <2>2. PICK j \in DOMAIN queue : queue[j].kind = "reply" /\ queue[j].id = me
      BY <1>1, <2>1 DEF AnswersQueued, AnswerQueued
    <2>3. ~(f.kind = "reply" /\ f.id = me)
      BY <1>0, <2>1 DEF TurnOf
    <2>4. j # 1
      BY <1>4, <2>2, <2>3
    <2>5. PICK i \in DOMAIN queue' : j = i + 1
      <3>1. j - 1 \in DOMAIN queue' /\ j = (j - 1) + 1
        BY <1>4, <2>4, QueueIsSeq
      <3> QED
        BY <3>1
    <2> QED
      BY <1>4, <2>1, <2>2, <2>5
  <1> QED
    BY <1>3, <1>5, <1>7, <1>8, <1>9

\* No frame comes, and the operation ends in a timeout or with the connection.
LEMMA SilentQueue ==
  ASSUME QueueInv, CallInv', NEW out \in {"Timeout", "BridgeClosed"}, Silence(out)
  PROVE  QueueInv'
  <1> USE DEF QueueInv, CallInv, AnswerInv
  <1>0. PICK me \in Ids : me = cur
    BY BoundsAssumption DEF Silence, TypeOK, Ids, BoundsAssumption
  <1>1. /\ ops'[me].kind = ops[me].kind /\ ops'[me].chan = ops[me].chan
        /\ ops'[me].out = out /\ ops'[me].got = ops[me].got
        /\ \A k \in Ids : k # me => ops'[k] = ops[k] /\ ops[k].out # "pending"
        /\ out \notin CloseErrors \cup {"ok", "pending", "DependencyMissing"}
    <2>1. out \in Outcomes /\ out \notin CloseErrors \cup {"ok", "pending", "DependencyMissing"}
      BY DEF Outcomes, CloseErrors
    <2>2. ops[cur].got \in Seq(Nat)
      BY <1>0 DEF TypeOK, Operation
    <2>3. cur # 0 /\ Settle(out, ops[cur].got)
      BY DEF Silence
    <2> QED
      BY <1>0, <2>1, <2>2, <2>3, SettleOp DEF OrderInv
  <1>2. UNCHANGED <<nextOp, next_channel, pipe, rx, chan, replied, finished, sent>>
    BY DEF Silence, bridgeVars
  <1>3. Grows /\ Channels'
    BY <1>1, <1>2, NothingOpens DEF Channels
  <1>4. queue' = queue
    BY <1>2 DEF queue
  <1>5. FramesOwned'
    BY <1>3, <1>4, FramesStay
  <1>6. \A k \in Ids : ops'[k].out # "pending"
    BY <1>1
  <1>7. Results'
    <2> SUFFICES ASSUME NEW k \in Ids PROVE Result(k)'
      BY DEF Results
    <2>1. CASE k = me
      BY <1>1, <1>2, <2>1 DEF Results, Result, Whole, Bounded, Reported
    <2>2. CASE k # me
      <3>1. sent'[k] = sent[k] /\ sent[k] \in Nat /\ ops'[k] = ops[k] /\ Result(k)
        BY <1>1, <1>2, <2>2 DEF TypeOK, Results
      <3> QED
        BY <1>3, <3>1, ResultKept
    <2> QED
      BY <2>1, <2>2
  <1>8. Sequenced' /\ AnswersQueued'
    BY <1>6 DEF Sequenced, AnswersQueued, TypeOK
  <1> QED
    BY <1>3, <1>5, <1>7, <1>8
-----------------------------------------------------------------------------
(* What each receive loop makes of a frame that is owned. *)

LEMMA ClosedReport ==
  ASSUME cur \in Ids, NEW f, Owned(f), f.kind = "close", Mine(f)
  PROVE  /\ ReportOf(ops[cur].kind, chan[ops[cur].chan], ClosedAs(f.val))
         /\ f.val \in Problems /\ chan[ops[cur].chan] = f.val
         /\ ClosedAs(f.val) \notin {"ok", "pending", "DependencyMissing"}
  <1>1. f.val \in Problems /\ chan[f.chan] = f.val /\ f.chan = ops[cur].chan
    BY DEF Owned, SaysOfChannel, Mine
  <1>2. ClosedAs(f.val) \in CloseErrors
    BY ClosedAsIsError
  <1>3. ClosedAs(f.val) \notin {"ok", "pending", "DependencyMissing"}
    BY <1>2 DEF CloseErrors
  <1> QED
    BY <1>1, <1>3 DEF ReportOf

LEMMA InitTurn == \A f, got : TurnOf(f, "init", InitVerdict(f), got)
  BY DEF TurnOf, InitVerdict, CloseErrors

LEMMA CallTurn ==
  ASSUME cur \in Ids, NEW f \in TrueFrames, Owned(f), ops[cur].kind = "call", NEW got
  PROVE  TurnOf(f, "call", CallVerdict(f), got)
  <1>1. HasChannel(cur)
    BY DEF HasChannel, DbusKinds
  <1>2. CASE f.kind = "close" /\ Mine(f)
    <2>1. CallVerdict(f) = ClosedAs(f.val)
      BY <1>2 DEF CallVerdict
    <2> QED
      BY <1>1, <1>2, <2>1, ClosedReport DEF TurnOf
  <1>3. CASE f.kind = "reply" /\ f.id = cur
    <2>1. Mine(f) /\ f.val \in {"ok", "Dbus"}
      BY <1>3 DEF Owned, OnChannel, Mine, TrueFrames, True
    <2>2. CallVerdict(f) = f.val
      BY <1>3, <2>1 DEF CallVerdict
    <2> QED
      BY <1>3, <2>1, <2>2 DEF TurnOf, CloseErrors
  <1>4. CASE ~(f.kind = "close" /\ Mine(f)) /\ ~(f.kind = "reply" /\ f.id = cur)
    <2>1. CallVerdict(f) \in {"Decode", "pending"}
      BY <1>4 DEF CallVerdict
    <2> QED
      BY <1>4, <2>1 DEF TurnOf, CloseErrors
  <1> QED
    BY <1>2, <1>3, <1>4

\* An owned item of the operation rides on its channel, and is a signal exactly if
\* the operation collects signals.
LEMMA ItemMine ==
  ASSUME cur \in Ids, NEW f, Owned(f), ItemOf(f, cur)
  PROVE  /\ Mine(f)
         /\ ops[cur].kind = "collect" => f.kind = "signal"
         /\ ops[cur].kind = "stream" => f.kind = "data"
  <1>1. f.chan = ops[cur].chan /\ ops[cur].kind \in Emits(f.kind) /\ f.kind \in {"signal", "data"}
    BY DEF Owned, OnChannel, ItemOf
  <1> QED
    BY <1>1 DEF Emits, Mine

LEMMA CollectTurn ==
  ASSUME cur \in Ids, NEW f \in TrueFrames, Owned(f), ops[cur].kind = "collect"
  PROVE  TurnOf(f, "collect", CollectVerdict(f), Taken(CollectTakes(f), f))
  <1>1. HasChannel(cur)
    BY DEF HasChannel, DbusKinds
  <1>2. CollectTakes(f) <=> ItemOf(f, cur)
    BY ItemMine DEF CollectTakes, ItemOf
  <1>3. Taken(CollectTakes(f), f) = Gathered(f, cur)
    BY <1>2 DEF Taken, Gathered
  <1>4. CASE f.kind = "close" /\ Mine(f)
    <2>1. CollectVerdict(f) = ClosedAs(f.val)
      BY <1>4 DEF CollectVerdict, CollectTakes
    <2> QED
      BY <1>1, <1>3, <1>4, <2>1, ClosedReport DEF TurnOf
  <1>5. CASE ~(f.kind = "close" /\ Mine(f))
    <2>1. /\ CollectVerdict(f) \in {"Decode", "ok", "pending"}
          /\ CollectVerdict(f) = "ok" => CollectTakes(f) /\ f.val = "Finished"
      BY <1>5 DEF CollectVerdict
    <2>2. CollectVerdict(f) = "ok" => ItemOf(f, cur) /\ f.kind = "signal" /\ f.val = "Finished"
      BY <1>2, <2>1 DEF CollectTakes
    <2>3. CollectVerdict(f) \notin CloseErrors \cup {"DependencyMissing"}
      BY <2>1 DEF CloseErrors
    <2> QED
      BY <1>3, <2>2, <2>3 DEF TurnOf
  <1> QED
    BY <1>4, <1>5

\* On the channel of a stream there are only its own data: no other operation has it, and
\* nothing on it is undecodable.
LEMMA StreamTakesItems ==
  ASSUME TypeOK, Channels, cur \in Ids, NEW f, Owned(f), ops[cur].kind = "stream"
  PROVE  StreamTakes(f) <=> ItemOf(f, cur)
  <1>1. ASSUME StreamTakes(f) PROVE ItemOf(f, cur)
    <2>1. f.kind \in {"reply", "signal", "data", "batch", "meta", "bad"} /\ f.chan = ops[cur].chan
      BY <1>1 DEF StreamTakes, DataKinds, Mine
    <2>2. f.kind # "bad"
      BY <2>1 DEF Owned, SaysOfChannel
    <2>3. f.id \in Ids /\ ops[f.id].kind \in Emits(f.kind) /\ f.chan = ops[f.id].chan
      BY <2>1, <2>2 DEF Owned, OnChannel
    <2>4. HasChannel(f.id) /\ ops[cur].kind \in ChannelKinds
      BY <2>3, EmitsOwn DEF HasChannel, ChannelKinds
    <2>5. f.id = cur
      BY <2>1, <2>3, <2>4 DEF Channels
    <2>6. f.kind = "data"
      BY <2>1, <2>2, <2>3, <2>5 DEF Emits, DbusKinds
    <2> QED
      BY <2>5, <2>6 DEF ItemOf
  <1>2. ASSUME ItemOf(f, cur) PROVE StreamTakes(f)
    BY <1>2, ItemMine DEF StreamTakes, DataKinds
  <1> QED
    BY <1>1, <1>2

LEMMA StreamTurn ==
  ASSUME TypeOK, Channels, cur \in Ids, NEW f, Owned(f), ops[cur].kind = "stream"
  PROVE  TurnOf(f, "stream", StreamVerdict(f), Taken(StreamTakes(f), f))
  <1>1. HasChannel(cur)
    BY DEF HasChannel, ChannelKinds
  <1>2. Taken(StreamTakes(f), f) = Gathered(f, cur)
    BY StreamTakesItems DEF Taken, Gathered
  <1>3. CASE f.kind = "close" /\ Mine(f) /\ f.val # "none"
    <2>1. StreamVerdict(f) = ClosedAs(f.val)
      BY <1>3 DEF StreamVerdict
    <2> QED
      BY <1>1, <1>2, <1>3, <2>1, ClosedReport DEF TurnOf
  <1>4. CASE ~(f.kind = "close" /\ Mine(f) /\ f.val # "none")
    <2>1. /\ StreamVerdict(f) \in {"Decode", "ok", "pending"}
          /\ StreamVerdict(f) = "ok" => EndOf(f, cur)
      BY <1>4 DEF StreamVerdict, EndOf, Mine
    <2>2. StreamVerdict(f) \notin CloseErrors \cup {"DependencyMissing"}
      BY <2>1 DEF CloseErrors
    <2> QED
      BY <1>2, <2>1, <2>2 DEF TurnOf
  <1> QED
    BY <1>3, <1>4

\* The samples kept of a batch are those that still fit.
LEMMA MetricsGotBounded ==
  ASSUME TypeOK, BoundsAssumption, cur \in Ids, NEW f \in Frame,
         Len(ops[cur].got) <= SampleCount
  PROVE  Len(MetricsGot(f)) <= SampleCount
  <1>1. ops[cur].got \in Seq(Nat) /\ Len(ops[cur].got) \in Nat /\ f.n \in Nat
    BY LenProperties DEF TypeOK, Operation, Frame
  <1> DEFINE remaining == SampleCount - Len(ops[cur].got)
  <1> DEFINE m == IF f.n < remaining THEN f.n ELSE remaining
  <1>2. m \in Nat /\ Len(ops[cur].got) + m <= SampleCount
    BY <1>1 DEF BoundsAssumption
  <1>3. Fitting(f) = [i \in 1..m |-> i]
    BY DEF Fitting
  <1> HIDE DEF m
  <1>4. Fitting(f) \in Seq(Nat) /\ Len(Fitting(f)) = m
    BY <1>2, <1>3, CountedIsSeq, LenProperties
  <1>5. Len(ops[cur].got \o Fitting(f)) = Len(ops[cur].got) + m
    BY <1>1, <1>4, ConcatProperties
  <1> QED
    BY <1>2, <1>5 DEF MetricsGot

LEMMA MetricsTurn ==
  ASSUME cur \in Ids, NEW f, Owned(f), ops[cur].kind = "metrics",
         NEW got, Len(got) <= SampleCount
  PROVE  TurnOf(f, "metrics", MetricsVerdict(f), got)
  <1>1. HasChannel(cur) /\ ops[cur].kind \in ChannelKinds
    BY DEF HasChannel, ChannelKinds
  <1>2. CASE f.kind = "close" /\ Mine(f) /\ f.val # "none"
    <2>1. MetricsVerdict(f) \in {ClosedAs(f.val), "DependencyMissing"}
      BY <1>2 DEF MetricsVerdict
    <2>2. MetricsVerdict(f) = "DependencyMissing" => f.val = "not-supported"
      BY <1>2, ClosedReport DEF MetricsVerdict
    <2>3. ReportOf("metrics", chan[ops[cur].chan], MetricsVerdict(f)) /\ MetricsVerdict(f) # "ok"
      BY <1>2, <2>1, <2>2, ClosedReport DEF ReportOf
    <2> QED
      BY <1>1, <2>3 DEF TurnOf
  <1>3. CASE ~(f.kind = "close" /\ Mine(f) /\ f.val # "none")
    <2>1. /\ MetricsVerdict(f) \in {"Decode", "ok", "pending"}
          /\ MetricsVerdict(f) = "ok" => EndOf(f, cur)
      BY <1>3 DEF MetricsVerdict, EndOf, Mine
    <2>2. EndOf(f, cur) => cur \in finished
      BY <1>1 DEF EndOf, Owned, SaysOfChannel, Ended
    <2>3. MetricsVerdict(f) \notin CloseErrors \cup {"DependencyMissing"}
      BY <2>1 DEF CloseErrors
    <2> QED
      BY <2>1, <2>2, <2>3 DEF TurnOf
  <1> QED
    BY <1>2, <1>3
-----------------------------------------------------------------------------
(* Steps that write to the sequence, and steps that leave it alone. *)

\* The bridge writes a frame: the next item of an operation, or none of a waiting one.
LEMMA WriteStep ==
  ASSUME QueueInv, CallInv', NEW f \in Frame, Write(f), UNCHANGED <<clientVars, reader, rx>>,
         Owned(f)', finished \subseteq finished', replied' \subseteq Ids,
         \A c \in Chans : chan'[c] = chan[c] \/ chan[c] = "open",
         \A k \in Ids : k >= nextOp => k \notin replied' /\ k \notin finished' /\ sent'[k] = 0,
         \A k \in Ids : /\ sent'[k] \in Nat /\ sent'[k] >= sent[k]
                        /\ k \in finished => sent'[k] = sent[k],
         \A k \in replied' : k \in replied \/ (f.kind = "reply" /\ f.id = k),
         \A k \in Ids : ops[k].kind \in {"collect", "stream"} =>
           \/ ~ItemOf(f, k) /\ sent'[k] = sent[k]
           \/ /\ ItemOf(f, k) /\ k \notin finished
              /\ f.n = sent[k] + 1 /\ sent'[k] = sent[k] + 1
              /\ f.kind = "signal" /\ f.val = "Finished" => k \in finished'
  PROVE  QueueInv'
  <1> USE DEF QueueInv, CallInv, AnswerInv
  <1>1. UNCHANGED <<ops, nextOp, next_channel, reader>> /\ rx' = rx /\ pipe' = Append(pipe, f)
    BY DEF clientVars, Write
  <1>2. Grows /\ Channels'
    BY <1>1, NothingOpens
  <1>3. /\ DOMAIN queue' = 1..(Len(queue) + 1)
        /\ \A i \in 1..Len(queue) : queue'[i] = queue[i]
        /\ queue'[Len(queue) + 1] = f
    BY <1>1, WriteQueue
  <1>4. DOMAIN queue = 1..Len(queue) /\ Len(queue) \in Nat
    BY QueueIsSeq
  <1>5. FramesOwned'
    <2>1. ASSUME NEW i \in DOMAIN queue'
          PROVE  (\E j \in DOMAIN queue : queue'[i] = queue[j]) \/ Owned(queue[i])'
      <3>1. CASE i = Len(queue) + 1
        <4>1. queue'[i] = f
          BY <1>3, <3>1
        <4> QED
          BY <4>1
      <3>2. CASE i \in 1..Len(queue)
        BY <1>3, <1>4, <3>2
      <3> QED
        BY <1>3, <1>4, <3>1, <3>2
    <2> QED
      BY <1>2, <2>1, FramesStay
  <1>6. Sequenced'
    <2> SUFFICES ASSUME NEW k \in Ids, ops[k].kind \in {"collect", "stream"}, ops[k].out = "pending"
                 PROVE  InSequence(k)' /\ EndLast(k)'
      BY <1>1 DEF Sequenced
    <2>1. InSequence(k) /\ EndLast(k)
      BY DEF Sequenced
    <2>2. ops'[k] = ops[k] /\ (k \in finished => k \in finished')
      BY <1>1
    <2>3. CASE ~ItemOf(f, k) /\ sent'[k] = sent[k]
      <3>1. Unmoved(k)
        BY <2>2, <2>3 DEF Unmoved
      <3> QED
        BY <1>3, <2>1, <2>3, <3>1, SequenceWaits
    <2>4. CASE /\ ItemOf(f, k) /\ k \notin finished
               /\ f.n = sent[k] + 1 /\ sent'[k] = sent[k] + 1
               /\ f.kind = "signal" /\ f.val = "Finished" => k \in finished'
      <3>1. Len(ops[k].got) \in Nat /\ Len(ops[k].got) <= sent[k]
        BY LenProperties DEF TypeOK, Operation, Results, Result, Whole
      <3>2. ASSUME NEW i \in DOMAIN queue, ops[k].kind = "stream", EndOf(queue[i], k)
            PROVE  FALSE
        <4>1. Ended(queue[i].chan) /\ queue[i].chan = ops[k].chan
          BY <3>2 DEF FramesOwned, Owned, SaysOfChannel, EndOf
        <4> QED
          BY <2>4, <3>2, <4>1 DEF Ended, ChannelKinds
      <3> QED
        BY <1>3, <2>1, <2>2, <2>4, <3>1, <3>2, SequenceGrows
    <2> QED
      BY <2>3, <2>4
  <1>7. Results'
    <2> SUFFICES ASSUME NEW k \in Ids PROVE Result(k)'
      BY DEF Results
    <2> QED
      BY <1>1, <1>2, ResultKept DEF Results
  <1>8. AnswersQueued'
    <2>1. Len(queue) + 1 \in DOMAIN queue' /\ \A j \in DOMAIN queue : j \in DOMAIN queue' /\ queue'[j] = queue[j]
      BY <1>3, <1>4
    <2>2. ASSUME NEW k \in Ids, k \in replied', ops'[k].kind = "call", ops'[k].out = "pending",
                 reader' # "broken"
          PROVE  \/ \E i \in DOMAIN queue' : queue'[i].kind = "reply" /\ queue'[i].id = k
                 \/ /\ k \in replied /\ ops[k].kind = "call" /\ ops[k].out = "pending" /\ reader # "broken"
                    /\ \A j \in DOMAIN queue : queue[j].kind = "reply" /\ queue[j].id = k =>
                         \E i \in DOMAIN queue' : queue'[i] = queue[j]
      BY <1>1, <1>3, <2>1, <2>2
    <2> QED
      BY <2>2, AnswersStay
  <1> QED
    BY <1>2, <1>5, <1>6, <1>7, <1>8

\* Nothing happens to the operations, their channels or the queue.
LEMMA QuietStep ==
  ASSUME QueueInv, CallInv', queue' = queue,
         UNCHANGED <<ops, nextOp, next_channel, chan, replied, finished, sent>>,
         reader' # "broken" => reader # "broken"
  PROVE  QueueInv'
  <1> USE DEF QueueInv, CallInv, AnswerInv
  <1>1. Grows /\ Channels'
    BY NothingOpens DEF Channels
  <1>2. FramesOwned'
    BY <1>1, FramesStay
  <1>3. Sequenced'
    BY DEF Sequenced, InSequence, EndLast, ItemOf, EndOf
  <1>4. Results'
    <2> SUFFICES ASSUME NEW k \in Ids PROVE Result(k)'
      BY DEF Results
    <2>1. sent[k] \in Nat
      BY DEF TypeOK
    <2> QED
      BY <1>1, <2>1, ResultKept DEF Results
  <1>5. AnswersQueued'
    BY DEF AnswersQueued, AnswerQueued
  <1> QED
    BY <1>1, <1>2, <1>3, <1>4, <1>5

\* No operation waits, and the queue stays or goes.
LEMMA IdleStep ==
  ASSUME QueueInv, CallInv', Channels', Grows, \A k \in Ids : ops'[k].out # "pending",
         queue' = queue \/ DOMAIN queue' = {},
         \A k \in Ids : ops'[k] = ops[k] \/ (ops'[k].out = "Spawn" /\ ops'[k].kind = "init"),
         UNCHANGED <<replied, finished, sent>>
  PROVE  QueueInv'
  <1> USE DEF QueueInv, CallInv, AnswerInv
  <1>1. FramesOwned'
    BY FramesStay
  <1>2. Sequenced' /\ AnswersQueued'
    BY DEF Sequenced, AnswersQueued, TypeOK
  <1>3. Results'
    <2> SUFFICES ASSUME NEW k \in Ids PROVE Result(k)'
      BY DEF Results
    <2>1. CASE ops'[k] = ops[k]
      <3>1. sent[k] \in Nat
        BY DEF TypeOK
      <3> QED
        BY <2>1, <3>1, ResultKept DEF Results
    <2>2. CASE ops'[k].out = "Spawn" /\ ops'[k].kind = "init"
      BY <2>2 DEF Result, Whole, Bounded, Reported, CloseErrors
    <2> QED
      BY <2>1, <2>2
  <1> QED
    BY <1>1, <1>2, <1>3
-----------------------------------------------------------------------------
(* The actions. *)

\* What a receive loop finds at the head of the queue.
LEMMA HeadOwned ==
  ASSUME QueueInv, NEW kind, Receive(kind)
  PROVE  /\ cur \in Ids /\ ops[cur].kind = kind
         /\ Head(rx) \in TrueFrames /\ Head(rx) \in Frame /\ Owned(Head(rx))
         /\ rx # <<>> /\ rx' = Tail(rx)
         /\ UNCHANGED <<nextOp, next_channel, pipe, replied, finished, sent>>
  <1>1. /\ cur \in Ids /\ ops[cur].kind = kind
        /\ Head(rx) \in TrueFrames /\ Head(rx) \in Frame
        /\ UNCHANGED <<nextOp, next_channel, pipe, replied, finished, sent>>
    BY ReceiveFacts DEF QueueInv, CallInv
  <1>2. rx # <<>> /\ rx' = Tail(rx)
    BY DEF Receive
  <1>3. rx \in Seq(Frame) /\ pipe \in Seq(Frame) /\ Head(rx) = rx[1]
    BY DEF QueueInv, CallInv, AnswerInv, TypeOK
  <1>4. 1 \in 1..Len(rx)
    BY <1>2, <1>3, EmptySeq
  <1>5. 1 \in DOMAIN queue /\ queue[1] = Head(rx)
    BY <1>3, <1>4, Joined DEF queue
  <1> QED
    BY <1>1, <1>2, <1>5 DEF QueueInv, FramesOwned

LEMMA SpawnQueue == QueueInv /\ CallInv' /\ Spawn => QueueInv'
  <1> SUFFICES ASSUME QueueInv, CallInv', Spawn PROVE QueueInv'
    OBVIOUS
  <1> USE DEF QueueInv, CallInv, AnswerInv
  <1>1. /\ client = "new" /\ cur = 0 /\ nextOp = Handshake
        /\ UNCHANGED <<next_channel, pipe, rx, chan, replied, finished, sent>>
        /\ \/ UNCHANGED <<nextOp, ops>>
           \/ /\ nextOp' = Handshake + 1
              /\ ops' = [ops EXCEPT ![Handshake].kind = "init", ![Handshake].out = "Spawn"]
    BY DEF Spawn, OrderInv
  <1>2. nextOp \in Nat /\ nextOp' \in Nat /\ nextOp' >= nextOp
    BY <1>1 DEF Handshake
  <1>3. ops[Handshake] \in Operation /\ Handshake \in Ids /\ ~HasChannel(Handshake)
    BY HandshakeId, KindsApart DEF TypeOK, HasChannel, OrderInv
  <1>4. \A k \in Ids : ops'[k] = ops[k] \/ (k = Handshake /\ ops'[k].out = "Spawn" /\ ops'[k].kind = "init")
    <2>1. CASE ops' = [ops EXCEPT ![Handshake].kind = "init", ![Handshake].out = "Spawn"]
      <3>1. ops'[Handshake] = [ops[Handshake] EXCEPT !.kind = "init", !.out = "Spawn"]
        BY <1>3, <2>1 DEF TypeOK
      <3>2. ops'[Handshake].kind = "init" /\ ops'[Handshake].out = "Spawn"
        BY <1>3, <3>1 DEF Operation
      <3> QED
        BY <2>1, <3>2 DEF TypeOK
    <2> QED
      BY <1>1, <2>1
  <1>5. Grows
    <2>1. next_channel \in Nat
      BY BoundsAssumption DEF TypeOK, BoundsAssumption
    <2>2. \A k \in Ids : HasChannel(k) => ops'[k] = ops[k]
      BY <1>3, <1>4
    <2>3. \A k \in Ids : ~HasChannel(k) => ops'[k].kind \notin ChannelKinds
      BY <1>4, KindsApart DEF HasChannel
    <2> QED
      BY <1>1, <2>1, <2>2, <2>3 DEF Grows
  <1>6. Channels'
    <2>1. \A k \in Ids : HasChannel(k)' => HasChannel(k) /\ ops'[k] = ops[k]
      BY <1>4, KindsApart DEF HasChannel
    <2>2. \A k \in Ids : ops'[k].kind \in ChannelKinds => HasChannel(k)'
      BY DEF HasChannel
    <2>3. \A k \in Ids : k >= nextOp' => k >= nextOp
      BY <1>1, <1>2 DEF Ids
    <2> QED
      BY <1>1, <2>1, <2>2, <2>3 DEF Channels
  <1>7. \A k \in Ids : ops'[k].out # "pending"
    <2>1. \A k \in Ids : k # cur
      BY <1>1 DEF Ids
    <2> QED
      BY <1>4, <2>1 DEF OrderInv
  <1>8. queue' = queue
    BY <1>1 DEF queue
  <1>9. \A k \in Ids : ops'[k] = ops[k] \/ (ops'[k].out = "Spawn" /\ ops'[k].kind = "init")
    BY <1>4
  <1>10. UNCHANGED <<replied, finished, sent>>
    BY <1>1
  <1> HIDE DEF QueueInv, CallInv, AnswerInv
  <1> QED
    BY <1>5, <1>6, <1>7, <1>8, <1>9, <1>10, IdleStep

\* No operation is pending while none is in progress.
LEMMA NonePending ==
  ASSUME QueueInv, cur = 0
  PROVE  \A k \in Ids : ops[k].out # "pending"
  <1>1. \A k \in Ids : k # cur
    BY DEF Ids
  <1> QED
    BY <1>1 DEF QueueInv, CallInv, OrderInv

LEMMA OpenQueue == QueueInv /\ CallInv' /\ OpenDbus => QueueInv'
  <1> SUFFICES ASSUME QueueInv, CallInv', OpenDbus PROVE QueueInv'
    OBVIOUS
  <1> USE DEF QueueInv, CallInv, AnswerInv
  <1>1. /\ cur = 0 /\ UNCHANGED <<nextOp, ops, pipe, rx, replied, finished, sent>>
    BY DEF OpenDbus
  <1>2. PICK c \in Chans : Allocate(c)
    BY DEF OpenDbus
  <1>3. /\ c = next_channel /\ next_channel' = next_channel + 1
        /\ next_channel \in Nat /\ next_channel' \in Nat
        /\ \A d \in Chans : d # c => chan'[d] = chan[d]
        /\ chan[c] = "unused"
    BY <1>2, AllocateKeeps
  <1>4. Grows
    BY <1>1, <1>3, ProblemsApart DEF Grows, HasChannel
  <1>5. Channels'
    <2>1. \A d \in Chans : d >= next_channel' => d # c /\ d >= next_channel
      BY <1>3 DEF Chans
    <2>2. \A d \in Chans : d < next_channel => d < next_channel'
      BY <1>3 DEF Chans
    <2> QED
      BY <1>1, <1>3, <2>1, <2>2 DEF Channels, HasChannel
  <1>6. queue' = queue
    BY <1>1 DEF queue
  <1>7. \A k \in Ids : ops'[k].out # "pending" /\ ops'[k] = ops[k]
    BY <1>1, NonePending
  <1>8. \A k \in Ids : ops'[k] = ops[k] \/ (ops'[k].out = "Spawn" /\ ops'[k].kind = "init")
    BY <1>7
  <1>9. UNCHANGED <<replied, finished, sent>> /\ \A k \in Ids : ops'[k].out # "pending"
    BY <1>1, <1>7
  <1> HIDE DEF QueueInv, CallInv, AnswerInv
  <1> QED
    BY <1>4, <1>5, <1>6, <1>8, <1>9, IdleStep

LEMMA DropQueue == QueueInv /\ CallInv' /\ Drop => QueueInv'
  <1> SUFFICES ASSUME QueueInv, CallInv', Drop PROVE QueueInv'
    OBVIOUS
  <1> USE DEF QueueInv, CallInv, AnswerInv
  <1>1. /\ cur = 0 /\ pipe' = <<>> /\ rx' = <<>>
        /\ UNCHANGED <<nextOp, ops, next_channel, chan, replied, finished, sent>>
    BY DEF Drop
  <1>2. Grows /\ Channels'
    BY <1>1, NothingOpens DEF Channels
  <1>3. DOMAIN queue' = {}
    <2>1. <<>> \in Seq(Frame) /\ Len(<<>>) = 0
      BY EmptySeq
    <2>2. queue' = <<>> \o <<>>
      BY <1>1 DEF queue
    <2>3. DOMAIN queue' = 1..0
      BY <2>1, <2>2, Joined
    <2> QED
      BY <2>3
  <1>4. \A k \in Ids : ops'[k].out # "pending" /\ ops'[k] = ops[k]
    BY <1>1, NonePending
  <1>5. \A k \in Ids : ops'[k] = ops[k] \/ (ops'[k].out = "Spawn" /\ ops'[k].kind = "init")
    BY <1>4
  <1>6. UNCHANGED <<replied, finished, sent>> /\ \A k \in Ids : ops'[k].out # "pending"
    BY <1>1, <1>4
  <1> HIDE DEF QueueInv, CallInv, AnswerInv
  <1> QED
    BY <1>2, <1>3, <1>5, <1>6, IdleStep

LEMMA ClientQueue == QueueInv /\ CallInv' /\ Client => QueueInv'
  <1> SUFFICES ASSUME QueueInv, CallInv', Client PROVE QueueInv'
    OBVIOUS
  <1>0. TypeOK /\ Channels
    BY DEF QueueInv, CallInv, AnswerInv
  <1>1. CASE Spawn
    BY <1>1, SpawnQueue
  <1>2. CASE Connect
    <2>1. 0 \in 0..MaxChannels
      BY BoundsAssumption DEF BoundsAssumption
    <2>2. Start("init", 0) /\ UNCHANGED <<next_channel, pipe, rx, chan, replied, finished, sent>>
      BY <1>2 DEF Connect, bridgeVars
    <2> QED
      BY <2>1, <2>2, StartQueue DEF Opens
  <1>3. CASE OpenDbus
    BY <1>3, OpenQueue
  <1>4. ASSUME NEW kind \in OpKinds \cap DbusKinds, NEW c \in Chans, Request(kind, c)
        PROVE  QueueInv'
    <2>1. c \in 0..MaxChannels
      BY BoundsAssumption DEF Chans, BoundsAssumption
    <2>2. /\ Start(kind, c) /\ DbusChannel(c)
          /\ UNCHANGED <<next_channel, pipe, rx, chan, replied, finished, sent>>
      BY <1>4 DEF Request, bridgeVars
    <2> QED
      BY <2>1, <2>2, StartQueue DEF Opens
  <1>5. ASSUME NEW kind \in OpKinds \cap ChannelKinds, OpenAndRun(kind)
        PROVE  QueueInv'
    <2>1. PICK c \in Chans : Allocate(c) /\ Start(kind, c)
      BY <1>5 DEF OpenAndRun
    <2>2. c \in 0..MaxChannels
      BY BoundsAssumption DEF Chans, BoundsAssumption
    <2>3. UNCHANGED <<pipe, rx, replied, finished, sent>>
      BY <1>5 DEF OpenAndRun
    <2> QED
      BY <2>1, <2>2, <2>3, StartQueue DEF Opens
  <1> DEFINE f == Head(rx)
  <1>6. CASE RecvInit
    <2>1. Receive("init") /\ Settle(InitVerdict(f), <<>>) /\ UNCHANGED <<reader, chan>>
      BY <1>6 DEF RecvInit
    <2>2. InitVerdict(f) \in Outcomes /\ <<>> \in Seq(Nat)
      BY InitVerdictType, EmptyQueue
    <2> QED
      BY <2>1, <2>2, HeadOwned, InitTurn, TurnQueue
  <1>7. CASE RecvCall
    <2>1. Receive("call") /\ Settle(CallVerdict(f), <<>>) /\ UNCHANGED <<reader, chan>>
      BY <1>7 DEF RecvCall
    <2>2. CallVerdict(f) \in Outcomes /\ <<>> \in Seq(Nat)
      BY <2>1, HeadOwned, CallVerdictTrue, EmptyQueue
    <2>3. TurnOf(f, ops[cur].kind, CallVerdict(f), <<>>)
      BY <2>1, HeadOwned, CallTurn
    <2> QED
      BY <2>1, <2>2, <2>3, HeadOwned, TurnQueue
  <1>8. CASE RecvCollect
    <2> DEFINE got == Taken(CollectTakes(f), f)
    <2>1. Receive("collect") /\ Settle(CollectVerdict(f), got) /\ UNCHANGED <<reader, chan>>
      BY <1>8 DEF RecvCollect
    <2>2. CollectVerdict(f) \in Outcomes /\ got \in Seq(Nat)
      BY <1>0, <2>1, HeadOwned, CollectVerdictTrue, TakenType DEF CollectTakes
    <2>3. TurnOf(f, ops[cur].kind, CollectVerdict(f), got)
      BY <2>1, HeadOwned, CollectTurn
    <2> HIDE DEF got
    <2> QED
      BY <2>1, <2>2, <2>3, HeadOwned, TurnQueue
  <1>9. CASE RecvStream
    <2> DEFINE got == Taken(StreamTakes(f), f)
    <2>1. Receive("stream") /\ Settle(StreamVerdict(f), got) /\ UNCHANGED <<reader, chan>>
      BY <1>9 DEF RecvStream
    <2>2. StreamVerdict(f) \in Outcomes /\ got \in Seq(Nat)
      BY <1>0, <2>1, HeadOwned, StreamVerdictType, TakenType DEF StreamTakes
    <2>3. TurnOf(f, ops[cur].kind, StreamVerdict(f), got)
      BY <1>0, <2>1, HeadOwned, StreamTurn
    <2> HIDE DEF got
    <2> QED
      BY <2>1, <2>2, <2>3, HeadOwned, TurnQueue
  <1>10. CASE RecvMetrics
    <2> DEFINE got == MetricsGot(f)
    <2>1. Receive("metrics")
      BY <1>10 DEF RecvMetrics
    <2>2. cur \in Ids /\ ops[cur].kind = "metrics" /\ f \in Frame /\ Owned(f)
      BY <2>1, HeadOwned
    <2>3. Len(ops[cur].got) <= SampleCount
      BY <2>2 DEF QueueInv, Results, Result, Bounded
    <2>4. got \in Seq(Nat) /\ Len(got) <= SampleCount
      BY <1>0, <2>2, <2>3, MetricsGotType, MetricsGotBounded, BoundsAssumption
    <2>5. \A c \in Chans : chan'[c] = chan[c] \/ chan[c] = "open"
      BY <1>10 DEF RecvMetrics
    <2>6. PICK out \in Outcomes : Settle(out, got) /\ TurnOf(f, "metrics", out, got)
      <3>1. CASE MetricsEnough(f)
        <4>1. PICK out \in {"ok", "Killed"} : Settle(out, got)
          BY <1>10, <3>1 DEF RecvMetrics
        <4>2. out \in Outcomes /\ out \notin CloseErrors \cup {"DependencyMissing"}
          BY DEF Outcomes, CloseErrors
        <4>3. Len(got) = SampleCount
          BY <2>4, <3>1, LenProperties, BoundsAssumption DEF MetricsEnough, BoundsAssumption
        <4> QED
          BY <2>4, <4>1, <4>2, <4>3 DEF TurnOf
      <3>2. CASE ~MetricsEnough(f)
        <4>1. Settle(MetricsVerdict(f), got)
          BY <1>10, <3>2 DEF RecvMetrics
        <4>2. MetricsVerdict(f) \in Outcomes
          BY MetricsVerdictType
        <4>3. TurnOf(f, "metrics", MetricsVerdict(f), got)
          BY <2>2, <2>4, MetricsTurn
        <4> QED
          BY <4>1, <4>2, <4>3
      <3> QED
        BY <3>1, <3>2
    <2> HIDE DEF got
    <2> QED
      BY <2>1, <2>2, <2>4, <2>5, <2>6, HeadOwned, TurnQueue
  <1>11. CASE RecvTimeout \/ RecvDisconnected
    BY <1>11, SilentQueue DEF RecvTimeout, RecvDisconnected
  <1>12. CASE Drop
    BY <1>12, DropQueue
  <1> QED
    BY <1>1, <1>2, <1>3, <1>4, <1>5, <1>6, <1>7, <1>8, <1>9, <1>10, <1>11, <1>12 DEF Client

\* The reader thread: it moves frames on, or loses bytes that are no frame and ends.
LEMMA ReaderQueue == QueueInv /\ CallInv' /\ Reader => QueueInv'
  <1> SUFFICES ASSUME QueueInv, CallInv', Reader PROVE QueueInv'
    OBVIOUS
  <1>0. TypeOK /\ Channels /\ FramesOwned /\ Sequenced /\ Results
    BY DEF QueueInv, CallInv, AnswerInv
  <1>1. /\ reader = "reading"
        /\ UNCHANGED <<ops, nextOp, next_channel, chan, replied, finished, sent>>
    BY DEF Reader, ReaderForward, ReaderEof, clientVars, bridgeVars
  <1>2. CASE ReaderForward /\ Head(pipe).kind # "garbage"
    <2>1. queue' = queue
      BY <1>0, <1>2, ForwardQueue DEF ReaderForward
    <2> QED
      BY <1>1, <2>1, QuietStep
  <1>3. CASE ReaderForward /\ Head(pipe).kind = "garbage"
    <2>1. pipe # <<>> /\ rx' = rx /\ pipe' = Tail(pipe) /\ reader' = "broken"
      BY <1>3 DEF ReaderForward
    <2>2. PICK p \in 1..Len(queue) :
            /\ queue[p] = Head(pipe)
            /\ DOMAIN queue' = 1..(Len(queue) - 1)
            /\ \A i \in 1..(Len(queue) - 1) :
                 queue'[i] = IF i < p THEN queue[i] ELSE queue[i + 1]
      BY <1>0, <2>1, LoseQueue
    <2>3. Grows /\ Channels'
      BY <1>0, <1>1, NothingOpens DEF Channels
    <2>4. FramesOwned'
      <3>1. ASSUME NEW i \in DOMAIN queue' PROVE \E j \in DOMAIN queue : queue'[i] = queue[j]
        <4>1. i \in DOMAIN queue /\ i + 1 \in DOMAIN queue
          BY <1>0, <2>2, QueueIsSeq
        <4> QED
          BY <2>2, <4>1
      <3> QED
        BY <1>0, <2>3, <3>1, FramesStay
    <2>5. Sequenced'
      <3> SUFFICES ASSUME NEW k \in Ids, ops[k].kind \in {"collect", "stream"},
                          ops[k].out = "pending"
                   PROVE  InSequence(k)' /\ EndLast(k)'
        BY <1>1 DEF Sequenced
      <3>1. InSequence(k) /\ EndLast(k) /\ Unmoved(k)
        BY <1>0, <1>1 DEF Sequenced, Unmoved
      <3>2. ~ItemOf(queue[p], k)
        BY <1>3, <2>2 DEF ItemOf
      <3> QED
        BY <1>0, <2>2, <3>1, <3>2, SequenceLost
    <2>6. Results'
      <3> SUFFICES ASSUME NEW k \in Ids PROVE Result(k)'
        BY DEF Results
      <3>1. sent[k] \in Nat
        BY <1>0 DEF TypeOK
      <3> QED
        BY <1>0, <1>1, <2>3, <3>1, ResultKept DEF Results
    <2>7. AnswersQueued'
      BY <2>1 DEF AnswersQueued
    <2> QED
      BY <2>3, <2>4, <2>5, <2>6, <2>7 DEF QueueInv
  <1>4. CASE ReaderEof
    <2>1. queue' = queue
      BY <1>4 DEF ReaderEof, queue
    <2> QED
      BY <1>1, <2>1, QuietStep
  <1> QED
    BY <1>2, <1>3, <1>4 DEF Reader

\* An operation the bridge works on was started, on a channel that is open.
LEMMA LiveOp ==
  ASSUME QueueInv, NEW k \in Ids, Live(k)
  PROVE  /\ HasChannel(k) /\ k < nextOp
         /\ ops[k].chan \in Chans /\ ops[k].chan < next_channel /\ chan[ops[k].chan] = "open"
         /\ ops[k].chan \in 0..MaxChannels /\ ops[k].chan \in Nat /\ k \in 0..MaxOps
         /\ sent[k] \in Nat
  <1>1. HasChannel(k) /\ chan[ops[k].chan] = "open"
    BY DEF Live, HasChannel
  <1>2. k < nextOp
    BY <1>1, KindsApart DEF QueueInv, CallInv, AnswerInv, TypeOK, OrderInv, HasChannel, Ids
  <1>3. ops[k].chan \in Chans /\ ops[k].chan < next_channel
    BY <1>1 DEF QueueInv, Channels
  <1>4. ops[k].chan \in 0..MaxChannels /\ ops[k].chan \in Nat /\ k \in 0..MaxOps
    BY <1>3, BoundsAssumption DEF Chans, Ids, BoundsAssumption
  <1>5. sent[k] \in Nat
    BY DEF QueueInv, CallInv, AnswerInv, TypeOK
  <1> QED
    BY <1>1, <1>2, <1>3, <1>4, <1>5

\* The bridge writes a frame that is no item: nothing is counted.
LEMMA WriteOther ==
  ASSUME QueueInv, CallInv', NEW f \in Frame, Write(f), UNCHANGED <<clientVars, reader, rx, sent>>,
         Owned(f)', f.kind \notin {"signal", "data"},
         finished \subseteq finished', finished' \subseteq finished \cup {k \in Ids : k < nextOp},
         replied' \subseteq replied \cup {k \in Ids : k < nextOp /\ f.kind = "reply" /\ f.id = k},
         \A c \in Chans : chan'[c] = chan[c] \/ chan[c] = "open"
  PROVE  QueueInv'
  <1>1. replied \subseteq Ids /\ finished \subseteq Ids /\ sent' = sent /\ \A k \in Ids : sent[k] \in Nat
    BY DEF QueueInv, CallInv, AnswerInv, TypeOK
  <1>2. \A k \in Ids : k >= nextOp => k \notin replied /\ k \notin finished /\ sent[k] = 0
    BY DEF QueueInv, Channels
  <1>3. nextOp \in Nat /\ \A k \in Ids : k \in Nat
    BY DEF QueueInv, CallInv, AnswerInv, TypeOK, Ids
  <1>4. \A k \in Ids : k >= nextOp => k \notin replied' /\ k \notin finished' /\ sent'[k] = 0
    BY <1>1, <1>2, <1>3
  <1>5. \A k \in Ids : /\ sent'[k] \in Nat /\ sent'[k] >= sent[k]
                       /\ k \in finished => sent'[k] = sent[k]
    BY <1>1
  <1>6. replied' \subseteq Ids /\ \A k \in replied' : k \in replied \/ (f.kind = "reply" /\ f.id = k)
    BY <1>1
  <1>7. \A k \in Ids : ~ItemOf(f, k)
    BY DEF ItemOf
  <1>8. \A k \in Ids : ops[k].kind \in {"collect", "stream"} =>
           \/ ~ItemOf(f, k) /\ sent'[k] = sent[k]
           \/ /\ ItemOf(f, k) /\ k \notin finished
              /\ f.n = sent[k] + 1 /\ sent'[k] = sent[k] + 1
              /\ f.kind = "signal" /\ f.val = "Finished" => k \in finished'
    BY <1>1, <1>7
  <1> QED
    BY <1>4, <1>5, <1>6, <1>8, WriteStep

\* The bridge writes a frame of operation k and counts it as its next item.
LEMMA WriteItem ==
  ASSUME QueueInv, CallInv', NEW f \in Frame, Write(f),
         UNCHANGED <<clientVars, reader, rx, chan, replied>>,
         NEW k \in Ids, Live(k), k \notin finished, f.id = k,
         sent' = [sent EXCEPT ![k] = sent[k] + 1],
         f.kind \in {"signal", "data", "meta", "batch"},
         ops[k].kind \in Emits(f.kind), f.chan = ops[k].chan,
         f.kind \in {"signal", "data"} => f.n = sent[k] + 1,
         f.kind = "signal" /\ f.val = "Finished" => k \in finished',
         finished' \in {finished, finished \cup {k}}
  PROVE  QueueInv'
  <1>1. /\ replied \subseteq Ids /\ finished \subseteq Ids /\ sent \in [Ids -> Nat]
        /\ UNCHANGED ops /\ nextOp \in Nat /\ \A j \in Ids : j \in Nat
    BY DEF QueueInv, CallInv, AnswerInv, TypeOK, clientVars, Ids
  <1>2. k < nextOp
    BY LiveOp
  <1>3. \A j \in Ids : j >= nextOp => j \notin replied /\ j \notin finished /\ sent[j] = 0
    BY DEF QueueInv, Channels
  <1>4. sent'[k] = sent[k] + 1 /\ \A j \in Ids : j # k => sent'[j] = sent[j]
    BY <1>1
  <1>5. \A j \in Ids : j >= nextOp => j \notin replied' /\ j \notin finished' /\ sent'[j] = 0
    BY <1>1, <1>2, <1>3, <1>4
  <1>6. \A j \in Ids : /\ sent'[j] \in Nat /\ sent'[j] >= sent[j]
                       /\ j \in finished => sent'[j] = sent[j]
    BY <1>1, <1>4
  <1>7. Owned(f)'
    BY <1>1 DEF Owned, OnChannel, SaysOfChannel
  <1>8. \A j \in Ids : ops[j].kind \in {"collect", "stream"} =>
           \/ ~ItemOf(f, j) /\ sent'[j] = sent[j]
           \/ /\ ItemOf(f, j) /\ j \notin finished
              /\ f.n = sent[j] + 1 /\ sent'[j] = sent[j] + 1
              /\ f.kind = "signal" /\ f.val = "Finished" => j \in finished'
    BY <1>4 DEF ItemOf, Emits
  <1>9. /\ finished \subseteq finished' /\ replied' \subseteq Ids
        /\ \A c \in Chans : chan'[c] = chan[c] \/ chan[c] = "open"
        /\ \A j \in replied' : j \in replied \/ (f.kind = "reply" /\ f.id = j)
        /\ UNCHANGED <<clientVars, reader, rx>>
    BY <1>1
  <1> QED
    BY <1>5, <1>6, <1>7, <1>8, <1>9, WriteStep

\* The kinds of frames, and what they may hold.
LEMMA KindNames ==
  /\ {"init", "hint", "close", "done", "badctl"} \subseteq ControlKinds
  /\ {"reply", "signal", "data", "batch", "meta", "bad"} \subseteq DataKinds
  /\ {"", "ok", "Dbus", "Package", "Finished"} \cup Problems \subseteq Vals
  BY DEF ControlKinds, DataKinds, Vals

LEMMA EmitQueue ==
  ASSUME QueueInv, CallInv', NEW k \in Ids, Emit(k)
  PROVE  QueueInv'
  <1>1. /\ Live(k) /\ k \notin finished
        /\ sent' = [sent EXCEPT ![k] = sent[k] + 1]
        /\ UNCHANGED <<clientVars, reader, rx, chan, replied>>
        /\ finished' \in {finished, finished \cup {k}}
    BY DEF Emit, Item, Write, Message, QueueInv, CallInv, AnswerInv, TypeOK
  <1>2. k \in 0..MaxOps /\ ops[k].chan \in 0..MaxChannels /\ sent[k] + 1 \in Nat /\ 0 \in Nat
    BY <1>1, LiveOp
  <1>3. PICK f \in Frame :
          /\ Write(f) /\ f.id = k /\ f.chan = ops[k].chan /\ f.val # "Finished"
          /\ f.kind \in {"signal", "data", "meta", "batch"}
          /\ ops[k].kind \in Emits(f.kind)
          /\ f.kind \in {"signal", "data"} => f.n = sent[k] + 1
    <2>1. CASE /\ ops[k].kind = "collect"
               /\ Write(Message("signal", ops[k].chan, k, "Package", sent[k] + 1))
      <3> DEFINE f == Message("signal", ops[k].chan, k, "Package", sent[k] + 1)
      <3>1. /\ f \in Frame /\ f.id = k /\ f.chan = ops[k].chan /\ f.val = "Package"
            /\ f.kind = "signal" /\ f.n = sent[k] + 1
        BY <1>2, KindNames DEF Message, Frame
      <3>2. Write(f)
        BY <2>1
      <3>3. ops[k].kind \in Emits("signal")
        BY <2>1 DEF Emits
      <3> HIDE DEF f
      <3> QED
        BY <3>1, <3>2, <3>3
    <2>2. CASE /\ ops[k].kind = "stream"
               /\ Write(Message("data", ops[k].chan, k, "", sent[k] + 1))
      <3> DEFINE f == Message("data", ops[k].chan, k, "", sent[k] + 1)
      <3>1. /\ f \in Frame /\ f.id = k /\ f.chan = ops[k].chan /\ f.val = ""
            /\ f.kind = "data" /\ f.n = sent[k] + 1
        BY <1>2, KindNames DEF Message, Frame
      <3>2. Write(f)
        BY <2>2
      <3>3. ops[k].kind \in Emits("data")
        BY <2>2 DEF Emits
      <3> HIDE DEF f
      <3> QED
        BY <3>1, <3>2, <3>3
    <2>3. CASE ops[k].kind = "metrics" /\ Write(Message("meta", ops[k].chan, k, "", 0))
      <3> DEFINE f == Message("meta", ops[k].chan, k, "", 0)
      <3>1. /\ f \in Frame /\ f.id = k /\ f.chan = ops[k].chan /\ f.val = ""
            /\ f.kind = "meta" /\ f.n = 0
        BY <1>2, KindNames DEF Message, Frame
      <3>2. Write(f)
        BY <2>3
      <3>3. ops[k].kind \in Emits("meta")
        BY <2>3 DEF Emits
      <3> HIDE DEF f
      <3> QED
        BY <3>1, <3>2, <3>3
    <2>4. ASSUME NEW size \in BatchSizes, ops[k].kind = "metrics",
                 Write(Message("batch", ops[k].chan, k, "", size))
          PROVE  \E f \in Frame :
                   /\ Write(f) /\ f.id = k /\ f.chan = ops[k].chan /\ f.val # "Finished"
                   /\ f.kind \in {"signal", "data", "meta", "batch"}
                   /\ ops[k].kind \in Emits(f.kind)
                   /\ f.kind \in {"signal", "data"} => f.n = sent[k] + 1
      <3>0. size \in Nat
        BY BoundsAssumption DEF BoundsAssumption
      <3> DEFINE f == Message("batch", ops[k].chan, k, "", size)
      <3>1. /\ f \in Frame /\ f.id = k /\ f.chan = ops[k].chan /\ f.val = ""
            /\ f.kind = "batch" /\ f.n = size
        BY <1>2, <3>0, KindNames DEF Message, Frame
      <3>2. Write(f)
        BY <2>4
      <3>3. ops[k].kind \in Emits("batch")
        BY <2>4 DEF Emits
      <3> HIDE DEF f
      <3> QED
        BY <3>1, <3>2, <3>3
    <2> QED
      BY <2>1, <2>2, <2>3, <2>4 DEF Emit, Item
  <1> QED
    BY <1>1, <1>3, WriteItem

LEMMA FinishQueue ==
  ASSUME QueueInv, CallInv', NEW k \in Ids, Finish(k)
  PROVE  QueueInv'
  <1>1. /\ Live(k) /\ k \notin finished /\ finished' = finished \cup {k}
        /\ UNCHANGED <<clientVars, reader, rx, chan, replied>>
    BY DEF Finish, Write, Message
  <1>2. /\ k \in 0..MaxOps /\ ops[k].chan \in 0..MaxChannels /\ sent[k] + 1 \in Nat
        /\ 0 \in Nat /\ 0 \in 0..MaxOps /\ HasChannel(k) /\ k < nextOp
        /\ ops[k].chan < next_channel
    BY <1>1, LiveOp, ChansBound
  <1>3. CASE /\ ops[k].kind = "collect"
             /\ Write(Message("signal", ops[k].chan, k, "Finished", sent[k] + 1))
    <2> DEFINE f == Message("signal", ops[k].chan, k, "Finished", sent[k] + 1)
    <2>1. Write(f)
      BY <1>3
    <2>2. /\ f \in Frame /\ f.id = k /\ f.chan = ops[k].chan /\ f.kind = "signal"
          /\ f.n = sent[k] + 1
      BY <1>2, KindNames DEF Message, Frame
    <2>3. sent' = [sent EXCEPT ![k] = sent[k] + 1]
      BY <1>3 DEF Finish, Write, Message, QueueInv, CallInv, AnswerInv, TypeOK
    <2> HIDE DEF f
    <2>4. ops[k].kind \in Emits(f.kind) /\ k \in finished'
      BY <1>1, <1>3, <2>2 DEF Emits
    <2> QED
      BY <1>1, <2>1, <2>2, <2>3, <2>4, WriteItem
  <1>4. CASE ops[k].kind \in ChannelKinds /\ Write(Message("done", ops[k].chan, 0, "", 0))
    <2> DEFINE f == Message("done", ops[k].chan, 0, "", 0)
    <2>1. Write(f)
      BY <1>4
    <2>2. f \in Frame /\ f.kind = "done" /\ f.chan = ops[k].chan
      BY <1>2, KindNames DEF Message, Frame
    <2> HIDE DEF f
    <2>3. sent' = sent
      BY <1>4 DEF Finish, Write, Message, ChannelKinds, QueueInv, CallInv, AnswerInv, TypeOK
    <2>4. ops[k].kind \in ChannelKinds
      BY <1>4
    <2>5. \A j \in Ids : ops[j].kind \in ChannelKinds /\ ops[j].chan = ops[k].chan => j = k
      BY <2>4, <1>2 DEF QueueInv, Channels, HasChannel
    <2>6. PICK g \in Frame : Write(g) /\ g.kind = "done" /\ g.chan = ops[k].chan
      BY <2>1, <2>2
    <2>7. Owned(g)'
      <3>1. UNCHANGED <<ops, next_channel>>
        BY <1>1 DEF clientVars
      <3>2. Ended(g.chan)'
        BY <1>1, <1>2, <2>6, <2>5, <3>1 DEF Ended
      <3> QED
        BY <2>6, <3>2 DEF Owned, OnChannel, SaysOfChannel
    <2>8. /\ finished \subseteq finished' /\ finished' \subseteq finished \cup {j \in Ids : j < nextOp}
          /\ replied' \subseteq replied \cup {j \in Ids : j < nextOp /\ g.kind = "reply" /\ g.id = j}
          /\ \A c \in Chans : chan'[c] = chan[c] \/ chan[c] = "open"
          /\ UNCHANGED <<clientVars, reader, rx, sent>>
      BY <1>1, <1>2, <2>3
    <2> QED
      BY <2>6, <2>7, <2>8, WriteOther
  <1> QED
    BY <1>3, <1>4 DEF Finish

\* A frame that says nothing of an operation or a channel: nothing but the pipe changes.
LEMMA IdleFrame ==
  ASSUME QueueInv, CallInv', NEW f \in Frame, Write(f), f.kind \in {"init", "hint", "badctl", "garbage"},
         UNCHANGED <<clientVars, reader, rx, chan, replied, sent, finished>>
  PROVE  QueueInv'
  <1>1. Owned(f)'
    BY DEF Owned, OnChannel, SaysOfChannel
  <1> QED
    BY <1>1, WriteOther

\* The bridge's actions.
LEMMA BridgeQueue == QueueInv /\ CallInv' /\ Bridge => QueueInv'
  <1> SUFFICES ASSUME QueueInv, CallInv', Bridge PROVE QueueInv'
    OBVIOUS
  <1>0. 0 \in Nat /\ 0 \in 0..MaxOps /\ 0 \in 0..MaxChannels
    BY ChansBound
  <1>1. CASE Greet
    <2> DEFINE f == Message("init", 0, 0, "", 0)
    <2>1. Write(f)
      BY <1>1 DEF Greet
    <2>2. f \in Frame /\ f.kind = "init"
      BY <1>0, KindNames DEF Message, Frame
    <2>3. UNCHANGED <<clientVars, reader, rx, chan, replied, sent, finished>>
      BY <1>1 DEF Greet, Write, Message
    <2> HIDE DEF f
    <2> QED
      BY <2>1, <2>2, <2>3, IdleFrame
  <1>2. ASSUME NEW k \in Ids, NEW r \in {"ok", "Dbus"}, Perform(k, r)
        PROVE  QueueInv'
    <2>1. queue' = queue /\ reader' = reader
          /\ UNCHANGED <<ops, nextOp, next_channel, chan, replied, finished, sent>>
      BY <1>2 DEF Perform, queue, clientVars
    <2> QED
      BY <2>1, QuietStep
  <1>3. ASSUME NEW k \in Ids, Reply(k)
        PROVE  QueueInv'
    <2>1. ran[k] \in Vals
      BY <1>3, KindNames DEF Reply, Write, Message, QueueInv, CallInv, AnswerInv, TypeOK
    <2> DEFINE f == Message("reply", ops[k].chan, k, ran[k], 0)
    <2>2. Write(f)
      BY <1>3 DEF Reply
    <2>3. /\ k \in 0..MaxOps /\ ops[k].chan \in 0..MaxChannels /\ k < nextOp
          /\ ops[k].kind \in DbusKinds
      BY <1>3, LiveOp DEF Reply, Write, Message
    <2>4. f \in Frame /\ f.kind = "reply" /\ f.id = k /\ f.chan = ops[k].chan
      BY <1>0, <2>1, <2>3, KindNames DEF Message, Frame
    <2> HIDE DEF f
    <2>5. /\ replied' = replied \cup {k}
          /\ UNCHANGED <<clientVars, reader, rx, chan, sent, finished>>
      BY <1>3 DEF Reply, Write, Message
    <2>6. PICK g \in Frame : Write(g) /\ g.kind = "reply" /\ g.id = k /\ g.chan = ops[k].chan
      BY <2>2, <2>4
    <2>7. Owned(g)'
      BY <2>3, <2>6, <2>5 DEF Owned, OnChannel, SaysOfChannel, Emits, clientVars
    <2>8. replied' \subseteq replied \cup {j \in Ids : j < nextOp /\ g.kind = "reply" /\ g.id = j}
      BY <2>3, <2>6, <2>5
    <2> QED
      BY <2>6, <2>5, <2>7, <2>8, WriteOther
  <1>4. ASSUME NEW c \in Chans, NEW problem \in Problems, CloseChannel(c, problem)
        PROVE  QueueInv'
    <2> DEFINE f == Message("close", c, 0, problem, 0)
    <2>1. Write(f)
      BY <1>4 DEF CloseChannel
    <2>2. c \in 0..MaxChannels /\ problem \in Vals
      BY ChansBound, KindNames
    <2>3. f \in Frame /\ f.kind = "close" /\ f.chan = c /\ f.val = problem
      BY <1>0, <2>2, KindNames DEF Message, Frame
    <2> HIDE DEF f
    <2>4. /\ chan[c] = "open" /\ chan' = [chan EXCEPT ![c] = problem]
          /\ UNCHANGED <<clientVars, reader, rx, replied, sent, finished>>
      BY <1>4 DEF CloseChannel, Write, Message
    <2>5. chan'[c] = problem /\ \A d \in Chans : chan'[d] = chan[d] \/ chan[d] = "open"
      BY <2>4 DEF QueueInv, CallInv, AnswerInv, TypeOK
    <2>6. c < next_channel
      BY <2>4, BoundsAssumption
      DEF QueueInv, Channels, CallInv, AnswerInv, TypeOK, Chans, BoundsAssumption
    <2>7. problem = "none" => Ended(c)'
      BY <1>4, <2>4, <2>6 DEF CloseChannel, Write, Message, Ended, clientVars
    <2>8. Owned(f)'
      BY <2>3, <2>5, <2>7 DEF Owned, OnChannel, SaysOfChannel
    <2> QED
      BY <2>1, <2>3, <2>4, <2>5, <2>8, WriteOther
  <1>5. ASSUME NEW c \in Chans, chan[c] = "open",
               \A k \in Ids : ops[k].kind = "stream" => ops[k].chan # c,
               Disturb(Message("bad", c, 0, "", 0))
        PROVE  QueueInv'
    <2> DEFINE f == Message("bad", c, 0, "", 0)
    <2>1. Write(f)
      BY <1>5 DEF Disturb
    <2>2. c \in 0..MaxChannels
      BY ChansBound
    <2>3. f \in Frame /\ f.kind = "bad" /\ f.chan = c
      BY <1>0, <2>2, KindNames DEF Message, Frame
    <2>4. UNCHANGED <<clientVars, reader, rx, chan, replied, sent, finished>>
      BY <1>5 DEF Disturb, Write, Message
    <2>5. chan[c] = "open" /\ \A k \in Ids : ops[k].kind = "stream" => ops[k].chan # c
      BY <1>5
    <2> HIDE DEF f
    <2>6. c < next_channel
      BY <2>5, BoundsAssumption
      DEF QueueInv, Channels, CallInv, AnswerInv, TypeOK, Chans, BoundsAssumption
    <2>7. Owned(f)'
      BY <2>5, <2>3, <2>4, <2>6 DEF Owned, OnChannel, SaysOfChannel, clientVars
    <2> QED
      BY <2>1, <2>3, <2>4, <2>7, WriteOther
  <1>6. ASSUME NEW kind \in {"hint", "badctl", "garbage"}, Disturb(Message(kind, 0, 0, "", 0))
        PROVE  QueueInv'
    <2> DEFINE f == Message(kind, 0, 0, "", 0)
    <2>1. Write(f)
      BY <1>6 DEF Disturb
    <2>2. f \in Frame /\ f.kind = kind
      BY <1>0, KindNames DEF Message, Frame
    <2>3. UNCHANGED <<clientVars, reader, rx, chan, replied, sent, finished>>
      BY <1>6 DEF Disturb, Write, Message
    <2> HIDE DEF f
    <2> QED
      BY <2>1, <2>2, <2>3, IdleFrame
  <1>7. CASE Noise
    BY <1>5, <1>6, <1>7 DEF Noise
  <1>8. CASE Exit
    <2>1. queue' = queue /\ reader' = reader
          /\ UNCHANGED <<ops, nextOp, next_channel, chan, replied, finished, sent>>
      BY <1>8 DEF Exit, queue, clientVars
    <2> QED
      BY <2>1, QuietStep
  <1> QED
    BY <1>1, <1>2, <1>3, <1>4, <1>7, <1>8, EmitQueue, FinishQueue DEF Bridge
-----------------------------------------------------------------------------
LEMMA QueueInit == Init => QueueInv
  <1> SUFFICES ASSUME Init PROVE QueueInv
    OBVIOUS
  <1>1. CallInv
    BY CallInit
  <1>2. /\ \A k \in Ids : ops[k].kind = "none" /\ ops[k].out = "unsent" /\ sent[k] = 0
        /\ \A c \in Chans : chan[c] = "unused"
        /\ replied = {} /\ finished = {} /\ rx = <<>> /\ pipe = <<>>
    BY DEF Init
  <1>3. Channels
    BY <1>2, KindsApart DEF Channels, HasChannel
  <1>4. DOMAIN queue = {}
    <2>1. <<>> \in Seq(Frame) /\ Len(<<>>) = 0
      BY EmptySeq
    <2>2. queue = <<>> \o <<>>
      BY <1>2 DEF queue
    <2>3. DOMAIN queue = 1..0
      BY <2>1, <2>2, Joined
    <2> QED
      BY <2>3
  <1>5. FramesOwned
    BY <1>4 DEF FramesOwned
  <1>6. Sequenced /\ Results /\ AnswersQueued
    BY <1>2 DEF Sequenced, Results, Result, Whole, Bounded, Reported, CloseErrors, AnswersQueued
  <1> QED
    BY <1>1, <1>3, <1>5, <1>6 DEF QueueInv

LEMMA QueueStep == QueueInv /\ [Next]_vars => QueueInv'
  <1> SUFFICES ASSUME QueueInv, [Next]_vars PROVE QueueInv'
    OBVIOUS
  <1>1. CallInv'
    BY CallStep DEF QueueInv
  <1>2. CASE UNCHANGED vars
    <2>1. queue' = queue /\ reader' = reader
          /\ UNCHANGED <<ops, nextOp, next_channel, chan, replied, finished, sent>>
      BY <1>2 DEF vars, clientVars, bridgeVars, queue
    <2> QED
      BY <1>1, <2>1, QuietStep
  <1>3. CASE Client
    BY <1>1, <1>3, ClientQueue
  <1>4. CASE Reader
    BY <1>1, <1>4, ReaderQueue
  <1>5. CASE Bridge
    BY <1>1, <1>5, BridgeQueue
  <1> QED
    BY <1>2, <1>3, <1>4, <1>5 DEF Next, Over

LEMMA QueueHolds == Spec => []QueueInv
  BY QueueInit, QueueStep, PTL DEF Spec

\* What a stream or a PackageKit transaction gathers (stream_collect, dbus_call_collect) is
\* gathered whole: the peer's items from the first on, in order and without a gap, and all of
\* them when the operation succeeds, wherever the frames of abandoned operations stand in the
\* queue and whenever the bridge exits.
THEOREM CollectionsAreWhole == Spec => []CollectedWhole
  <1>1. QueueInv => CollectedWhole
    BY ResultsMean DEF QueueInv
  <1> QED
    BY <1>1, QueueHolds, PTL

\* metrics_collect returns at most the samples asked for, and fewer only when the bridge ended
\* the channel, however many samples a batch brings.
THEOREM SamplesStayBounded == Spec => []SamplesBounded
  <1>1. QueueInv => SamplesBounded
    BY ResultsMean DEF QueueInv
  <1> QED
    BY <1>1, QueueHolds, PTL

\* An operation that reports a close problem (closed_channel_error) had its own channel closed
\* by the bridge with that problem, although close frames of other channels may precede it.
THEOREM ClosesAreOwners == Spec => []CloseReportedByOwner
  <1>1. QueueInv => CloseReportedByOwner
    BY ResultsMean DEF QueueInv
  <1> QED
    BY <1>1, QueueHolds, PTL

\* A reply the bridge wrote stays in front of the call that waits for it (dbus_call), in the
\* pipe or in the reader thread's queue, until it is read or the framing breaks.
THEOREM AnswersAreKept == Spec => []AnswerKept
  <1>1. QueueInv => AnswerKept
    BY AnswersMean DEF QueueInv, CallInv, AnswerInv
  <1> QED
    BY <1>1, QueueHolds, PTL
=============================================================================
