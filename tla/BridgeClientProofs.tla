------------------------- MODULE BridgeClientProofs -------------------------
(***************************************************************************)
(* Theorems about BridgeClient, for every value of its constants.          *)
(*                                                                         *)
(* The inductive invariant rests on one fact about the frames in flight: a *)
(* frame that speaks for an operation says what the service did with that  *)
(* operation, and keeps saying so, because what the service did is never   *)
(* changed (TrueFrames only grows).                                        *)
(***************************************************************************)
EXTENDS BridgeClient, SequenceTheorems, TLAPS

\* A reply or a signal that agrees with what the service did; any other frame.
True(f) ==
  /\ f.kind = "reply" => f.id \in Ids /\ f.val \in {"ok", "Dbus"} /\ ran[f.id] = f.val
  /\ f.kind = "signal" => f.id \in Ids /\ ran[f.id] = "ok"

TrueFrames == {f \in Frame : True(f)}

FramesTrue == pipe \in Seq(TrueFrames) /\ rx \in Seq(TrueFrames)

\* TypeOK alone is not inductive: an operation takes its outcome out of a frame.
AnswerInv == TypeOK /\ FramesTrue /\ AnswerIsOwn
-----------------------------------------------------------------------------
(* Lemmas about sequences and operators. *)

\* A sequence over a set is a sequence over every larger set.
LEMMA SeqMonotone ==
  ASSUME NEW S, NEW T, S \subseteq T, NEW s \in Seq(S)
  PROVE  s \in Seq(T)
  <1>1. Len(s) \in Nat /\ s \in [1..Len(s) -> S]
    BY LenProperties
  <1>2. s \in [1..Len(s) -> T]
    BY <1>1
  <1> QED
    BY <1>1, <1>2, SeqDef

\* Reading a queue's head and keeping its tail stays within the frames it holds.
LEMMA HeadTail ==
  ASSUME NEW S, NEW s \in Seq(S), s # <<>>
  PROVE  Head(s) \in S /\ Tail(s) \in Seq(S)
  BY HeadTailProperties

\* Writing to a queue keeps it a queue of frames of the same sort.
LEMMA Appended ==
  ASSUME NEW S, NEW s \in Seq(S), NEW f \in S
  PROVE  Append(s, f) \in Seq(S)
  BY AppendProperties

\* What is kept of a batch is a sequence of sample numbers.
LEMMA CountedIsSeq ==
  ASSUME NEW m \in Int
  PROVE  [i \in 1..m |-> i] \in Seq(Nat)
  <1>1. CASE m >= 0
    <2>1. [i \in 1..m |-> i] \in [1..m -> Nat]
      OBVIOUS
    <2> QED
      BY <1>1, <2>1, SeqDef
  <1>2. CASE m < 0
    <2>1. 1..m = 1..0
      BY <1>2
    <2>2. [i \in 1..m |-> i] \in [1..0 -> Nat]
      BY <2>1
    <2> QED
      BY <2>2, SeqDef
  <1> QED
    BY <1>1, <1>2

LEMMA ClosedAsIsError == \A problem : ClosedAs(problem) \in CloseErrors
  BY DEF ClosedAs, CloseErrors

\* What a stable record of the service's work buys: no queued frame turns false.
LEMMA TrueFramesStable ==
  ASSUME TypeOK, FramesTrue, UNCHANGED <<pipe, rx>>,
         \A k \in Ids : ran[k] # "no" => ran'[k] = ran[k]
  PROVE  FramesTrue'
  <1>1. TrueFrames \subseteq TrueFrames'
    BY DEF TrueFrames, True
  <1> QED
    BY <1>1, SeqMonotone DEF FramesTrue

(* What each receive loop makes of one frame. *)

LEMMA InitVerdictType == \A f : InitVerdict(f) \in Outcomes \ {"Killed"}
  BY DEF InitVerdict, Outcomes

LEMMA CallVerdictTrue ==
  ASSUME NEW f \in TrueFrames
  PROVE  /\ CallVerdict(f) \in Outcomes \ {"Killed"}
         /\ CallVerdict(f) \in {"ok", "Dbus"} => ran[cur] = CallVerdict(f)
  BY ClosedAsIsError DEF CallVerdict, Outcomes, CloseErrors, TrueFrames, True

LEMMA CollectVerdictTrue ==
  ASSUME NEW f \in TrueFrames
  PROVE  /\ CollectVerdict(f) \in Outcomes \ {"Dbus", "Killed"}
         /\ CollectVerdict(f) = "ok" => ran[cur] = "ok"
  BY ClosedAsIsError
  DEF CollectVerdict, CollectTakes, Outcomes, CloseErrors, TrueFrames, True

LEMMA StreamVerdictType == \A f : StreamVerdict(f) \in Outcomes \ {"Killed"}
  BY ClosedAsIsError DEF StreamVerdict, Outcomes, CloseErrors

LEMMA MetricsVerdictType == \A f : MetricsVerdict(f) \in Outcomes \ {"Killed"}
  BY ClosedAsIsError DEF MetricsVerdict, Outcomes, CloseErrors

\* The items kept from one frame are numbers, however large its batch was.
LEMMA MetricsGotType ==
  ASSUME TypeOK, BoundsAssumption, cur \in Ids, NEW f \in Frame
  PROVE  MetricsGot(f) \in Seq(Nat)
  <1>1. ops[cur].got \in Seq(Nat)
    BY DEF TypeOK, Operation
  <1>2. Len(ops[cur].got) \in Nat
    BY <1>1, LenProperties
  <1>3. f.n \in Nat
    BY DEF Frame
  <1> DEFINE m == IF f.n < SampleCount - Len(ops[cur].got)
                  THEN f.n ELSE SampleCount - Len(ops[cur].got)
  <1>4. m \in Int
    BY <1>2, <1>3, BoundsAssumption DEF BoundsAssumption
  <1>5. Fitting(f) = [i \in 1..m |-> i]
    BY DEF Fitting
  <1>6. Fitting(f) \in Seq(Nat)
    BY <1>4, <1>5, CountedIsSeq
  <1> QED
    BY <1>1, <1>6, ConcatProperties DEF MetricsGot

LEMMA TakenType ==
  ASSUME TypeOK, cur \in Ids, NEW f \in Frame, NEW takes \in BOOLEAN
  PROVE  Taken(takes, f) \in Seq(Nat)
  <1>1. ops[cur].got \in Seq(Nat)
    BY DEF TypeOK, Operation
  <1>2. f.n \in Nat
    BY DEF Frame
  <1> QED
    BY <1>1, <1>2, AppendProperties DEF Taken

\* Settling an operation with a typed outcome keeps the client's state typed.
LEMMA SettleType ==
  ASSUME TypeOK, cur \in Ids, NEW out \in Outcomes, NEW got \in Seq(Nat),
         Settle(out, got)
  PROVE  /\ ops' \in [Ids -> Operation]
         /\ cur' \in 0..MaxOps
         /\ ops'[cur].kind = ops[cur].kind
         /\ ops'[cur].out = out
         /\ \A k \in Ids \ {cur} : ops'[k] = ops[k]
  <1>1. ops' = [ops EXCEPT ![cur].out = out, ![cur].got = got]
    BY DEF Settle
  <1>2. ops[cur] \in Operation
    BY DEF TypeOK
  <1>3. ops'[cur] = [ops[cur] EXCEPT !.out = out, !.got = got]
    BY <1>1 DEF TypeOK
  <1>4. ops'[cur] \in Operation
    BY <1>2, <1>3 DEF Operation
  <1>5. \A k \in Ids \ {cur} : ops'[k] = ops[k]
    BY <1>1 DEF TypeOK
  <1>6. ops' \in [Ids -> Operation]
    BY <1>1, <1>4, <1>5 DEF TypeOK
  <1>7. ops'[cur].kind = ops[cur].kind /\ ops'[cur].out = out
    BY <1>2, <1>3 DEF Operation
  <1> QED
    BY <1>5, <1>6, <1>7, BoundsAssumption DEF Settle, TypeOK, BoundsAssumption
-----------------------------------------------------------------------------
(* The invariant holds initially and every action keeps it. *)

LEMMA EmptyQueue == \A S : <<>> \in Seq(S)
  BY EmptySeq

LEMMA AnswerInit == Init => AnswerInv
  <1> SUFFICES ASSUME Init PROVE AnswerInv
    OBVIOUS
  <1>1. TypeOK
    <2>1. ops \in [Ids -> Operation]
      BY EmptyQueue, BoundsAssumption DEF Init, Operation, Outcomes, BoundsAssumption
    <2>2. /\ chan \in [Chans -> {"unused", "open", "dropped"} \cup Problems]
          /\ ran \in [Ids -> {"no", "ok", "Dbus"}]
          /\ sent \in [Ids -> Nat]
      BY DEF Init
    <2>3. /\ cur \in 0..MaxOps
          /\ nextOp \in 1..(MaxOps + 1)
          /\ next_channel \in 1..(MaxChannels + 1)
          /\ noise \in 0..MaxNoise
      BY BoundsAssumption DEF Init, Handshake, BoundsAssumption
    <2> QED
      BY <2>1, <2>2, <2>3, EmptyQueue DEF Init, TypeOK
  <1>2. FramesTrue
    BY EmptyQueue DEF Init, FramesTrue
  <1>3. AnswerIsOwn
    BY DEF Init, AnswerIsOwn, DbusKinds
  <1> QED
    BY <1>1, <1>2, <1>3 DEF AnswerInv

\* The process and its reader thread go on, or are gone.
Process ==
  /\ client' \in {"new", "spawned", "dropped", "killed"}
  /\ reader' \in {"none", "reading", "eof", "broken"}

\* A write to the bridge's stdin.
LEMMA SendFacts ==
  ASSUME TypeOK, SendControl
  PROVE  Process /\ client' # "new" /\ client # "new"
  BY DEF TypeOK, SendControl, Process

LEMMA SameProcess ==
  ASSUME TypeOK, UNCHANGED <<client, reader>>
  PROVE  Process
  BY DEF TypeOK, Process

\* Any end of a receive loop's turn: a frame was read, or none came.
LEMMA SettleInv ==
  ASSUME AnswerInv, cur \in Ids, NEW out \in Outcomes, NEW got \in Seq(Nat),
         Settle(out, got),
         (ops[cur].kind \in DbusKinds /\ out \in {"ok", "Dbus"}) => ran[cur] = out,
         rx' \in Seq(TrueFrames),
         chan' \in [Chans -> {"unused", "open", "dropped"} \cup Problems],
         Process, UNCHANGED <<nextOp, next_channel, pipe,
                              bridge, ran, replied, sent, finished, noise>>
  PROVE  AnswerInv'
  <1>1. /\ ops' \in [Ids -> Operation]
        /\ cur' \in 0..MaxOps
        /\ ops'[cur].kind = ops[cur].kind
        /\ ops'[cur].out = out
        /\ \A k \in Ids \ {cur} : ops'[k] = ops[k]
    BY SettleType DEF AnswerInv
  <1>2. TrueFrames' = TrueFrames
    BY DEF TrueFrames, True
  <1>3. TrueFrames \subseteq Frame
    BY DEF TrueFrames
  <1>4. rx' \in Seq(Frame)
    BY <1>3, SeqMonotone
  <1>5. TypeOK'
    BY <1>1, <1>4 DEF AnswerInv, TypeOK, Process
  <1>6. FramesTrue'
    BY <1>2 DEF AnswerInv, FramesTrue
  <1>7. AnswerIsOwn'
    <2> SUFFICES ASSUME NEW k \in Ids,
                        ops'[k].kind \in DbusKinds, ops'[k].out \in {"ok", "Dbus"}
                 PROVE  ran'[k] = ops'[k].out
      BY DEF AnswerIsOwn
    <2>1. CASE k = cur
      BY <1>1, <2>1
    <2>2. CASE k # cur
      BY <1>1, <2>2 DEF AnswerInv, AnswerIsOwn
    <2> QED
      BY <2>1, <2>2
  <1> QED
    BY <1>5, <1>6, <1>7 DEF AnswerInv

\* What an enabled receive finds.
LEMMA ReceiveFacts ==
  ASSUME AnswerInv, NEW kind, Receive(kind)
  PROVE  /\ cur \in Ids
         /\ ops[cur].kind = kind
         /\ Head(rx) \in TrueFrames
         /\ Head(rx) \in Frame
         /\ rx' \in Seq(TrueFrames)
         /\ UNCHANGED <<nextOp, next_channel, pipe,
                        bridge, ran, replied, sent, finished, noise>>
  <1>1. rx \in Seq(TrueFrames) /\ rx # <<>> /\ rx' = Tail(rx)
    BY DEF AnswerInv, FramesTrue, Receive
  <1>2. Head(rx) \in TrueFrames /\ rx' \in Seq(TrueFrames)
    BY <1>1, HeadTail
  <1>3. cur \in Ids
    BY BoundsAssumption DEF Receive, AnswerInv, TypeOK, Ids, BoundsAssumption
  <1>4. Head(rx) \in Frame
    BY <1>2 DEF TrueFrames
  <1> QED
    BY <1>2, <1>3, <1>4 DEF Receive

\* Starting an operation: the new one is pending or has failed, the others stand.
LEMMA StartFacts ==
  ASSUME AnswerInv, NEW kind \in {"init"} \cup DbusKinds \cup ChannelKinds,
         NEW c \in 0..MaxChannels, Start(kind, c)
  PROVE  /\ nextOp \in Ids
         /\ ops' \in [Ids -> Operation]
         /\ cur' \in 0..MaxOps
         /\ nextOp' \in 1..(MaxOps + 1)
         /\ nextOp' = nextOp + 1
         /\ ops'[nextOp].kind = kind
         /\ ops'[nextOp].out \in {"pending", "Killed"}
         /\ Process /\ client' # "new" /\ client = "spawned"
         /\ ops'[nextOp].out = "Killed" => client' = "killed"
         /\ \A k \in Ids \ {nextOp} : ops'[k] = ops[k]
  <1> DEFINE op == [kind |-> kind, chan |-> c, got |-> <<>>,
                    out |-> IF bridge = "running" THEN "pending" ELSE "Killed"]
  <1>1. ops' = [ops EXCEPT ![nextOp] = op]
    BY DEF Start
  <1>2. nextOp \in Ids /\ nextOp' = nextOp + 1 /\ nextOp' \in 1..(MaxOps + 1)
    BY BoundsAssumption DEF Start, AnswerInv, TypeOK, Ids, BoundsAssumption
  <1>3. op \in Operation
    BY EmptyQueue DEF Operation, Outcomes
  <1>4. ops' \in [Ids -> Operation]
    BY <1>1, <1>2, <1>3 DEF AnswerInv, TypeOK
  <1>5. ops'[nextOp] = op /\ \A k \in Ids \ {nextOp} : ops'[k] = ops[k]
    BY <1>1, <1>2 DEF AnswerInv, TypeOK
  <1>6. cur' \in 0..MaxOps
    BY <1>2, BoundsAssumption DEF Start, Ids, BoundsAssumption
  <1>7. Process /\ client' # "new" /\ client = "spawned"
    BY SendFacts DEF Start, SendControl, AnswerInv
  <1>8. ops'[nextOp].out = "Killed" => client' = "killed"
    BY <1>5 DEF Start, SendControl
  <1> QED
    BY <1>2, <1>4, <1>5, <1>6, <1>7, <1>8

LEMMA StartInv ==
  ASSUME AnswerInv, NEW kind \in {"init"} \cup DbusKinds \cup ChannelKinds,
         NEW c \in 0..MaxChannels, Start(kind, c),
         next_channel' \in 1..(MaxChannels + 1),
         chan' \in [Chans -> {"unused", "open", "dropped"} \cup Problems],
         UNCHANGED <<pipe, rx, bridge, ran, replied, sent, finished, noise>>
  PROVE  AnswerInv'
  <1>1. TypeOK'
    BY StartFacts DEF AnswerInv, TypeOK, Process
  <1>2. FramesTrue'
    <2>1. TrueFrames' = TrueFrames
      BY DEF TrueFrames, True
    <2> QED
      BY <2>1 DEF AnswerInv, FramesTrue
  <1>3. AnswerIsOwn'
    BY StartFacts DEF AnswerInv, AnswerIsOwn
  <1> QED
    BY <1>1, <1>2, <1>3 DEF AnswerInv

\* A channel is allocated within the bound the model sets.
LEMMA AllocateFacts ==
  ASSUME TypeOK, NEW c \in Chans, Allocate(c)
  PROVE  /\ c \in 0..MaxChannels
         /\ next_channel' \in 1..(MaxChannels + 1)
         /\ chan' \in [Chans -> {"unused", "open", "dropped"} \cup Problems]
  BY BoundsAssumption DEF TypeOK, Allocate, Chans, BoundsAssumption

\* An action that leaves the operations and the service's record alone.
LEMMA BystanderInv ==
  ASSUME AnswerInv, TypeOK', FramesTrue', UNCHANGED ops,
         \A k \in Ids : ran[k] # "no" => ran'[k] = ran[k]
  PROVE  AnswerInv'
  BY DEF AnswerInv, AnswerIsOwn

\* The bridge writes one frame that is true and leaves the record alone.
LEMMA WriteInv ==
  ASSUME AnswerInv, NEW f \in TrueFrames, Write(f),
         UNCHANGED <<clientVars, reader, rx, bridge, ran>>,
         chan' \in [Chans -> {"unused", "open", "dropped"} \cup Problems],
         replied' \subseteq Ids, sent' \in [Ids -> Nat], finished' \subseteq Ids,
         noise' \in 0..MaxNoise
  PROVE  AnswerInv'
  <1>1. pipe' \in Seq(TrueFrames)
    BY Appended DEF Write, AnswerInv, FramesTrue
  <1>2. TrueFrames' = TrueFrames /\ TrueFrames \subseteq Frame
    BY DEF TrueFrames, True
  <1>3. FramesTrue'
    BY <1>1, <1>2 DEF AnswerInv, FramesTrue
  <1>4. pipe' \in Seq(Frame)
    BY <1>1, <1>2, SeqMonotone
  <1>5. TypeOK'
    BY <1>4 DEF AnswerInv, TypeOK, clientVars
  <1> QED
    BY <1>3, <1>5, BystanderInv DEF clientVars

\* The client's actions.
LEMMA ClientInv == AnswerInv /\ Client => AnswerInv'
  <1> SUFFICES ASSUME AnswerInv, Client PROVE AnswerInv'
    OBVIOUS
  <1>0. TrueFrames' = TrueFrames \/ ran' # ran
    BY DEF TrueFrames, True
  <1>1. CASE Spawn
    <2>1. ops' = ops \/ ops' = [ops EXCEPT ![Handshake].kind = "init", ![Handshake].out = "Spawn"]
      BY <1>1 DEF Spawn
    <2>2. Handshake \in Ids /\ Handshake + 1 \in 1..(MaxOps + 1)
      BY BoundsAssumption DEF Handshake, Ids, BoundsAssumption
    <2>3. /\ ops' \in [Ids -> Operation]
          /\ \A k \in Ids : ops'[k] = ops[k] \/ ops'[k].out = "Spawn"
      <3>1. CASE ops' = ops
        BY <3>1 DEF AnswerInv, TypeOK
      <3>2. CASE ops' = [ops EXCEPT ![Handshake].kind = "init", ![Handshake].out = "Spawn"]
        <4>1. ops'[Handshake] = [ops[Handshake] EXCEPT !.kind = "init", !.out = "Spawn"]
          BY <3>2, <2>2 DEF AnswerInv, TypeOK
        <4>2. ops[Handshake] \in Operation
          BY <2>2 DEF AnswerInv, TypeOK
        <4>3. ops'[Handshake] \in Operation /\ ops'[Handshake].out = "Spawn"
          BY <4>1, <4>2 DEF Operation, Outcomes
        <4> QED
          BY <3>2, <4>3, <2>2 DEF AnswerInv, TypeOK
      <3> QED
        BY <2>1, <3>1, <3>2
    <2>4. TypeOK'
      BY <1>1, <2>2, <2>3 DEF Spawn, AnswerInv, TypeOK
    <2>5. FramesTrue'
      BY <1>0, <1>1 DEF Spawn, AnswerInv, FramesTrue
    <2>6. AnswerIsOwn'
      BY <1>1, <2>3 DEF Spawn, AnswerInv, AnswerIsOwn
    <2> QED
      BY <2>4, <2>5, <2>6 DEF AnswerInv
  <1>2. CASE Connect
    <2>1. 0 \in 0..MaxChannels
      BY BoundsAssumption DEF BoundsAssumption
    <2> QED
      BY <1>2, <2>1, StartInv DEF Connect, bridgeVars, AnswerInv, TypeOK
  <1>3. CASE OpenDbus
    <2>1. PICK c \in Chans : Allocate(c)
      BY <1>3 DEF OpenDbus
    <2>2. TypeOK'
      BY <1>3, <2>1, AllocateFacts, SendFacts DEF OpenDbus, AnswerInv, TypeOK, Process
    <2>3. FramesTrue'
      BY <1>0, <1>3 DEF OpenDbus, AnswerInv, FramesTrue
    <2> QED
      BY <1>3, <2>2, <2>3, BystanderInv DEF OpenDbus
  <1>4. ASSUME NEW kind \in OpKinds \cap DbusKinds, NEW c \in Chans, Request(kind, c)
        PROVE  AnswerInv'
    <2>1. c \in 0..MaxChannels
      BY BoundsAssumption DEF Chans, BoundsAssumption
    <2> QED
      BY <1>4, <2>1, StartInv DEF Request, bridgeVars, AnswerInv, TypeOK
  <1>5. ASSUME NEW kind \in OpKinds \cap ChannelKinds, OpenAndRun(kind)
        PROVE  AnswerInv'
    <2>1. PICK c \in Chans : Allocate(c) /\ Start(kind, c)
      BY <1>5 DEF OpenAndRun
    <2> QED
      BY <1>5, <2>1, AllocateFacts, StartInv DEF OpenAndRun, AnswerInv
  <1>6. CASE RecvInit
    <2>1. Receive("init") /\ Settle(InitVerdict(Head(rx)), <<>>) /\ UNCHANGED <<client, reader, chan>>
      BY <1>6 DEF RecvInit
    <2>2. "init" \notin DbusKinds
      BY DEF DbusKinds
    <2> QED
      BY <2>1, <2>2, ReceiveFacts, InitVerdictType, EmptyQueue, SettleInv, SameProcess DEF AnswerInv, TypeOK
  <1>7. CASE RecvCall
    <2>1. Receive("call") /\ Settle(CallVerdict(Head(rx)), <<>>) /\ UNCHANGED <<client, reader, chan>>
      BY <1>7 DEF RecvCall
    <2> QED
      BY <2>1, ReceiveFacts, CallVerdictTrue, EmptyQueue, SettleInv, SameProcess DEF AnswerInv, TypeOK
  <1>8. CASE RecvCollect
    <2> DEFINE f == Head(rx)
    <2>1. /\ Receive("collect")
          /\ Settle(CollectVerdict(f), Taken(CollectTakes(f), f))
          /\ UNCHANGED <<client, reader, chan>>
      BY <1>8 DEF RecvCollect
    <2>2. Taken(CollectTakes(f), f) \in Seq(Nat)
      BY <2>1, ReceiveFacts, TakenType DEF AnswerInv, CollectTakes
    <2> QED
      BY <2>1, <2>2, ReceiveFacts, CollectVerdictTrue, SettleInv, SameProcess DEF AnswerInv, TypeOK
  <1>9. CASE RecvStream
    <2> DEFINE f == Head(rx)
    <2>1. /\ Receive("stream")
          /\ Settle(StreamVerdict(f), Taken(StreamTakes(f), f))
          /\ UNCHANGED <<client, reader, chan>>
      BY <1>9 DEF RecvStream
    <2>2. Taken(StreamTakes(f), f) \in Seq(Nat)
      BY <2>1, ReceiveFacts, TakenType DEF AnswerInv, StreamTakes
    <2>3. "stream" \notin DbusKinds
      BY DEF DbusKinds
    <2> QED
      BY <2>1, <2>2, <2>3, ReceiveFacts, StreamVerdictType, SettleInv, SameProcess DEF AnswerInv, TypeOK
  <1>10. CASE RecvMetrics
    <2> DEFINE f == Head(rx)
    <2>1. Receive("metrics")
      BY <1>10 DEF RecvMetrics
    <2>2. chan' \in [Chans -> {"unused", "open", "dropped"} \cup Problems]
      BY <1>10 DEF RecvMetrics, AnswerInv, TypeOK
    <2>3. MetricsGot(f) \in Seq(Nat)
      BY <2>1, ReceiveFacts, MetricsGotType, BoundsAssumption DEF AnswerInv
    <2>4. PICK out \in Outcomes : Settle(out, MetricsGot(f))
      BY <1>10, MetricsVerdictType DEF RecvMetrics, Outcomes
    <2>5. ops[cur].kind \notin DbusKinds
      BY <2>1, ReceiveFacts DEF DbusKinds
    <2>6. Process
      BY <1>10, SendFacts, SameProcess DEF RecvMetrics, AnswerInv
    <2> QED
      BY <2>1, <2>2, <2>3, <2>4, <2>5, <2>6, ReceiveFacts, SettleInv
  <1>11. ASSUME NEW out \in {"Timeout", "BridgeClosed"}, Silence(out)
         PROVE  AnswerInv'
    <2>1. cur \in Ids
      BY <1>11, BoundsAssumption DEF Silence, AnswerInv, TypeOK, Ids, BoundsAssumption
    <2>2. out \in Outcomes /\ out \notin {"ok", "Dbus", "Killed"}
      BY DEF Outcomes
    <2>3. ops[cur].got \in Seq(Nat)
      BY <2>1 DEF AnswerInv, TypeOK, Operation
    <2> QED
      BY <1>11, <2>1, <2>2, <2>3, SettleInv, SameProcess
      DEF Silence, bridgeVars, AnswerInv, FramesTrue, TypeOK
  <1>12. CASE RecvTimeout \/ RecvDisconnected
    BY <1>11, <1>12 DEF RecvTimeout, RecvDisconnected
  <1>13. CASE Drop
    <2>1. TypeOK'
      BY <1>13, EmptyQueue DEF Drop, AnswerInv, TypeOK
    <2>2. FramesTrue'
      BY <1>13, EmptyQueue DEF Drop, FramesTrue
    <2> QED
      BY <1>13, <2>1, <2>2, BystanderInv DEF Drop
  <1> QED
    BY <1>1, <1>2, <1>3, <1>4, <1>5, <1>6, <1>7, <1>8, <1>9, <1>10, <1>12, <1>13 DEF Client

\* The reader thread moves frames and changes none.
LEMMA ReaderInv == AnswerInv /\ Reader => AnswerInv'
  <1> SUFFICES ASSUME AnswerInv, Reader PROVE AnswerInv'
    OBVIOUS
  <1>1. TrueFrames \subseteq Frame
    BY DEF TrueFrames
  <1>2. CASE ReaderForward
    <2>1. Head(pipe) \in TrueFrames /\ pipe' \in Seq(TrueFrames)
      BY <1>2, HeadTail DEF ReaderForward, AnswerInv, FramesTrue
    <2>2. rx' \in Seq(TrueFrames)
      BY <1>2, <2>1, Appended DEF ReaderForward, AnswerInv, FramesTrue
    <2>3. pipe' \in Seq(Frame) /\ rx' \in Seq(Frame)
      BY <1>1, <2>1, <2>2, SeqMonotone
    <2>4. reader' \in {"none", "reading", "eof", "broken"}
      BY <1>2 DEF ReaderForward, AnswerInv, TypeOK
    <2>5. TypeOK'
      BY <1>2, <2>3, <2>4 DEF ReaderForward, AnswerInv, TypeOK, clientVars, bridgeVars
    <2>6. FramesTrue'
      <3>1. TrueFrames' = TrueFrames
        BY <1>2 DEF ReaderForward, bridgeVars, TrueFrames, True
      <3> QED
        BY <2>1, <2>2, <3>1 DEF FramesTrue
    <2> QED
      BY <1>2, <2>5, <2>6, BystanderInv DEF ReaderForward, clientVars, bridgeVars
  <1>3. CASE ReaderEof
    <2>1. TypeOK'
      BY <1>3 DEF ReaderEof, AnswerInv, TypeOK, clientVars, bridgeVars
    <2>2. FramesTrue'
      BY <1>3 DEF ReaderEof, bridgeVars, AnswerInv, FramesTrue, TrueFrames, True
    <2> QED
      BY <1>3, <2>1, <2>2, BystanderInv DEF ReaderEof, clientVars, bridgeVars
  <1> QED
    BY <1>2, <1>3 DEF Reader

\* A live operation has a number and a channel of the model.
LEMMA LiveFacts ==
  ASSUME AnswerInv, NEW k \in Ids
  PROVE  k \in 0..MaxOps /\ ops[k].chan \in 0..MaxChannels /\ sent[k] \in Nat
  BY BoundsAssumption DEF AnswerInv, TypeOK, Operation, Ids, BoundsAssumption

\* A signal of an operation the service has taken up is true.
LEMMA SignalFrame ==
  ASSUME AnswerInv, NEW k \in Ids, ran[k] = "ok", NEW val \in {"Package", "Finished"}
  PROVE  Message("signal", ops[k].chan, k, val, sent[k] + 1) \in TrueFrames
  <1>1. sent[k] + 1 \in Nat
    BY LiveFacts
  <1> QED
    BY <1>1, LiveFacts DEF Message, TrueFrames, True, Frame, Vals, ControlKinds, DataKinds

LEMMA ChansBound == Chans \subseteq 0..MaxChannels /\ 0 \in 0..MaxChannels /\ 0 \in 0..MaxOps
  BY BoundsAssumption DEF Chans, BoundsAssumption

\* The service acts on an operation it has not touched before: queued frames stay
\* true, and no caller had been answered for it.
LEMMA RecordInv ==
  ASSUME AnswerInv, NEW k \in Ids, NEW r \in {"ok", "Dbus"},
         ran[k] = "no", ran' = [ran EXCEPT ![k] = r],
         pipe' \in Seq(TrueFrames),
         UNCHANGED <<clientVars, reader, rx, bridge, chan, replied, sent, finished, noise>>
  PROVE  AnswerInv'
  <1>1. \A j \in Ids : ran[j] # "no" => ran'[j] = ran[j]
    BY DEF AnswerInv, TypeOK
  <1>2. TrueFrames \subseteq TrueFrames' /\ TrueFrames \subseteq Frame
    BY <1>1 DEF TrueFrames, True
  <1>3. pipe' \in Seq(Frame) /\ pipe' \in Seq(TrueFrames') /\ rx' \in Seq(TrueFrames')
    BY <1>2, SeqMonotone DEF AnswerInv, FramesTrue
  <1>4. TypeOK'
    BY <1>3 DEF AnswerInv, TypeOK, clientVars
  <1>5. FramesTrue'
    BY <1>3 DEF FramesTrue
  <1> QED
    BY <1>1, <1>4, <1>5, BystanderInv DEF clientVars

\* The bridge's actions.
LEMMA BridgeInv == AnswerInv /\ Bridge => AnswerInv'
  <1> SUFFICES ASSUME AnswerInv, Bridge PROVE AnswerInv'
    OBVIOUS
  <1> USE DEF ControlKinds, DataKinds
  <1>1. CASE Greet
    <2>1. Message("init", 0, 0, "", 0) \in TrueFrames
      BY ChansBound DEF Message, TrueFrames, True, Frame, Vals
    <2>2. pipe' \in Seq(TrueFrames)
      BY <1>1, <2>1, Appended DEF Greet, Write, AnswerInv, FramesTrue
    <2>3. Handshake \in Ids
      BY BoundsAssumption DEF Handshake, Ids, BoundsAssumption
    <2> QED
      BY <1>1, <2>2, <2>3, RecordInv DEF Greet, Write
  <1>2. ASSUME NEW k \in Ids, NEW r \in {"ok", "Dbus"}, Perform(k, r)
        PROVE  AnswerInv'
    BY <1>2, RecordInv DEF Perform, AnswerInv, FramesTrue
  <1>3. ASSUME NEW k \in Ids, Reply(k)
        PROVE  AnswerInv'
    <2> DEFINE f == Message("reply", ops[k].chan, k, ran[k], 0)
    <2>1. ran[k] \in {"ok", "Dbus"}
      BY <1>3 DEF Reply, AnswerInv, TypeOK
    <2>2. f \in TrueFrames
      BY <2>1, LiveFacts DEF Message, TrueFrames, True, Frame, Vals
    <2>3. Write(f) /\ UNCHANGED <<clientVars, reader, rx, bridge, ran>>
      BY <1>3 DEF Reply
    <2>4. /\ chan' \in [Chans -> {"unused", "open", "dropped"} \cup Problems]
          /\ replied' \subseteq Ids /\ sent' \in [Ids -> Nat]
          /\ finished' \subseteq Ids /\ noise' \in 0..MaxNoise
      BY <1>3 DEF Reply, AnswerInv, TypeOK
    <2> QED
      BY <2>2, <2>3, <2>4, WriteInv
  <1>4. ASSUME NEW k \in Ids, Emit(k)
        PROVE  AnswerInv'
    <2>1. PICK f \in TrueFrames : Write(f)
      <3>1. CASE Write(Message("signal", ops[k].chan, k, "Package", sent[k] + 1))
        <4>1. Message("signal", ops[k].chan, k, "Package", sent[k] + 1) \in TrueFrames
          BY <1>4, SignalFrame DEF Emit
        <4> QED
          BY <3>1, <4>1
      <3>2. CASE Write(Message("data", ops[k].chan, k, "", sent[k] + 1))
        <4>1. sent[k] + 1 \in Nat
          BY LiveFacts
        <4>2. Message("data", ops[k].chan, k, "", sent[k] + 1) \in TrueFrames
          BY <4>1, LiveFacts DEF Message, TrueFrames, True, Frame, Vals
        <4> QED
          BY <3>2, <4>2
      <3>3. CASE Write(Message("meta", ops[k].chan, k, "", 0))
        <4>1. Message("meta", ops[k].chan, k, "", 0) \in TrueFrames
          BY LiveFacts DEF Message, TrueFrames, True, Frame, Vals
        <4> QED
          BY <3>3, <4>1
      <3>4. CASE \E size \in BatchSizes : Write(Message("batch", ops[k].chan, k, "", size))
        <4>1. PICK size \in BatchSizes : Write(Message("batch", ops[k].chan, k, "", size))
          BY <3>4
        <4>2. size \in Nat
          BY BoundsAssumption DEF BoundsAssumption
        <4>3. Message("batch", ops[k].chan, k, "", size) \in TrueFrames
          BY <4>2, LiveFacts DEF Message, TrueFrames, True, Frame, Vals
        <4> QED
          BY <4>1, <4>3
      <3> QED
        BY <1>4, <3>1, <3>2, <3>3, <3>4 DEF Emit, Item
    <2>2. /\ chan' \in [Chans -> {"unused", "open", "dropped"} \cup Problems]
          /\ replied' \subseteq Ids /\ sent' \in [Ids -> Nat]
          /\ finished' \subseteq Ids /\ noise' \in 0..MaxNoise
      BY <1>4, LiveFacts DEF Emit, AnswerInv, TypeOK
    <2> QED
      BY <1>4, <2>1, <2>2, WriteInv DEF Emit
  <1>5. ASSUME NEW k \in Ids, Finish(k)
        PROVE  AnswerInv'
    <2>1. PICK f \in TrueFrames : Write(f)
      <3>1. CASE Write(Message("signal", ops[k].chan, k, "Finished", sent[k] + 1))
        <4>1. Message("signal", ops[k].chan, k, "Finished", sent[k] + 1) \in TrueFrames
          BY <1>5, SignalFrame DEF Finish
        <4> QED
          BY <3>1, <4>1
      <3>2. CASE Write(Message("done", ops[k].chan, 0, "", 0))
        <4>1. Message("done", ops[k].chan, 0, "", 0) \in TrueFrames
          BY LiveFacts, ChansBound DEF Message, TrueFrames, True, Frame, Vals
        <4> QED
          BY <3>2, <4>1
      <3> QED
        BY <1>5, <3>1, <3>2 DEF Finish
    <2>2. sent' \in [Ids -> Nat]
      <3>1. sent[k] + 1 \in Nat /\ sent \in [Ids -> Nat]
        BY LiveFacts DEF AnswerInv, TypeOK
      <3>2. sent' = [sent EXCEPT ![k] = sent[k] + 1] \/ sent' = sent
        BY <1>5, <3>1 DEF Finish
      <3> QED
        BY <3>1, <3>2
    <2>3. /\ chan' \in [Chans -> {"unused", "open", "dropped"} \cup Problems]
          /\ replied' \subseteq Ids
          /\ finished' \subseteq Ids /\ noise' \in 0..MaxNoise
      BY <1>5 DEF Finish, AnswerInv, TypeOK
    <2> QED
      BY <1>5, <2>1, <2>2, <2>3, WriteInv DEF Finish
  <1>6. ASSUME NEW c \in Chans, NEW problem \in Problems, CloseChannel(c, problem)
        PROVE  AnswerInv'
    <2>1. Message("close", c, 0, problem, 0) \in TrueFrames
      BY ChansBound DEF Message, TrueFrames, True, Frame, Vals
    <2>2. /\ chan' \in [Chans -> {"unused", "open", "dropped"} \cup Problems]
          /\ replied' \subseteq Ids /\ sent' \in [Ids -> Nat]
          /\ finished' \subseteq Ids /\ noise' \in 0..MaxNoise
      BY <1>6 DEF CloseChannel, AnswerInv, TypeOK
    <2> QED
      BY <1>6, <2>1, <2>2, WriteInv DEF CloseChannel
  <1>7. ASSUME NEW f \in TrueFrames, Disturb(f)
        PROVE  AnswerInv'
    <2>1. /\ chan' \in [Chans -> {"unused", "open", "dropped"} \cup Problems]
          /\ replied' \subseteq Ids /\ sent' \in [Ids -> Nat]
          /\ finished' \subseteq Ids /\ noise' \in 0..MaxNoise
      BY <1>7, BoundsAssumption DEF Disturb, AnswerInv, TypeOK, BoundsAssumption
    <2> QED
      BY <1>7, <2>1, WriteInv DEF Disturb
  <1>8. CASE Noise
    <2>1. ASSUME NEW c \in Chans PROVE Message("bad", c, 0, "", 0) \in TrueFrames
      BY ChansBound DEF Message, TrueFrames, True, Frame, Vals
    <2>2. Message("hint", 0, 0, "", 0) \in TrueFrames
      BY ChansBound DEF Message, TrueFrames, True, Frame, Vals
    <2>3. Message("badctl", 0, 0, "", 0) \in TrueFrames
      BY ChansBound DEF Message, TrueFrames, True, Frame, Vals
    <2>4. Message("garbage", 0, 0, "", 0) \in TrueFrames
      BY ChansBound DEF Message, TrueFrames, True, Frame, Vals
    <2> QED
      BY <1>7, <1>8, <2>1, <2>2, <2>3, <2>4 DEF Noise
  <1>9. CASE Exit
    <2>1. TypeOK'
      BY <1>9 DEF Exit, AnswerInv, TypeOK, clientVars
    <2>2. FramesTrue'
      BY <1>9 DEF Exit, AnswerInv, FramesTrue, TrueFrames, True
    <2> QED
      BY <1>9, <2>1, <2>2, BystanderInv DEF Exit, clientVars
  <1> QED
    BY <1>1, <1>2, <1>3, <1>4, <1>5, <1>6, <1>8, <1>9 DEF Bridge

LEMMA AnswerStep == AnswerInv /\ [Next]_vars => AnswerInv'
  <1>1. ASSUME AnswerInv, UNCHANGED vars PROVE AnswerInv'
    BY <1>1 DEF AnswerInv, TypeOK, FramesTrue, TrueFrames, True, AnswerIsOwn,
                vars, clientVars, bridgeVars
  <1> QED
    BY <1>1, ClientInv, ReaderInv, BridgeInv DEF Next, Over
-----------------------------------------------------------------------------
\* The client, its queue and the frames in it keep their types: in particular an
\* operation never ends with an outcome a frame made up.
THEOREM TypeCorrect == Spec => []TypeOK
  <1>1. AnswerInv => TypeOK
    BY DEF AnswerInv
  <1> QED
    BY <1>1, AnswerInit, AnswerStep, PTL DEF Spec

\* However calls, late replies, closed channels and a dying bridge interleave, a
\* method call is told only what the service did with that very call.
THEOREM AnswersAreOwn == Spec => []AnswerIsOwn
  <1>1. AnswerInv => AnswerIsOwn
    BY DEF AnswerInv
  <1> QED
    BY <1>1, AnswerInit, AnswerStep, PTL DEF Spec
-----------------------------------------------------------------------------
(* BridgeClient implements BridgeCall. *)

\* At most the current operation is pending, operations start in order, and only
\* the handshake comes first.  The service has not touched an unsent operation.  An
\* operation that could not be written has ended the program.
OrderInv ==
  /\ cur # 0 => ops[cur].out = "pending" /\ cur < nextOp
  /\ \A k \in Ids : ops[k].out = "pending" => k = cur
  /\ \A k \in Ids : k >= nextOp =>
       ops[k].kind = "none" /\ ops[k].out = "unsent" /\ ran[k] = "no"
  /\ ops[Handshake].kind \in {"none", "init"}
  /\ client = "new" => cur = 0 /\ nextOp = Handshake
  /\ \A k \in Ids : ops[k].out = "Killed" => client = "killed"

CallInv == AnswerInv /\ OrderInv

LEMMA CallInit == Init => CallInv
  <1>1. Init => OrderInv
    BY BoundsAssumption DEF Init, OrderInv, Ids, Handshake, BoundsAssumption
  <1> QED
    BY <1>1, AnswerInit DEF CallInv

LEMMA HandshakeId == Handshake \in Ids
  BY BoundsAssumption DEF Handshake, Ids, BoundsAssumption

\* The program is not started twice, and not once it has been killed.
ClientGoesOn ==
  /\ client' # "new" \/ client' = client
  /\ client = "killed" => client' = "killed"

\* A receive loop's turn, or a silence: the current operation goes on or ends.
LEMMA SettleOrder ==
  ASSUME CallInv, cur \in Ids, NEW out \in Outcomes, NEW got \in Seq(Nat),
         Settle(out, got), UNCHANGED <<nextOp, ran>>, ClientGoesOn,
         out = "Killed" => client' = "killed"
  PROVE  OrderInv'
  <1>1. /\ ops'[cur].kind = ops[cur].kind
        /\ ops'[cur].out = out
        /\ \A k \in Ids \ {cur} : ops'[k] = ops[k]
    BY SettleType DEF CallInv, AnswerInv
  <1>2. cur' = IF out = "pending" THEN cur ELSE 0
    BY DEF Settle
  <1>3. cur < nextOp /\ cur # 0 /\ nextOp \in Nat
    BY BoundsAssumption DEF CallInv, OrderInv, AnswerInv, TypeOK, Ids, BoundsAssumption
  <1>4. \A k \in Ids : ops'[k].out = "pending" => k = cur'
    BY <1>1, <1>2 DEF CallInv, OrderInv
  <1>5. \A k \in Ids : k >= nextOp => k # cur
    BY <1>3 DEF Ids
  <1>6. \A k \in Ids : k >= nextOp' =>
          ops'[k].kind = "none" /\ ops'[k].out = "unsent" /\ ran'[k] = "no"
    BY <1>1, <1>5 DEF CallInv, OrderInv
  <1>7. ops'[Handshake].kind \in {"none", "init"}
    BY <1>1, HandshakeId DEF CallInv, OrderInv
  <1>8. cur' # 0 => ops'[cur'].out = "pending" /\ cur' < nextOp'
    BY <1>1, <1>2, <1>3
  <1>9. client' # "new"
    BY <1>3 DEF CallInv, OrderInv, ClientGoesOn
  <1>10. \A k \in Ids : ops'[k].out = "Killed" => client' = "killed"
    BY <1>1 DEF CallInv, OrderInv, ClientGoesOn
  <1> QED
    BY <1>4, <1>6, <1>7, <1>8, <1>9, <1>10 DEF OrderInv

LEMMA StartOrder ==
  ASSUME CallInv, NEW kind \in {"init"} \cup DbusKinds \cup ChannelKinds,
         NEW c \in 0..MaxChannels, Start(kind, c), UNCHANGED ran,
         nextOp = Handshake => kind = "init"
  PROVE  OrderInv'
  <1>1. /\ nextOp \in Ids
        /\ nextOp' = nextOp + 1
        /\ ops'[nextOp].kind = kind
        /\ ops'[nextOp].out \in {"pending", "Killed"}
        /\ \A k \in Ids \ {nextOp} : ops'[k] = ops[k]
    BY StartFacts DEF CallInv
  <1>2. /\ cur = 0
        /\ cur' = IF bridge = "running" THEN nextOp ELSE 0
        /\ ops'[nextOp].out = IF bridge = "running" THEN "pending" ELSE "Killed"
    BY <1>1 DEF Start, CallInv, AnswerInv, TypeOK
  <1>3. \A k \in Ids : ops[k].out # "pending"
    BY <1>2 DEF CallInv, OrderInv, Ids
  <1>4. \A k \in Ids : ops'[k].out = "pending" => k = cur'
    BY <1>1, <1>2, <1>3
  <1>5. \A k \in Ids : k >= nextOp' => k # nextOp /\ k >= nextOp
    BY <1>1 DEF Ids
  <1>6. \A k \in Ids : k >= nextOp' =>
          ops'[k].kind = "none" /\ ops'[k].out = "unsent" /\ ran'[k] = "no"
    BY <1>1, <1>5 DEF CallInv, OrderInv
  <1>7. ops'[Handshake].kind \in {"none", "init"}
    BY <1>1, HandshakeId DEF CallInv, OrderInv
  <1>8. cur' # 0 => ops'[cur'].out = "pending" /\ cur' < nextOp'
    BY <1>1, <1>2 DEF Ids
  <1>9. client' # "new"
    BY StartFacts DEF CallInv
  <1>10. \A k \in Ids : ops'[k].out = "Killed" => client' = "killed"
    BY <1>1, StartFacts DEF CallInv, OrderInv
  <1> QED
    BY <1>4, <1>6, <1>7, <1>8, <1>9, <1>10 DEF OrderInv

(* The refinement mapping, named. *)

AbsRan == [k \in DbusOps |-> IF ops[k].kind \in DbusKinds THEN ran[k] ELSE "no"]
AbsAnswer == [k \in DbusOps |-> Told(k)]
AbstractStep == Abstract!Next \/ UNCHANGED <<AbsRan, AbsAnswer>>

\* The steps of BridgeCall, read through the mapping.
LEMMA AbstractSend ==
  ASSUME NEW k \in DbusOps, AbsAnswer[k] = "unsent",
         \A j \in DbusOps : AbsAnswer[j] \notin {"pending", "killed"},
         AbsAnswer' = [AbsAnswer EXCEPT ![k] = "pending"]
           \/ AbsAnswer' = [AbsAnswer EXCEPT ![k] = "killed"],
         UNCHANGED AbsRan
  PROVE  Abstract!Next
  BY DEF Abstract!Next, Abstract!Send, Abstract!SendKills, Abstract!Idle, AbsRan, AbsAnswer

LEMMA AbstractPerform ==
  ASSUME NEW k \in DbusOps, NEW r \in {"ok", "Dbus"},
         AbsAnswer[k] \notin {"unsent", "killed"}, AbsRan[k] = "no",
         AbsRan' = [AbsRan EXCEPT ![k] = r], UNCHANGED AbsAnswer
  PROVE  Abstract!Next
  BY DEF Abstract!Next, Abstract!Perform, Abstract!Performed, AbsRan, AbsAnswer

LEMMA AbstractEnd ==
  ASSUME NEW k \in DbusOps, AbsAnswer[k] = "pending",
         \/ AbsAnswer' = [AbsAnswer EXCEPT ![k] = "failed"]
         \/ AbsRan[k] \in {"ok", "Dbus"} /\ AbsAnswer' = [AbsAnswer EXCEPT ![k] = AbsRan[k]],
         UNCHANGED AbsRan
  PROVE  Abstract!Next
  BY DEF Abstract!Next, Abstract!Return, Abstract!Fail, Abstract!Performed, AbsRan, AbsAnswer

\* What a caller has been told of operation k depends on its kind and outcome only.
LEMMA SameTold ==
  ASSUME NEW k \in DbusOps, ops'[k] = ops[k]
  PROVE  Told(k)' = Told(k)
  BY DEF Told

LEMMA SettleSimulates ==
  ASSUME CallInv, cur \in Ids, NEW out \in Outcomes, NEW got \in Seq(Nat),
         Settle(out, got),
         (ops[cur].kind \in DbusKinds /\ out \in {"ok", "Dbus"}) => ran[cur] = out,
         ops[cur].kind \in DbusKinds => out # "Killed",
         UNCHANGED <<nextOp, ran>>
  PROVE  AbstractStep
  <1>0. PICK me \in Ids : me = cur
    OBVIOUS
  <1>1. /\ ops'[me].kind = ops[me].kind
        /\ ops'[me].out = out
        /\ \A k \in Ids \ {me} : ops'[k] = ops[k]
    BY <1>0, SettleType DEF CallInv, AnswerInv
  <1>2. ops[me].out = "pending" /\ ops[Handshake].kind \in {"none", "init"}
    BY <1>0, BoundsAssumption DEF CallInv, OrderInv, Ids, BoundsAssumption
  <1>3. \A k \in DbusOps : k # me => Told(k)' = Told(k)
    BY <1>1, SameTold DEF DbusOps
  <1>4. UNCHANGED AbsRan
    BY <1>1 DEF AbsRan, DbusOps
  <1>5. CASE ops[me].kind \notin DbusKinds \/ out = "pending"
    <2>1. Told(me)' = Told(me)
      BY <1>1, <1>2, <1>5 DEF Told
    <2>2. UNCHANGED AbsAnswer
      BY <1>3, <2>1 DEF AbsAnswer
    <2> QED
      BY <1>4, <2>2 DEF AbstractStep
  <1>6. CASE ops[me].kind \in DbusKinds /\ out # "pending"
    <2>1. me \in DbusOps
      BY <1>2, <1>6 DEF DbusOps, DbusKinds
    <2>2. Told(me) = "pending"
      BY <1>2, <1>6 DEF Told
    <2>3. Told(me)' = IF out \in {"ok", "Dbus"} THEN out ELSE "failed"
      BY <1>0, <1>1, <1>6 DEF Told
    <2>4. AbsAnswer' = [AbsAnswer EXCEPT ![me] = IF out \in {"ok", "Dbus"} THEN out ELSE "failed"]
      BY <1>3, <2>1, <2>3 DEF AbsAnswer
    <2>5. AbsAnswer[me] = "pending" /\ AbsRan[me] = ran[me]
      BY <1>6, <2>1, <2>2 DEF AbsAnswer, AbsRan
    <2>6. \/ AbsAnswer' = [AbsAnswer EXCEPT ![me] = "failed"]
          \/ /\ AbsRan[me] \in {"ok", "Dbus"}
             /\ AbsAnswer' = [AbsAnswer EXCEPT ![me] = AbsRan[me]]
      BY <1>0, <1>6, <2>4, <2>5
    <2> QED
      BY <1>4, <2>1, <2>5, <2>6, AbstractEnd DEF AbstractStep
  <1> QED
    BY <1>5, <1>6

LEMMA StartSimulates ==
  ASSUME CallInv, NEW kind \in {"init"} \cup DbusKinds \cup ChannelKinds,
         NEW c \in 0..MaxChannels, Start(kind, c), UNCHANGED ran,
         nextOp = Handshake => kind = "init"
  PROVE  AbstractStep
  <1>0. PICK me \in Ids : me = nextOp
    BY StartFacts DEF CallInv
  <1>1. /\ me \in Ids
        /\ ops'[me].kind = kind
        /\ ops'[me].out \in {"pending", "Killed"}
        /\ \A k \in Ids \ {me} : ops'[k] = ops[k]
    BY <1>0, StartFacts DEF CallInv
  <1>2. /\ ops[me].kind = "none" /\ ran[me] = "no"
        /\ \A k \in Ids : ops[k].out \notin {"pending", "Killed"}
    <2>1. client = "spawned" /\ cur = 0
      BY StartFacts DEF CallInv, Start
    <2>2. \A k \in Ids : ops[k].out # "Killed"
      BY <2>1 DEF CallInv, OrderInv
    <2>3. \A k \in Ids : ops[k].out # "pending"
      BY <2>1 DEF CallInv, OrderInv, Ids
    <2>4. ops[me].kind = "none" /\ ran[me] = "no"
      BY <1>0 DEF CallInv, OrderInv, Ids
    <2> QED
      BY <2>2, <2>3, <2>4
  <1>3. \A k \in DbusOps : k # me => Told(k)' = Told(k)
    BY <1>1, SameTold DEF DbusOps
  <1>4. UNCHANGED AbsRan
    BY <1>1, <1>2 DEF AbsRan, DbusOps, DbusKinds
  <1>5. Told(me) = "unsent"
    BY <1>2 DEF Told, DbusKinds
  <1>6. CASE kind \notin DbusKinds
    <2>1. Told(me)' = Told(me)
      BY <1>1, <1>5, <1>6 DEF Told
    <2>2. UNCHANGED AbsAnswer
      BY <1>3, <2>1 DEF AbsAnswer
    <2> QED
      BY <1>4, <2>2 DEF AbstractStep
  <1>7. CASE kind \in DbusKinds
    <2>1. me \in DbusOps
      BY <1>0, <1>1, <1>7 DEF DbusOps, DbusKinds
    <2>2. Told(me)' \in {"pending", "killed"}
      BY <1>1, <1>7 DEF Told
    <2>3. \/ AbsAnswer' = [AbsAnswer EXCEPT ![me] = "pending"]
          \/ AbsAnswer' = [AbsAnswer EXCEPT ![me] = "killed"]
      BY <1>3, <2>1, <2>2 DEF AbsAnswer
    <2>4. AbsAnswer[me] = "unsent"
      BY <1>5, <2>1 DEF AbsAnswer
    <2>5. \A j \in DbusOps : AbsAnswer[j] \notin {"pending", "killed"}
      BY <1>2 DEF AbsAnswer, Told, DbusOps
    <2> QED
      BY <1>4, <2>1, <2>3, <2>4, <2>5, AbstractSend DEF AbstractStep
  <1> QED
    BY <1>6, <1>7

\* An action that leaves the operations and the service's record alone.
LEMMA BystanderSimulates ==
  ASSUME CallInv, UNCHANGED <<cur, nextOp, ops, ran>>, ClientGoesOn
  PROVE  OrderInv' /\ AbstractStep
  <1>1. OrderInv'
    BY DEF CallInv, OrderInv, ClientGoesOn
  <1>2. UNCHANGED <<AbsRan, AbsAnswer>>
    BY DEF AbsRan, AbsAnswer, Told
  <1> QED
    BY <1>1, <1>2 DEF AbstractStep

\* The client's steps.
LEMMA ClientSimulates == CallInv /\ Client => OrderInv' /\ AbstractStep
  <1> SUFFICES ASSUME CallInv, Client PROVE OrderInv' /\ AbstractStep
    OBVIOUS
  <1> USE DEF CallInv
  <1>1. CASE Spawn
    <2>1. client = "new" /\ cur = 0 /\ cur' = 0 /\ nextOp = Handshake /\ client' = "spawned"
      BY <1>1 DEF Spawn, OrderInv
    <2>2. \/ UNCHANGED <<nextOp, ops>>
          \/ /\ nextOp' = Handshake + 1
             /\ ops' = [ops EXCEPT ![Handshake].kind = "init", ![Handshake].out = "Spawn"]
      BY <1>1 DEF Spawn
    <2>3. UNCHANGED ran
      BY <1>1 DEF Spawn
    <2>4. CASE UNCHANGED <<nextOp, ops>>
      BY <2>1, <2>3, <2>4, BystanderSimulates DEF ClientGoesOn
    <2>5. CASE /\ nextOp' = Handshake + 1
               /\ ops' = [ops EXCEPT ![Handshake].kind = "init", ![Handshake].out = "Spawn"]
      <3>1. ops'[Handshake] = [ops[Handshake] EXCEPT !.kind = "init", !.out = "Spawn"]
        BY <2>5, HandshakeId DEF AnswerInv, TypeOK
      <3>2. ops[Handshake] \in Operation
        BY HandshakeId DEF AnswerInv, TypeOK
      <3>3. ops'[Handshake].kind = "init" /\ ops'[Handshake].out = "Spawn"
        BY <3>1, <3>2 DEF Operation
      <3>4. \A k \in Ids : k # Handshake => ops'[k] = ops[k]
        BY <2>5 DEF AnswerInv, TypeOK
      <3>5. \A k \in Ids : k >= nextOp' => k # Handshake /\ k >= nextOp
        BY <2>1, <2>5 DEF Ids, Handshake
      <3>6. \A k \in Ids : k >= nextOp' =>
              ops'[k].kind = "none" /\ ops'[k].out = "unsent" /\ ran'[k] = "no"
        BY <2>3, <3>4, <3>5 DEF OrderInv
      <3>7. \A k \in Ids : ops'[k].out = "pending" => k = cur'
        BY <2>1, <3>3, <3>4 DEF OrderInv
      <3>8. OrderInv'
        BY <2>1, <3>3, <3>4, <3>6, <3>7 DEF OrderInv
      <3>9. UNCHANGED <<AbsRan, AbsAnswer>>
        BY <2>3, <3>4 DEF AbsRan, AbsAnswer, Told, DbusOps
      <3> QED
        BY <3>8, <3>9 DEF AbstractStep
    <2> QED
      BY <2>2, <2>4, <2>5
  <1>2. CASE Connect
    <2>1. 0 \in 0..MaxChannels
      BY BoundsAssumption DEF BoundsAssumption
    <2> QED
      BY <1>2, <2>1, StartOrder, StartSimulates DEF Connect, bridgeVars
  <1>3. CASE OpenDbus
    BY <1>3, BystanderSimulates, SendFacts DEF OpenDbus, SendControl, AnswerInv, ClientGoesOn
  <1>4. ASSUME Connected PROVE nextOp # Handshake
    BY <1>4, HandshakeId DEF Connected, OrderInv, AnswerInv, TypeOK, Ids, Handshake
  <1>5. ASSUME NEW kind \in OpKinds \cap DbusKinds, NEW c \in Chans, Request(kind, c)
        PROVE  OrderInv' /\ AbstractStep
    <2>1. c \in 0..MaxChannels
      BY BoundsAssumption DEF Chans, BoundsAssumption
    <2> QED
      BY <1>4, <1>5, <2>1, StartOrder, StartSimulates DEF Request, bridgeVars
  <1>6. ASSUME NEW kind \in OpKinds \cap ChannelKinds, OpenAndRun(kind)
        PROVE  OrderInv' /\ AbstractStep
    <2>1. PICK c \in Chans : Start(kind, c)
      BY <1>6 DEF OpenAndRun
    <2>2. c \in 0..MaxChannels
      BY BoundsAssumption DEF Chans, BoundsAssumption
    <2> QED
      BY <1>4, <1>6, <2>1, <2>2, StartOrder, StartSimulates DEF OpenAndRun
  <1>7. CASE RecvInit
    <2>1. Receive("init")
      BY <1>7 DEF RecvInit
    <2>2. cur \in Ids /\ ops[cur].kind = "init" /\ UNCHANGED <<client, nextOp, ran>>
      BY <1>7, <2>1, ReceiveFacts DEF RecvInit
    <2>3. PICK out \in Outcomes \ {"Killed"} : Settle(out, <<>>)
      BY <1>7, InitVerdictType DEF RecvInit
    <2>4. "init" \notin DbusKinds /\ <<>> \in Seq(Nat)
      BY EmptyQueue DEF DbusKinds
    <2> QED
      BY <2>2, <2>3, <2>4, SettleOrder, SettleSimulates DEF ClientGoesOn
  <1>8. CASE RecvCall
    <2>1. Receive("call") /\ Settle(CallVerdict(Head(rx)), <<>>) /\ UNCHANGED client
      BY <1>8 DEF RecvCall
    <2> QED
      BY <2>1, ReceiveFacts, CallVerdictTrue, EmptyQueue, SettleOrder, SettleSimulates
       DEF ClientGoesOn
  <1>9. CASE RecvCollect
    <2> DEFINE f == Head(rx)
    <2>1. /\ Receive("collect")
          /\ Settle(CollectVerdict(f), Taken(CollectTakes(f), f))
          /\ UNCHANGED client
      BY <1>9 DEF RecvCollect
    <2>2. Taken(CollectTakes(f), f) \in Seq(Nat)
      BY <2>1, ReceiveFacts, TakenType DEF AnswerInv, CollectTakes
    <2> QED
      BY <2>1, <2>2, ReceiveFacts, CollectVerdictTrue, SettleOrder, SettleSimulates
      DEF ClientGoesOn
  <1>10. CASE RecvStream
    <2> DEFINE f == Head(rx)
    <2>1. /\ Receive("stream")
          /\ Settle(StreamVerdict(f), Taken(StreamTakes(f), f))
          /\ UNCHANGED client
      BY <1>10 DEF RecvStream
    <2>2. Taken(StreamTakes(f), f) \in Seq(Nat)
      BY <2>1, ReceiveFacts, TakenType DEF AnswerInv, StreamTakes
    <2>3. "stream" \notin DbusKinds
      BY DEF DbusKinds
    <2> QED
      BY <2>1, <2>2, <2>3, ReceiveFacts, StreamVerdictType, SettleOrder, SettleSimulates
      DEF ClientGoesOn
  <1>11. CASE RecvMetrics
    <2> DEFINE f == Head(rx)
    <2>1. Receive("metrics") /\ ClientGoesOn
      BY <1>11, SendFacts DEF RecvMetrics, SendControl, AnswerInv, ClientGoesOn
    <2>2. MetricsGot(f) \in Seq(Nat)
      BY <2>1, ReceiveFacts, MetricsGotType, BoundsAssumption DEF AnswerInv
    <2>3. PICK out \in Outcomes :
            Settle(out, MetricsGot(f)) /\ (out = "Killed" => client' = "killed")
      <3>1. CASE MetricsEnough(f) /\ bridge = "running"
        <4>1. "ok" \in Outcomes
          BY DEF Outcomes
        <4> WITNESS "ok" \in Outcomes
        <4> QED
          BY <1>11, <3>1 DEF RecvMetrics
      <3>2. CASE MetricsEnough(f) /\ bridge # "running"
        <4>1. "Killed" \in Outcomes
          BY DEF Outcomes
        <4> WITNESS "Killed" \in Outcomes
        <4> QED
          BY <1>11, <3>2 DEF RecvMetrics, SendControl
      <3>3. CASE ~MetricsEnough(f)
        <4>1. MetricsVerdict(f) \in Outcomes \ {"Killed"}
          BY MetricsVerdictType
        <4>2. Settle(MetricsVerdict(f), MetricsGot(f))
          BY <1>11, <3>3 DEF RecvMetrics
        <4> QED
          BY <4>1, <4>2
      <3> QED
        BY <3>1, <3>2, <3>3
    <2>4. ops[cur].kind \notin DbusKinds
      BY <2>1, ReceiveFacts DEF DbusKinds
    <2> QED
      BY <2>1, <2>2, <2>3, <2>4, ReceiveFacts, SettleOrder, SettleSimulates
  <1>12. ASSUME NEW out \in {"Timeout", "BridgeClosed"}, Silence(out)
         PROVE  OrderInv' /\ AbstractStep
    <2>1. cur \in Ids
      BY <1>12, BoundsAssumption DEF Silence, AnswerInv, TypeOK, Ids, BoundsAssumption
    <2>2. out \in Outcomes /\ out \notin {"ok", "Dbus", "Killed"}
      BY DEF Outcomes
    <2>3. ops[cur].got \in Seq(Nat)
      BY <2>1 DEF AnswerInv, TypeOK, Operation
    <2> QED
      BY <1>12, <2>1, <2>2, <2>3, SettleOrder, SettleSimulates
      DEF Silence, bridgeVars, ClientGoesOn
  <1>13. CASE Drop
    BY <1>13, BystanderSimulates DEF Drop, ClientGoesOn
  <1> QED
    BY <1>1, <1>2, <1>3, <1>5, <1>6, <1>7, <1>8, <1>9, <1>10, <1>11, <1>12, <1>13
    DEF Client, RecvTimeout, RecvDisconnected

\* The reader thread's steps are invisible to callers.
LEMMA ReaderSimulates == CallInv /\ Reader => OrderInv' /\ AbstractStep
  <1> SUFFICES ASSUME CallInv, Reader PROVE OrderInv' /\ AbstractStep
    OBVIOUS
  <1>1. UNCHANGED <<cur, nextOp, ops, ran>> /\ client' = client
    BY DEF Reader, ReaderForward, ReaderEof, clientVars, bridgeVars
  <1> QED
    BY <1>1, BystanderSimulates DEF ClientGoesOn

\* The bridge's steps: the service acts on a call, or nothing a caller sees happens.
LEMMA BridgeSimulates == CallInv /\ Bridge => OrderInv' /\ AbstractStep
  <1> SUFFICES ASSUME CallInv, Bridge PROVE OrderInv' /\ AbstractStep
    OBVIOUS
  <1>0. UNCHANGED <<client, cur, nextOp, ops>>
    BY DEF Bridge, Greet, Perform, Reply, Emit, Finish, CloseChannel, Noise, Disturb, Exit,
           clientVars
  <1>1. ASSUME NEW k \in Ids, ops[k].kind # "none", UNCHANGED <<client, cur, nextOp, ops>>,
               NEW r \in {"ok", "Dbus"}, ran' = [ran EXCEPT ![k] = r]
        PROVE  OrderInv'
    <2>1. \A j \in Ids : j >= nextOp => ran'[j] = ran[j]
      BY <1>1 DEF CallInv, OrderInv, AnswerInv, TypeOK
    <2> QED
      BY <1>1, <2>1 DEF CallInv, OrderInv
  <1>2. UNCHANGED AbsAnswer
    BY <1>0 DEF AbsAnswer, Told
  <1>3. CASE Greet
    <2>1. ran' = [ran EXCEPT ![Handshake] = "ok"] /\ ops[Handshake].kind = "init"
      BY <1>3 DEF Greet
    <2>2. OrderInv'
      BY <1>0, <1>1, <2>1, HandshakeId
    <2>3. UNCHANGED AbsRan
      BY <1>0, <2>1 DEF AbsRan, DbusOps, CallInv, AnswerInv, TypeOK
    <2> QED
      BY <1>2, <2>2, <2>3 DEF AbstractStep
  <1>4. ASSUME NEW k \in Ids, NEW r \in {"ok", "Dbus"}, Perform(k, r)
        PROVE  OrderInv' /\ AbstractStep
    <2>1. /\ ran[k] = "no" /\ ran' = [ran EXCEPT ![k] = r]
          /\ ops[k].kind \in DbusKinds \cup ChannelKinds
          /\ ops[k].out \notin {"unsent", "Killed"}
      BY <1>4 DEF Perform, Live, Requested
    <2>2. k \in DbusOps
      BY <2>1 DEF DbusOps, DbusKinds, ChannelKinds, CallInv, OrderInv
    <2>3. OrderInv'
      BY <1>0, <1>1, <2>1 DEF DbusKinds, ChannelKinds
    <2>4. CASE ops[k].kind \in DbusKinds
      <3>1. AbsAnswer[k] \notin {"unsent", "killed"} /\ AbsRan[k] = "no"
        BY <2>1, <2>2, <2>4 DEF AbsAnswer, AbsRan, Told
      <3>2. AbsRan' = [AbsRan EXCEPT ![k] = r]
        BY <1>0, <2>1, <2>2, <2>4 DEF AbsRan, DbusOps, CallInv, AnswerInv, TypeOK
      <3> QED
        BY <1>2, <2>2, <2>3, <3>1, <3>2, AbstractPerform DEF AbstractStep
    <2>5. CASE ops[k].kind \notin DbusKinds
      <3>1. UNCHANGED AbsRan
        BY <1>0, <2>1, <2>5 DEF AbsRan, DbusOps, CallInv, AnswerInv, TypeOK
      <3> QED
        BY <1>2, <2>3, <3>1 DEF AbstractStep
    <2> QED
      BY <2>4, <2>5
  <1>5. CASE UNCHANGED ran
    BY <1>0, <1>5, BystanderSimulates DEF ClientGoesOn
  <1> QED
    BY <1>3, <1>4, <1>5
    DEF Bridge, Reply, Emit, Finish, CloseChannel, Noise, Disturb, Exit

LEMMA CallStep == CallInv /\ [Next]_vars => CallInv' /\ AbstractStep
  <1>1. ASSUME CallInv, UNCHANGED vars PROVE OrderInv' /\ AbstractStep
    BY <1>1, BystanderSimulates DEF vars, clientVars, bridgeVars, ClientGoesOn
  <1> QED
    BY <1>1, AnswerStep, ClientSimulates, ReaderSimulates, BridgeSimulates
    DEF CallInv, Next, Over

\* The client, its queue, the reader thread and the bridge together offer what
\* BridgeCall promises: a call is sent at most once and performed at most once, and
\* its caller gets that call's own outcome or an error.
THEOREM Implements == Spec => ImplementsBridgeCall
  <1>1. Init => Abstract!Init
    BY DEF Init, Abstract!Init, DbusOps, Told, DbusKinds
  <1>2. AbstractStep => [Abstract!Next]_(Abstract!vars)
    BY DEF AbstractStep, Abstract!vars, AbsRan, AbsAnswer
  <1> QED
    BY <1>1, <1>2, CallInit, CallStep, PTL DEF Spec, ImplementsBridgeCall, Abstract!Spec
=============================================================================
