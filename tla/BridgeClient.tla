---------------------------- MODULE BridgeClient ----------------------------
(***************************************************************************)
(* One fez invocation talking to cockpit-bridge over the child's stdio:    *)
(* the client (protocol/client.rs), its reader thread and frame queue      *)
(* (protocol/connection.rs, frame.rs) and, as an environment, the bridge   *)
(* and the services behind it.                                             *)
(*                                                                         *)
(* The client runs one operation at a time and several one after the       *)
(* other; an operation that failed may be followed by another one on the   *)
(* same connection and channel (dnf5 closes its session after a failed     *)
(* call), so frames of an abandoned operation can still arrive.            *)
(*                                                                         *)
(* Operations are numbered in order.  The number of a D-Bus operation      *)
(* stands for its cookie, and for the path of the transaction object a     *)
(* collecting operation listens on: packagekit.rs creates one transaction  *)
(* per collecting call.                                                    *)
(***************************************************************************)
EXTENDS Integers, Sequences

CONSTANTS
  MaxOps,        \* bound on the operations of an invocation, handshake included
  MaxChannels,   \* bound on the channels the client allocates
  MaxQueue,      \* bound on the frames in flight from bridge to client
  MaxItems,      \* bound on the signals, chunks or batches of one operation
  MaxNoise,      \* bound on frames that concern no operation
  SampleCount,   \* the sample_count argument of metrics_collect
  BatchSizes,    \* how many samples one metrics message may hold
  OpKinds,       \* the operations the invocation uses
  Problems,      \* the problem codes a close carries; "none" when it has none
  Faults         \* how the bridge may break the protocol: subset of AllFaults

DbusKinds == {"call", "collect"}
ChannelKinds == {"stream", "metrics"}
AllFaults == {"bad", "badctl", "garbage", "exit"}

ASSUME BoundsAssumption ==
  /\ MaxOps \in Nat \ {0}
  /\ MaxChannels \in Nat
  /\ MaxQueue \in Nat
  /\ MaxItems \in Nat
  /\ MaxNoise \in Nat
  /\ SampleCount \in Nat
  /\ BatchSizes \subseteq Nat

ASSUME KindsAssumption ==
  /\ OpKinds \subseteq DbusKinds \cup ChannelKinds
  /\ Problems \subseteq STRING \ {"unused", "open", "dropped"}
  /\ Faults \subseteq AllFaults

Ids == 1..MaxOps
Chans == 1..MaxChannels
Handshake == 1        \* the operation number of connect()'s init exchange

VARIABLES
  \* the client
  client,        \* "new", "spawned", "dropped", or "killed" by SIGPIPE
  cur,           \* the operation in progress, 0 when there is none
  nextOp,        \* next_cookie
  next_channel,
  ops,           \* ops[k]: kind, channel, outcome and collected items of operation k
  \* the connection
  reader,        \* the stdout reader thread: "none", "reading", "eof", "broken"
  pipe,          \* frames in the child's stdout, not yet read
  rx,            \* frames in the mpsc queue
  \* the bridge and the services behind it
  bridge,        \* the child process: "absent", "running", "exited"
  chan,          \* chan[c]: "unused", "open", or how channel c was closed
  ran,           \* ran[k]: what the service did with operation k
  replied,       \* operations whose method reply was written
  sent,          \* sent[k]: signals, chunks or batches written for operation k
  finished,      \* operations whose last item (Finished, done) was written
  noise          \* frames written that concern no operation

clientVars == <<client, cur, nextOp, next_channel, ops>>
bridgeVars == <<bridge, chan, ran, replied, sent, finished, noise>>
vars == <<clientVars, reader, pipe, rx, bridgeVars>>
-----------------------------------------------------------------------------
(* Frames *)

ControlKinds == {"init", "hint", "close", "done", "badctl"}
DataKinds == {"reply", "signal", "data", "batch", "meta", "bad"}
Vals == {"", "ok", "Dbus", "Package", "Finished"} \cup Problems

\* `chan` is the channel a data frame rides on, or the one a control frame
\* names; `id` the operation a reply or signal belongs to; `val` the verdict,
\* member name or problem; `n` the number of the item or the size of the batch.
Frame == [kind : ControlKinds \cup DataKinds \cup {"garbage"},
          chan : 0..MaxChannels, id : 0..MaxOps, val : Vals, n : Nat]

Message(kind, c, k, val, n) ==
  [kind |-> kind, chan |-> c, id |-> k, val |-> val, n |-> n]

\* Mutant of ClosedAs: the bridge's code is passed through unmapped.
ClosedAsRaw(problem) == problem

\* The error a channel close is turned into.
ClosedAs(problem) ==
  CASE problem = "access-denied"         -> "AccessDenied"
    [] problem = "not-found"             -> "ChannelNotFound"
    [] problem = "authentication-failed" -> "ChannelAuthFailed"
    [] problem = "not-supported"         -> "ChannelNotSupported"
    [] OTHER                             -> "Problem"

CloseErrors == {"AccessDenied", "ChannelNotFound", "ChannelAuthFailed",
                "ChannelNotSupported", "Problem"}
Outcomes == {"unsent", "pending", "ok", "Dbus", "Decode", "Killed", "Spawn",
             "Timeout", "BridgeClosed", "DependencyMissing"} \cup CloseErrors

Operation == [kind : {"none", "init"} \cup DbusKinds \cup ChannelKinds,
              chan : 0..MaxChannels, out : Outcomes, got : Seq(Nat)]
-----------------------------------------------------------------------------
TypeOK ==
  /\ client \in {"new", "spawned", "dropped", "killed"}
  /\ cur \in 0..MaxOps
  /\ nextOp \in 1..(MaxOps + 1)
  /\ next_channel \in 1..(MaxChannels + 1)
  /\ ops \in [Ids -> Operation]
  /\ reader \in {"none", "reading", "eof", "broken"}
  /\ pipe \in Seq(Frame)
  /\ rx \in Seq(Frame)
  /\ bridge \in {"absent", "running", "exited"}
  /\ chan \in [Chans -> {"unused", "open", "dropped"} \cup Problems]
  /\ ran \in [Ids -> {"no", "ok", "Dbus"}]
  /\ replied \subseteq Ids
  /\ sent \in [Ids -> Nat]
  /\ finished \subseteq Ids
  /\ noise \in 0..MaxNoise

Init ==
  /\ client = "new"
  /\ cur = 0
  /\ nextOp = Handshake
  /\ next_channel = 1
  /\ ops = [k \in Ids |-> [kind |-> "none", chan |-> 0, out |-> "unsent", got |-> <<>>]]
  /\ reader = "none"
  /\ pipe = <<>>
  /\ rx = <<>>
  /\ bridge = "absent"
  /\ chan = [c \in Chans |-> "unused"]
  /\ ran = [k \in Ids |-> "no"]
  /\ replied = {}
  /\ sent = [k \in Ids |-> 0]
  /\ finished = {}
  /\ noise = 0
-----------------------------------------------------------------------------
(* The client: starting operations *)

\* BridgeConnection::spawn: the child and the thread draining its stdout.
Spawn ==
  /\ client = "new"
  /\ client' = "spawned"
  /\ \/ /\ bridge' = "running"
        /\ reader' = "reading"
        /\ UNCHANGED <<nextOp, ops>>
     \/ /\ ops' = [ops EXCEPT ![Handshake].kind = "init", ![Handshake].out = "Spawn"]
        /\ nextOp' = Handshake + 1
        /\ UNCHANGED <<bridge, reader>>
  /\ UNCHANGED <<cur, next_channel, pipe, rx, chan, ran, replied, sent, finished, noise>>

\* One write to the child's stdin.  main() gave SIGPIPE its default action back, so
\* writing to a bridge that is gone is no i/o error: it ends fez, threads and all.
SendControl ==
  /\ client = "spawned"
  /\ client' = IF bridge = "running" THEN client ELSE "killed"
  /\ reader' = IF bridge = "running" THEN reader ELSE "none"

Start(kind, c) ==
  /\ SendControl
  /\ cur = 0
  /\ nextOp <= MaxOps
  /\ ops' = [ops EXCEPT ![nextOp] =
               [kind |-> kind, chan |-> c, got |-> <<>>,
                out |-> IF bridge = "running" THEN "pending" ELSE "Killed"]]
  /\ cur' = IF bridge = "running" THEN nextOp ELSE 0
  /\ nextOp' = nextOp + 1

\* connect: send `init`, then await_init.
Connect ==
  /\ nextOp = Handshake
  /\ Start("init", 0)
  /\ UNCHANGED <<next_channel, pipe, rx, bridgeVars>>

Connected == ops[Handshake].out = "ok"

\* alloc_channel, and the open control that the bridge acts on in its own time.
Allocate(c) ==
  /\ next_channel <= MaxChannels
  /\ c = next_channel
  /\ next_channel' = next_channel + 1
  /\ chan' = [chan EXCEPT ![c] = IF bridge = "running" THEN "open" ELSE @]

\* open_dbus and open_dbus_internal: no reply is awaited.
OpenDbus ==
  /\ SendControl
  /\ Connected
  /\ cur = 0
  /\ OpKinds \cap DbusKinds # {}
  /\ \E c \in Chans : Allocate(c)
  /\ UNCHANGED <<cur, nextOp, ops, pipe, rx, bridge, ran, replied, sent, finished, noise>>

\* Channels on which open_dbus succeeded, as far as the client knows.
DbusChannel(c) ==
  /\ c < next_channel
  /\ \A k \in Ids : ops[k].kind \in ChannelKinds => ops[k].chan # c

\* dbus_call and dbus_call_collect up to the first recv.
Request(kind, c) ==
  /\ Connected
  /\ DbusChannel(c)
  /\ Start(kind, c)
  /\ UNCHANGED <<next_channel, pipe, rx, bridgeVars>>

\* stream_collect, stream_each and metrics_collect up to the first recv.
OpenAndRun(kind) ==
  /\ Connected
  /\ \E c \in Chans : Allocate(c) /\ Start(kind, c)
  /\ UNCHANGED <<pipe, rx, bridge, ran, replied, sent, finished, noise>>
-----------------------------------------------------------------------------
(* The client: receiving *)

Mine(f) == f.chan = ops[cur].chan

\* await_init: any control frame that is not `init` is skipped, a close included.
InitVerdict(f) ==
  CASE f.kind = "badctl" -> "Decode"
    [] f.kind = "init"   -> "ok"
    [] OTHER             -> "pending"

\* Mutants of CallVerdict: any reply on the channel is taken; any channel's close
\* ends the call.
CallVerdictAnyCookie(f) ==
  CASE f.kind = "badctl"                     -> "Decode"
    [] f.kind = "close" /\ Mine(f)           -> ClosedAs(f.val)
    [] f.kind = "bad" /\ Mine(f)             -> "Decode"
    [] f.kind = "reply" /\ Mine(f)           -> f.val
    [] OTHER                                 -> "pending"

CallVerdictAnyClose(f) ==
  CASE f.kind = "badctl"                            -> "Decode"
    [] f.kind = "close"                             -> ClosedAs(f.val)
    [] f.kind = "bad" /\ Mine(f)                    -> "Decode"
    [] f.kind = "reply" /\ Mine(f) /\ f.id = cur    -> f.val
    [] OTHER                                        -> "pending"

\* dbus_call: the reply must carry this call's cookie.
CallVerdict(f) ==
  CASE f.kind = "badctl"                            -> "Decode"
    [] f.kind = "close" /\ Mine(f)                  -> ClosedAs(f.val)
    [] f.kind = "bad" /\ Mine(f)                    -> "Decode"
    [] f.kind = "reply" /\ Mine(f) /\ f.id = cur    -> f.val
    [] OTHER                                        -> "pending"

\* Mutant of CollectTakes: the path is not compared.
CollectTakesAnyPath(f) == f.kind = "signal" /\ Mine(f)

\* dbus_call_collect: only signals of this transaction's path count; the method
\* reply is skipped, an error reply too.
CollectTakes(f) == f.kind = "signal" /\ Mine(f) /\ f.id = cur

\* Mutant of CollectVerdict: the method reply ends the collection as a success.
CollectVerdictOnReply(f) ==
  CASE f.kind = "badctl"                                      -> "Decode"
    [] f.kind = "close" /\ Mine(f)                            -> ClosedAs(f.val)
    [] f.kind = "bad" /\ Mine(f)                              -> "Decode"
    [] f.kind \in {"reply", "signal"} /\ Mine(f) /\ f.id = cur -> "ok"
    [] OTHER                                                  -> "pending"

CollectVerdict(f) ==
  CASE f.kind = "badctl"                       -> "Decode"
    [] f.kind = "close" /\ Mine(f)             -> ClosedAs(f.val)
    [] f.kind = "bad" /\ Mine(f)               -> "Decode"
    [] CollectTakes(f) /\ f.val = "Finished"   -> "ok"
    [] OTHER                                   -> "pending"

\* Mutant of StreamTakes: data frames of every channel are collected.
StreamTakesAnyChannel(f) == f.kind \in DataKinds

\* stream_collect, stream_each: payloads are opaque bytes.
StreamTakes(f) == f.kind \in DataKinds /\ Mine(f)

StreamVerdict(f) ==
  CASE f.kind = "badctl"                                -> "Decode"
    [] f.kind = "close" /\ Mine(f) /\ f.val # "none"    -> ClosedAs(f.val)
    [] f.kind = "close" /\ Mine(f) /\ f.val = "none"    -> "ok"
    [] f.kind = "done" /\ Mine(f)                       -> "ok"
    [] OTHER                                            -> "pending"

\* Mutant of Fitting: the whole batch is kept.
FittingAll(f) == [i \in 1..f.n |-> i]

\* metrics_collect: the samples of a batch that still fit.
Fitting(f) ==
  LET remaining == SampleCount - Len(ops[cur].got)
  IN  [i \in 1..(IF f.n < remaining THEN f.n ELSE remaining) |-> i]

MetricsGot(f) ==
  IF f.kind = "batch" /\ Mine(f) THEN ops[cur].got \o Fitting(f) ELSE ops[cur].got

\* After any own data frame, the meta message included, the count is tested.
MetricsEnough(f) ==
  f.kind \in {"batch", "meta"} /\ Mine(f) /\ Len(MetricsGot(f)) >= SampleCount

MetricsVerdict(f) ==
  CASE f.kind = "badctl"                                          -> "Decode"
    [] f.kind = "bad" /\ Mine(f)                                  -> "Decode"
    [] f.kind = "done" /\ Mine(f)                                 -> "ok"
    [] f.kind = "close" /\ Mine(f) /\ f.val = "not-supported"     -> "DependencyMissing"
    [] f.kind = "close" /\ Mine(f) /\ f.val = "none"              -> "ok"
    [] f.kind = "close" /\ Mine(f) /\ f.val \notin {"none", "not-supported"}
                                                                  -> ClosedAs(f.val)
    [] OTHER                                                      -> "pending"

\* One turn of the receive loop of the operation in progress.
Settle(out, got) ==
  /\ ops' = [ops EXCEPT ![cur].out = out, ![cur].got = got]
  /\ cur' = IF out = "pending" THEN cur ELSE 0

Taken(takes, f) == IF takes THEN Append(ops[cur].got, f.n) ELSE ops[cur].got

Receive(kind) ==
  /\ cur # 0
  /\ ops[cur].kind = kind
  /\ rx # <<>>
  /\ rx' = Tail(rx)
  /\ UNCHANGED <<nextOp, next_channel, pipe, bridge, ran, replied, sent, finished, noise>>

RecvInit ==
  /\ Receive("init")
  /\ Settle(InitVerdict(Head(rx)), <<>>)
  /\ UNCHANGED <<client, reader, chan>>

RecvCall ==
  /\ Receive("call")
  /\ Settle(CallVerdict(Head(rx)), <<>>)
  /\ UNCHANGED <<client, reader, chan>>

RecvCollect ==
  /\ Receive("collect")
  /\ Settle(CollectVerdict(Head(rx)), Taken(CollectTakes(Head(rx)), Head(rx)))
  /\ UNCHANGED <<client, reader, chan>>

RecvStream ==
  /\ Receive("stream")
  /\ Settle(StreamVerdict(Head(rx)), Taken(StreamTakes(Head(rx)), Head(rx)))
  /\ UNCHANGED <<client, reader, chan>>

\* With enough samples the client closes the channel itself; a bridge that is gone by
\* then ends fez here too.
RecvMetrics ==
  /\ Receive("metrics")
  /\ IF MetricsEnough(Head(rx))
     THEN /\ SendControl
          /\ Settle(IF bridge = "running" THEN "ok" ELSE "Killed", MetricsGot(Head(rx)))
          /\ chan' = [c \in Chans |->
                        IF c = ops[cur].chan /\ bridge = "running" /\ chan[c] = "open"
                        THEN "dropped" ELSE chan[c]]
     ELSE /\ Settle(MetricsVerdict(Head(rx)), MetricsGot(Head(rx)))
          /\ UNCHANGED <<client, reader, chan>>

\* recv_timeout with an empty queue: 30 s pass, or the reader thread is gone.
Silence(out) ==
  /\ cur # 0
  /\ rx = <<>>
  /\ Settle(out, ops[cur].got)
  /\ UNCHANGED <<client, nextOp, next_channel, reader, pipe, rx, bridgeVars>>

\* Mutant of RecvTimeout: a receive without a deadline.
RecvWithoutDeadline == FALSE /\ Silence("Timeout")

RecvTimeout == reader = "reading" /\ Silence("Timeout")
RecvDisconnected == reader # "reading" /\ Silence("BridgeClosed")

\* Drop for BridgeConnection: kill the child and reap it.  The queue goes with the
\* receiver, and the reader thread ends at its next send or at end of file.
Drop ==
  /\ client = "spawned"
  /\ nextOp > Handshake
  /\ cur = 0
  /\ client' = "dropped"
  /\ bridge' = IF bridge = "running" THEN "exited" ELSE bridge
  /\ reader' = IF reader = "reading" THEN "eof" ELSE reader
  /\ pipe' = <<>>
  /\ rx' = <<>>
  /\ UNCHANGED <<cur, nextOp, next_channel, ops, chan, ran, replied, sent, finished, noise>>

Client ==
  \/ Spawn
  \/ Connect
  \/ OpenDbus
  \/ \E kind \in OpKinds \cap DbusKinds, c \in Chans : Request(kind, c)
  \/ \E kind \in OpKinds \cap ChannelKinds : OpenAndRun(kind)
  \/ RecvInit
  \/ RecvCall
  \/ RecvCollect
  \/ RecvStream
  \/ RecvMetrics
  \/ RecvTimeout
  \/ RecvDisconnected
  \/ Drop
-----------------------------------------------------------------------------
(* The reader thread: read_frame until end of file or a framing error.  Both
   end it without a word; what was queued stays queued. *)

\* Mutant of ReaderForward: a bounded queue that drops what does not fit.
ReaderForwardLossy ==
  /\ reader = "reading"
  /\ pipe # <<>>
  /\ pipe' = Tail(pipe)
  /\ IF Head(pipe).kind = "garbage"
     THEN reader' = "broken" /\ UNCHANGED rx
     ELSE rx' = (IF rx = <<>> THEN <<Head(pipe)>> ELSE rx) /\ UNCHANGED reader
  /\ UNCHANGED <<clientVars, bridgeVars>>

ReaderForward ==
  /\ reader = "reading"
  /\ pipe # <<>>
  /\ pipe' = Tail(pipe)
  /\ IF Head(pipe).kind = "garbage"
     THEN reader' = "broken" /\ UNCHANGED rx
     ELSE rx' = Append(rx, Head(pipe)) /\ UNCHANGED reader
  /\ UNCHANGED <<clientVars, bridgeVars>>

ReaderEof ==
  /\ reader = "reading"
  /\ pipe = <<>>
  /\ bridge = "exited"
  /\ reader' = "eof"
  /\ UNCHANGED <<clientVars, pipe, rx, bridgeVars>>

Reader == ReaderForward \/ ReaderEof
-----------------------------------------------------------------------------
(* The bridge and the services, as the client meets them.  The bridge takes
   requests up in its own time and order. *)

Write(f) ==
  /\ bridge = "running"
  /\ Len(pipe) + Len(rx) < MaxQueue
  /\ pipe' = Append(pipe, f)

\* Operation k was written to the bridge, whatever became of its caller.
Requested(k) == ops[k].out \notin {"unsent", "Killed", "Spawn"}

Live(k) ==
  /\ ops[k].kind \in DbusKinds \cup ChannelKinds
  /\ Requested(k)
  /\ chan[ops[k].chan] = "open"

\* The bridge answers `init`.
Greet ==
  /\ ops[Handshake].kind = "init"
  /\ Requested(Handshake)
  /\ ran[Handshake] = "no"
  /\ Write(Message("init", 0, 0, "", 0))
  /\ ran' = [ran EXCEPT ![Handshake] = "ok"]
  /\ UNCHANGED <<clientVars, reader, rx, bridge, chan, replied, sent, finished, noise>>

\* The service performs the method, or refuses it; the process is spawned; the
\* sampling starts.  A method the bridge passed on is performed even if the bridge has
\* exited since.
Perform(k, r) ==
  /\ bridge = "running" \/ ops[k].kind \in DbusKinds
  /\ r = "Dbus" => ops[k].kind \in DbusKinds
  /\ Live(k)
  /\ ran[k] = "no"
  /\ ran' = [ran EXCEPT ![k] = r]
  /\ UNCHANGED <<clientVars, reader, pipe, rx, bridge, chan, replied, sent, finished, noise>>

Reply(k) ==
  /\ ops[k].kind \in DbusKinds
  /\ Live(k)
  /\ ran[k] # "no"
  /\ k \notin replied
  /\ Write(Message("reply", ops[k].chan, k, ran[k], 0))
  /\ replied' = replied \cup {k}
  /\ UNCHANGED <<clientVars, reader, rx, bridge, chan, ran, sent, finished, noise>>

\* An item of a running operation: a signal, a chunk, or metrics messages.
Item(k) ==
  \/ /\ ops[k].kind = "collect"
     /\ Write(Message("signal", ops[k].chan, k, "Package", sent[k] + 1))
  \/ /\ ops[k].kind = "stream"
     /\ Write(Message("data", ops[k].chan, k, "", sent[k] + 1))
  \/ /\ ops[k].kind = "metrics"
     /\ sent[k] = 0
     /\ Write(Message("meta", ops[k].chan, k, "", 0))
  \/ /\ ops[k].kind = "metrics"
     /\ sent[k] > 0
     /\ \E size \in BatchSizes : Write(Message("batch", ops[k].chan, k, "", size))

Emit(k) ==
  /\ Live(k)
  /\ ran[k] = "ok"
  /\ k \notin finished
  /\ sent[k] < MaxItems
  /\ Item(k)
  /\ sent' = [sent EXCEPT ![k] = @ + 1]
  /\ UNCHANGED <<clientVars, reader, rx, bridge, chan, ran, replied, finished, noise>>

\* The last item: PackageKit's Finished signal, or `done` on a stream.
Finish(k) ==
  /\ Live(k)
  /\ ran[k] = "ok"
  /\ k \notin finished
  /\ \/ /\ ops[k].kind = "collect"
        /\ Write(Message("signal", ops[k].chan, k, "Finished", sent[k] + 1))
     \/ /\ ops[k].kind \in ChannelKinds
        /\ Write(Message("done", ops[k].chan, 0, "", 0))
  /\ sent' = [sent EXCEPT ![k] = IF ops[k].kind = "collect" THEN @ + 1 ELSE @]
  /\ finished' = finished \cup {k}
  /\ UNCHANGED <<clientVars, reader, rx, bridge, chan, ran, replied, noise>>

\* The bridge closes a channel: access refused, no such service, process gone.
\* A stream closes without a problem only after its process has ended.
CloseChannel(c, problem) ==
  /\ chan[c] = "open"
  /\ Write(Message("close", c, 0, problem, 0))
  /\ \A k \in Ids :
       (problem = "none" /\ ops[k].kind \in ChannelKinds /\ ops[k].chan = c) => k \in finished
  /\ chan' = [chan EXCEPT ![c] = problem]
  /\ UNCHANGED <<clientVars, reader, rx, bridge, ran, replied, sent, finished, noise>>

\* Control frames no operation waits for (`ready`, `ping`), frames that do not
\* decode, and bytes that are no frame at all.
Disturb(f) ==
  /\ noise < MaxNoise
  /\ Write(f)
  /\ noise' = noise + 1
  /\ UNCHANGED <<clientVars, reader, rx, bridge, chan, ran, replied, sent, finished>>

Noise ==
  \/ Disturb(Message("hint", 0, 0, "", 0))
  \/ "badctl" \in Faults /\ Disturb(Message("badctl", 0, 0, "", 0))
  \/ "garbage" \in Faults /\ Disturb(Message("garbage", 0, 0, "", 0))
  \/ \E c \in Chans :
       /\ "bad" \in Faults
       /\ chan[c] = "open"
       /\ \A k \in Ids : ops[k].kind = "stream" => ops[k].chan # c
       /\ Disturb(Message("bad", c, 0, "", 0))

Exit ==
  /\ "exit" \in Faults
  /\ bridge = "running"
  /\ bridge' = "exited"
  /\ UNCHANGED <<clientVars, reader, pipe, rx, chan, ran, replied, sent, finished, noise>>

Bridge ==
  \/ Greet
  \/ \E k \in Ids :
       \/ \E r \in {"ok", "Dbus"} : Perform(k, r)
       \/ Reply(k)
       \/ Emit(k)
       \/ Finish(k)
  \/ \E c \in Chans, problem \in Problems : CloseChannel(c, problem)
  \/ Noise
  \/ Exit
-----------------------------------------------------------------------------
\* The invocation is over.
Over == client \in {"dropped", "killed"} /\ UNCHANGED vars

Next == Client \/ Reader \/ Bridge \/ Over

\* The client's loop and the reader thread run when they can; a silence lasts 30 s.
\* Nothing is assumed of the bridge.
Fairness ==
  /\ WF_vars(RecvInit \/ RecvCall \/ RecvCollect \/ RecvStream \/ RecvMetrics)
  /\ WF_vars(RecvTimeout)
  /\ WF_vars(RecvDisconnected)
  /\ WF_vars(Reader)

Spec == Init /\ [][Next]_vars
FairSpec == Spec /\ Fairness
-----------------------------------------------------------------------------
(* Properties *)

InFlight == {pipe[i] : i \in DOMAIN pipe} \cup {rx[i] : i \in DOMAIN rx}

\* A method call is told only what the service did with that very call: never
\* the late answer to an earlier call that was abandoned on the same channel.
AnswerIsOwn ==
  \A k \in Ids :
    ops[k].kind \in DbusKinds /\ ops[k].out \in {"ok", "Dbus"} => ran[k] = ops[k].out

\* What stream_collect and dbus_call_collect gather is, in order and without a
\* gap, what the peer emitted for that operation; a success has all of it, up to
\* the end marker, even if the bridge has exited since.
CollectedWhole ==
  \A k \in Ids :
    ops[k].kind \in {"collect", "stream"} =>
      /\ ops[k].got = [i \in 1..Len(ops[k].got) |-> i]
      /\ Len(ops[k].got) <= sent[k]
      /\ ops[k].out = "ok" => k \in finished /\ Len(ops[k].got) = sent[k]

\* metrics_collect never returns more samples than asked for, although the bridge
\* ignores the limit and batches several; it returns fewer only when the bridge
\* ended the channel.
SamplesBounded ==
  \A k \in Ids :
    ops[k].kind = "metrics" =>
      /\ Len(ops[k].got) <= SampleCount
      /\ ops[k].out = "ok" => k \in finished \/ Len(ops[k].got) = SampleCount

\* A close problem is reported by the operation whose channel the bridge closed
\* with that problem, and by no other.
CloseReportedByOwner ==
  \A k \in Ids :
    ops[k].out \in CloseErrors \cup {"DependencyMissing"} =>
      LET problem == chan[ops[k].chan]
      IN  /\ problem \in Problems
          /\ ops[k].out \in {ClosedAs(problem), "DependencyMissing"}
          /\ ops[k].out = "DependencyMissing" =>
               ops[k].kind = "metrics" /\ problem = "not-supported"

\* A reply the bridge wrote stays in front of the call that waits for it, until it
\* is read or the framing breaks: neither the bridge's exit nor the end of the
\* reader thread takes it away.
AnswerKept ==
  \A k \in replied :
    (ops[k].kind = "call" /\ ops[k].out = "pending" /\ reader # "broken") =>
      \E f \in InFlight : f.kind = "reply" /\ f.id = k

\* The documented meaning of the timeout error, "The bridge did not respond before
\* the deadline." (docs/agent-guide/json-envelope.md): an operation whose refusal has
\* reached the client does not time out.
TimeoutMeansNoResponse ==
  [][\A k \in Ids :
       (ops[k].out = "pending" /\ ops'[k].out = "Timeout")
         => ~(k \in replied /\ ran[k] = "Dbus" /\ pipe = <<>>)]_vars

\* Whatever the bridge does or omits, an operation ends: with its answer, an error,
\* a silence of 30 s, or the end of the reader thread.  The bounds make the bridge
\* write finitely many frames: every frame, even one that is skipped, starts the 30 s
\* anew, so a bridge that never falls silent can hold an operation for ever.
OperationEnds == cur # 0 ~> cur = 0

\* The calls of this module are the calls of BridgeCall.
DbusOps == {k \in Ids : k # Handshake}

Told(k) ==
  IF ops[k].kind \notin DbusKinds THEN "unsent"
  ELSE IF ops[k].out \in {"ok", "Dbus", "pending"} THEN ops[k].out
  ELSE IF ops[k].out = "Killed" THEN "killed"
  ELSE "failed"

Abstract == INSTANCE BridgeCall WITH
  Calls <- DbusOps,
  ran <- [k \in DbusOps |-> IF ops[k].kind \in DbusKinds THEN ran[k] ELSE "no"],
  answer <- [k \in DbusOps |-> Told(k)]

ImplementsBridgeCall == Abstract!Spec
=============================================================================
