------------------------------ MODULE Pipeline ------------------------------
(***************************************************************************)
(* pipeline.rs and the receive side of socket.rs: the receiver thread, the *)
(* bounded channel, the worker thread with its sink, and the thread that   *)
(* calls Pipeline::shutdown.                                               *)
(*                                                                         *)
(* Datagrams are numbered in the order of arrival.  What Deshredder::push  *)
(* does with one (Deshredder.tla) is reduced to the number of batches it   *)
(* appends to `out`, which is arbitrary, and to whether it panics.  The    *)
(* sink is a ChannelSink: send blocks while the sink's channel is full.    *)
(* The state starts when spawn has bound the socket and started the        *)
(* receiver thread; starting the worker thread can still fail.             *)
(***************************************************************************)
EXTENDS Integers, Sequences

CONSTANTS
  N,              \* bound: datagrams that arrive
  KernelRoom,     \* datagrams the socket buffer holds
  BATCH,          \* datagrams drained per recv_batch
  ChannelCapacity, \* PipelineConfig::channel_capacity
  SinkCapacity,   \* capacity of the ChannelSink
  MaxOut,         \* bound: batches one push completes
  MayPanic        \* whether push, the tap or the sink may panic

ASSUME PipelineAssumption ==
  /\ N \in Nat /\ KernelRoom \in Nat /\ MaxOut \in Nat
  /\ BATCH \in Nat \ {0} /\ ChannelCapacity \in Nat \ {0} /\ SinkCapacity \in Nat \ {0}
  /\ MayPanic \in BOOLEAN

VARIABLES
  arrived,        \* datagrams sent to the port so far
  wire,           \* the socket buffer
  receiver,       \* where the receiver thread is
  batch,          \* its batch, what is left of it
  channel,        \* the channel to the worker
  dropped,        \* Stats::dropped
  worker,         \* where the worker thread is
  hand,           \* the datagram it has taken, <<>> or <<d>>
  out,            \* its vector of completed batches
  sink,           \* the ChannelSink's channel
  sink_open,      \* its receiver has not been dropped
  own_consumer,   \* its receiver has a thread of its own; otherwise the
                  \* thread that calls shutdown pulls from it
  stop,           \* the stop flag
  caller,         \* where the thread that owns the Pipeline is
  pushed,         \* history: datagrams pushed into the deshredder
  produced,       \* history: batches push completed
  pulled,         \* history: batches the consumer took
  taken,          \* history: datagrams recv_batch returned
  late            \* history: those returned after stop was set

netVars == <<arrived, wire>>
receiverVars == <<receiver, batch, dropped, taken, late>>
workerVars == <<worker, hand, out, pushed, produced>>
sinkVars == <<sink, sink_open, own_consumer, pulled>>
callerVars == <<stop, caller>>
vars == <<netVars, receiverVars, channel, workerVars, sinkVars, callerVars>>

Init ==
  /\ arrived = 0 /\ wire = <<>>
  /\ receiver = "check" /\ batch = <<>> /\ dropped = 0 /\ taken = 0 /\ late = 0
  /\ channel = <<>>
  /\ worker = "unborn" /\ hand = <<>> /\ out = <<>> /\ pushed = <<>> /\ produced = <<>>
  /\ sink = <<>> /\ sink_open = TRUE /\ own_consumer \in BOOLEAN /\ pulled = <<>>
  /\ stop = FALSE /\ caller = "spawning"

(* A bounded channel holds at most its capacity.                            *)
HasRoom(queue, capacity) == Len(queue) < capacity

(* The worker's end of the channel exists: before the worker starts, spawn  *)
(* holds it.                                                                *)
Connected == worker \notin {"panicked", "never"}

-----------------------------------------------------------------------------
(* The rest of Pipeline::spawn_with_tap.                                    *)

SpawnWorker ==
  /\ caller = "spawning"
  /\ worker' = "take"
  /\ caller' = "running"
  /\ UNCHANGED <<netVars, receiverVars, channel, hand, out, pushed, produced,
                 sinkVars, stop>>

(* The error returns to the caller: the closure with `rx` and the handle of *)
(* the receiver thread are dropped, which ends neither that thread nor sets *)
(* the stop flag.                                                           *)
SpawnFails ==
  /\ caller = "spawning"
  /\ worker' = "never"
  /\ caller' = "failed"
  /\ channel' = <<>>
  /\ UNCHANGED <<netVars, receiverVars, hand, out, pushed, produced, sinkVars, stop>>

-----------------------------------------------------------------------------
(* The network and the kernel: a datagram that finds no room is lost.       *)

Arrive ==
  /\ arrived < N
  /\ arrived' = arrived + 1
  /\ wire' = IF HasRoom(wire, KernelRoom) THEN Append(wire, arrived') ELSE wire
  /\ UNCHANGED <<receiverVars, channel, workerVars, sinkVars, callerVars>>

-----------------------------------------------------------------------------
(* The receiver thread: receive_loop.  `tx` is dropped when it returns.     *)

(* Mutant: a stopped receiver first empties the socket buffer.              *)
CheckStopDrainsSocket ==
  /\ receiver = "check"
  /\ receiver' = IF stop /\ wire = <<>> THEN "done" ELSE "recv"
  /\ UNCHANGED <<netVars, batch, dropped, taken, late, channel, workerVars,
                 sinkVars, callerVars>>

CheckStop ==
  /\ receiver = "check"
  /\ receiver' = IF stop THEN "done" ELSE "recv"
  /\ UNCHANGED <<netVars, batch, dropped, taken, late, channel, workerVars,
                 sinkVars, callerVars>>

RecvBatch ==
  /\ receiver = "recv"
  /\ \E n \in 1 .. BATCH :
       /\ n <= Len(wire)
       /\ batch' = SubSeq(wire, 1, n)
       /\ wire' = SubSeq(wire, n + 1, Len(wire))
       /\ taken' = taken + n
       /\ late' = IF stop THEN late + n ELSE late
  /\ receiver' = "send"
  /\ UNCHANGED <<arrived, dropped, channel, workerVars, sinkVars, callerVars>>

(* Mutant: the socket has no read timeout and a quiet port blocks.          *)
RecvNothingNoTimeout ==
  /\ receiver = "recv" /\ wire # <<>>
  /\ receiver' = "check"
  /\ UNCHANGED <<netVars, batch, dropped, taken, late, channel, workerVars,
                 sinkVars, callerVars>>

(* The read timeout of a quiet port, and any other error: nothing received. *)
RecvNothing ==
  /\ receiver = "recv"
  /\ receiver' = "check"
  /\ UNCHANGED <<netVars, batch, dropped, taken, late, channel, workerVars,
                 sinkVars, callerVars>>

(* Mutant: the channel is unbounded.                                        *)
SentUnbounded ==
  /\ receiver = "send" /\ batch # <<>>
  /\ Connected
  /\ channel' = Append(channel, Head(batch))
  /\ batch' = Tail(batch)
  /\ UNCHANGED <<netVars, receiver, dropped, taken, late, workerVars, sinkVars,
                 callerVars>>

(* One turn of the loop over the batch: the three results of try_send.      *)
Sent ==
  /\ receiver = "send" /\ batch # <<>>
  /\ Connected /\ HasRoom(channel, ChannelCapacity)
  /\ channel' = Append(channel, Head(batch))
  /\ batch' = Tail(batch)
  /\ UNCHANGED <<netVars, receiver, dropped, taken, late, workerVars, sinkVars,
                 callerVars>>

(* Mutant: the datagram is lost without being counted.                      *)
FullUncounted ==
  /\ receiver = "send" /\ batch # <<>>
  /\ Connected /\ ~HasRoom(channel, ChannelCapacity)
  /\ batch' = Tail(batch)
  /\ UNCHANGED <<netVars, receiver, dropped, taken, late, channel, workerVars,
                 sinkVars, callerVars>>

(* Mutant: the datagram is tried again after the others of its batch.       *)
FullRequeues ==
  /\ receiver = "send" /\ batch # <<>>
  /\ Connected /\ ~HasRoom(channel, ChannelCapacity)
  /\ batch' = Append(Tail(batch), Head(batch))
  /\ UNCHANGED <<netVars, receiver, dropped, taken, late, channel, workerVars,
                 sinkVars, callerVars>>

Full ==
  /\ receiver = "send" /\ batch # <<>>
  /\ Connected /\ ~HasRoom(channel, ChannelCapacity)
  /\ dropped' = dropped + 1
  /\ batch' = Tail(batch)
  /\ UNCHANGED <<netVars, receiver, taken, late, channel, workerVars, sinkVars,
                 callerVars>>

(* Mutant: a closed channel counts as a full one.                           *)
DisconnectedCounts ==
  /\ receiver = "send" /\ batch # <<>>
  /\ ~Connected
  /\ dropped' = dropped + 1
  /\ batch' = Tail(batch)
  /\ UNCHANGED <<netVars, receiver, taken, late, channel, workerVars, sinkVars,
                 callerVars>>

Disconnected ==
  /\ receiver = "send" /\ batch # <<>>
  /\ ~Connected
  /\ batch' = <<>>
  /\ receiver' = "done"
  /\ UNCHANGED <<netVars, dropped, taken, late, channel, workerVars, sinkVars,
                 callerVars>>

BatchSent ==
  /\ receiver = "send" /\ batch = <<>>
  /\ receiver' = "check"
  /\ UNCHANGED <<netVars, batch, dropped, taken, late, channel, workerVars,
                 sinkVars, callerVars>>

ReceiverStep ==
  \/ CheckStop
  \/ RecvBatch \/ RecvNothing
  \/ Sent \/ Full \/ Disconnected
  \/ BatchSent

-----------------------------------------------------------------------------
(* The worker thread: for packet in rx.                                     *)

Take ==
  /\ worker = "take" /\ channel # <<>>
  /\ hand' = <<Head(channel)>>
  /\ channel' = Tail(channel)
  /\ worker' = "push"
  /\ UNCHANGED <<netVars, receiverVars, out, pushed, produced, sinkVars, callerVars>>

(* Mutant: the worker ends with the receiver and leaves the channel as is.  *)
FinishAtOnce ==
  /\ worker = "take" /\ receiver = "done"
  /\ worker' = "done"
  /\ UNCHANGED <<netVars, receiverVars, channel, hand, out, pushed, produced,
                 sinkVars, callerVars>>

(* The channel is empty and its sender is gone: the loop ends.              *)
Finish ==
  /\ worker = "take" /\ channel = <<>> /\ receiver = "done"
  /\ worker' = "done"
  /\ UNCHANGED <<netVars, receiverVars, channel, hand, out, pushed, produced,
                 sinkVars, callerVars>>

(* Deshredder::push                                                         *)
Push ==
  /\ worker = "push"
  /\ \E n \in 0 .. MaxOut :
       /\ out' = [j \in 1 .. n |-> <<hand[1], j>>]
       /\ produced' = produced \o out'
  /\ pushed' = pushed \o hand
  /\ hand' = <<>>
  /\ worker' = "sink"
  /\ UNCHANGED <<netVars, receiverVars, channel, sinkVars, callerVars>>

(* Mutant: a batch that finds the sink's channel full is thrown away.       *)
OnBatchTries ==
  /\ worker = "sink" /\ out # <<>>
  /\ sink' = IF sink_open /\ HasRoom(sink, SinkCapacity)
             THEN Append(sink, Head(out)) ELSE sink
  /\ out' = Tail(out)
  /\ UNCHANGED <<netVars, receiverVars, channel, worker, hand, pushed, produced,
                 sink_open, own_consumer, pulled, callerVars>>

(* ChannelSink::on_batch; the error of a closed channel is ignored.         *)
OnBatch ==
  /\ worker = "sink" /\ out # <<>>
  /\ sink_open => HasRoom(sink, SinkCapacity)
  /\ sink' = IF sink_open THEN Append(sink, Head(out)) ELSE sink
  /\ out' = Tail(out)
  /\ UNCHANGED <<netVars, receiverVars, channel, worker, hand, pushed, produced,
                 sink_open, own_consumer, pulled, callerVars>>

BatchesSunk ==
  /\ worker = "sink" /\ out = <<>>
  /\ worker' = "take"
  /\ UNCHANGED <<netVars, receiverVars, channel, hand, out, pushed, produced,
                 sinkVars, callerVars>>

(* Unwinding drops `rx`, which discards the channel's contents.             *)
Panic ==
  /\ MayPanic
  /\ worker \in {"push", "sink"}
  /\ worker' = "panicked"
  /\ hand' = <<>> /\ out' = <<>> /\ channel' = <<>>
  /\ UNCHANGED <<netVars, receiverVars, pushed, produced, sinkVars, callerVars>>

WorkerStep == Take \/ Finish \/ Push \/ OnBatch \/ BatchesSunk

-----------------------------------------------------------------------------
(* The consumer of the ChannelSink.                                         *)

ConsumerAwake == own_consumer \/ caller \notin {"join_receiver", "join_worker"}

Pull ==
  /\ ConsumerAwake
  /\ sink_open /\ sink # <<>>
  /\ pulled' = Append(pulled, Head(sink))
  /\ sink' = Tail(sink)
  /\ UNCHANGED <<netVars, receiverVars, channel, workerVars, sink_open, own_consumer, callerVars>>

HangUp ==
  /\ ConsumerAwake
  /\ sink_open
  /\ sink_open' = FALSE
  /\ sink' = <<>>
  /\ UNCHANGED <<netVars, receiverVars, channel, workerVars, own_consumer, pulled, callerVars>>

-----------------------------------------------------------------------------
(* Pipeline::shutdown; the result of join is ignored.                       *)

Shutdown ==
  /\ caller = "running"
  /\ stop' = TRUE
  /\ caller' = "join_receiver"
  /\ UNCHANGED <<netVars, receiverVars, channel, workerVars, sinkVars>>

JoinReceiver ==
  /\ caller = "join_receiver" /\ receiver = "done"
  /\ caller' = "join_worker"
  /\ UNCHANGED <<netVars, receiverVars, channel, workerVars, sinkVars, stop>>

JoinWorker ==
  /\ caller = "join_worker" /\ worker \in {"done", "panicked"}
  /\ caller' = "returned"
  /\ UNCHANGED <<netVars, receiverVars, channel, workerVars, sinkVars, stop>>

Join == JoinReceiver \/ JoinWorker

Next ==
  \/ SpawnWorker \/ SpawnFails
  \/ Arrive
  \/ ReceiverStep
  \/ WorkerStep \/ Panic
  \/ Pull \/ HangUp
  \/ Shutdown \/ Join

(* Threads are scheduled, a consumer that is awake keeps pulling and spawn  *)
(* ends one way or the other.  Receiving from a socket that has a datagram  *)
(* may fail at times, not for ever.  No datagram need arrive, push need not *)
(* panic, the caller need not call shutdown and the consumer need not hang  *)
(* up.                                                                      *)
Fairness ==
  /\ WF_vars(SpawnWorker \/ SpawnFails)
  /\ WF_vars(ReceiverStep)
  /\ SF_vars(RecvBatch)
  /\ WF_vars(WorkerStep)
  /\ WF_vars(Pull)
  /\ WF_vars(Join)

Spec == Init /\ [][Next]_vars /\ Fairness

-----------------------------------------------------------------------------
(* Properties *)

(* The threads' state keeps its type and no queue exceeds its bound.        *)
TypeOK ==
  /\ arrived \in 0 .. N
  /\ wire \in Seq(1 .. N) /\ Len(wire) <= KernelRoom
  /\ receiver \in {"check", "recv", "send", "done"}
  /\ batch \in Seq(1 .. N) /\ Len(batch) <= BATCH
  /\ channel \in Seq(1 .. N) /\ Len(channel) <= ChannelCapacity
  /\ dropped \in Nat /\ taken \in Nat /\ late \in Nat
  /\ worker \in {"unborn", "never", "take", "push", "sink", "done", "panicked"}
  /\ hand \in Seq(1 .. N) /\ Len(hand) = (IF worker = "push" THEN 1 ELSE 0)
  /\ out \in Seq((1 .. N) \X (1 .. MaxOut))
  /\ sink \in Seq((1 .. N) \X (1 .. MaxOut)) /\ Len(sink) <= SinkCapacity
  /\ sink_open \in BOOLEAN /\ own_consumer \in BOOLEAN /\ stop \in BOOLEAN
  /\ caller \in {"spawning", "failed", "running", "join_receiver", "join_worker", "returned"}

(* Datagrams are pushed in the order the kernel queued them, none twice,    *)
(* also when some are dropped on a full channel in between.                 *)
InOrder ==
  LET flow == pushed \o hand \o channel \o batch \o wire
  IN  \A i, j \in 1 .. Len(flow) : i < j => flow[i] < flow[j]

(* While the channel is connected, each datagram taken off the socket has   *)
(* been pushed, waits to be pushed or was counted in Stats::dropped; when   *)
(* shutdown returns, none waits any more.                                   *)
Accounted ==
  Connected =>
    /\ taken = Len(pushed) + Len(hand) + Len(channel) + Len(batch) + dropped
    /\ caller = "returned" => taken = Len(pushed) + dropped

(* A consumer that stays gets each batch once, in the order of completion,  *)
(* and has been handed all of them when shutdown returns.                   *)
SinkGetsEveryBatch ==
  sink_open /\ worker # "panicked" =>
    /\ pulled \o sink \o out = produced
    /\ caller = "returned" => pulled \o sink = produced

(* shutdown stops receiving: at most the batch of one recv_batch call that  *)
(* was already under way comes in after it.                                 *)
StopsReceiving == late <= BATCH

(* The worker waits for the caller, who holds the receiver of a full sink   *)
(* and waits for the worker.                                                *)
Embraced ==
  /\ ~own_consumer /\ caller \in {"join_receiver", "join_worker"}
  /\ worker = "sink" /\ out # <<>>
  /\ sink_open /\ ~HasRoom(sink, SinkCapacity)

(* shutdown returns, whatever arrives meanwhile and also after a panic of   *)
(* the worker, unless the thread that calls it is also the consumer and     *)
(* the sink fills up; nothing else keeps it waiting.                        *)
ShutdownReturns == stop ~> caller = "returned" \/ Embraced

(* A receiver thread nobody will ever stop, since spawn failed or since the *)
(* worker panicked, ends with the next datagram that reaches the socket.    *)
OrphanEnds == ~Connected /\ wire # <<>> ~> receiver = "done"

(* A datagram in the channel is pushed sooner or later while the channel is *)
(* connected, also during shutdown and when the consumer hangs up.          *)
BufferedIsPushed ==
  \A d \in 1 .. N :
    (\E i \in 1 .. Len(channel) : channel[i] = d)
      ~> (~Connected \/ Embraced \/ \E i \in 1 .. Len(pushed) : pushed[i] = d)

=============================================================================
