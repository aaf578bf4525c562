------------------------------- MODULE Listen -------------------------------
(***************************************************************************)
(* The Listen command of bin/deshred.rs: the threads of Pipeline.tla with  *)
(* the core of Deshredder.tla inside the worker, the counters of stats.rs, *)
(* which main reads while the worker updates them, and ctrl-C.             *)
(*                                                                         *)
(* The sink prints and never blocks, so that Pipeline's sink is what was   *)
(* printed.  Counter updates and loads are Relaxed: the updates of a push  *)
(* become visible one at a time, in any order.                             *)
(***************************************************************************)
EXTENDS Deshredder, Decoding, Sequences

CONSTANTS
  N, KernelRoom, BATCH, ChannelCapacity, MaxOut,   \* as in Pipeline
  Fields        \* the counters followed, in the order snapshot loads them

ListenCounter == Counter \cup {"block_markers", "decode_errors", "entries"}

ASSUME ListenAssumption ==
  /\ N \in Nat /\ KernelRoom \in Nat /\ MaxOut \in Nat
  /\ BATCH \in Nat \ {0} /\ ChannelCapacity \in Nat \ {0}
  /\ Fields \in Seq(ListenCounter)
  /\ \A c \in {"packets", "duplicates"} : \E i \in 1 .. Len(Fields) : Fields[i] = c

VARIABLES
  arrived, wire, receiver, batch, channel, dropped, worker, hand, queue, sink,
  sink_open, own_consumer, stop, caller, pushed, produced, pulled, taken, late,
  content,      \* history: the datagrams that arrived, by number
  stats,        \* the counters as other threads see them
  adding,       \* <<counter, n>>: updates of the last push not yet visible
  main,         \* where the main thread is
  snap,         \* the snapshot under way: the values loaded so far
  began         \* history: pushes when that snapshot began

P ==
  INSTANCE Pipeline WITH
    SinkCapacity <- N * MaxOut + 1,
    MayPanic <- TRUE, out <- queue

pipelineVars ==
  <<arrived, wire, receiver, batch, channel, dropped, worker, hand, queue, sink,
    sink_open, own_consumer, stop, caller, pushed, produced, pulled, taken, late>>
mainVars == <<main, snap, began>>
listenVars == <<vars, pipelineVars, content, stats, adding, mainVars>>

ListenInit ==
  /\ Init
  /\ P!Init /\ own_consumer = TRUE
  /\ content = <<>>
  /\ stats = [c \in ListenCounter |-> 0] /\ adding = {}
  /\ main = "spawn" /\ snap = <<>> /\ began = 0

-----------------------------------------------------------------------------
(* The pipeline's threads. *)

Datagrams ==
  /\ P!Arrive
  /\ \E p \in Packet : content' = Append(content, p)
  /\ UNCHANGED <<vars, stats, adding, mainVars>>

Receive ==
  /\ P!ReceiverStep
  /\ UNCHANGED <<vars, content, stats, adding, mainVars>>

(* Mutant: a duplicate is not counted as a packet.                          *)
RawUpdatesKept(counts) ==
  {<<c, counts[c]>> : c \in {x \in Counter : x = "packets" => counts["duplicates"] = 0}}

(* What one push adds to the counters: push_raw, then the closure that      *)
(* decodes the runs, where a batch counts as one entry.                     *)
RawUpdates(counts) == {<<c, counts[c]>> : c \in Counter}

(* Mutant: a run that does not end up in a batch is not counted.            *)
DecodeUpdatesBatchesOnly(raws) == {<<"entries", Cardinality(Decoded(raws, "entries"))>>}

DecodeUpdates(raws) ==
  {<<c, Cardinality(Decoded(raws, c))>> : c \in ListenCounter \ Counter}

Updates(counts, raws) ==
  {u \in RawUpdates(counts) \cup DecodeUpdates(raws) : u[2] > 0}

(* Deshredder::push in the worker thread.                                   *)
WorkerPush ==
  /\ worker = "push"
  /\ Push(content[hand[1]])
  /\ IF panicked' THEN P!Panic
     ELSE P!Push /\ Len(queue') = Cardinality(Decoded(out', "entries"))
  /\ adding' = Updates(tally', out')
  /\ UNCHANGED <<content, stats, mainVars>>

(* Counter::inc, Counter::add *)
UpdateCounter ==
  /\ \E u \in adding :
       /\ stats' = [stats EXCEPT ![u[1]] = @ + u[2]]
       /\ adding' = adding \ {u}
  /\ UNCHANGED <<vars, pipelineVars, content, mainVars>>

(* Between pushes: the loop over the channel and the printing of batches.   *)
WorkerLoop ==
  /\ P!Take \/ P!Finish \/ P!OnBatch \/ P!BatchesSunk
  /\ adding = {}
  /\ UNCHANGED <<vars, content, stats, adding, mainVars>>

Work == WorkerPush \/ UpdateCounter \/ WorkerLoop

-----------------------------------------------------------------------------
(* main *)

(* When spawning fails main returns the error and the process ends.         *)
Spawn ==
  /\ main = "spawn" /\ P!SpawnWorker
  /\ main' = "loop"
  /\ UNCHANGED <<vars, content, stats, adding, snap, began>>

(* while !stop: sleep, and print_stats when it is time; once ctrl-C has set *)
(* the flag, print_stats and leave.  Which of the two a line was shows when *)
(* it has been printed.                                                     *)
StartStats ==
  /\ main = "loop"
  /\ main' = "stats"
  /\ snap' = <<>> /\ began' = Len(pushed)
  /\ UNCHANGED <<vars, pipelineVars, content, stats, adding>>

(* Stats::snapshot: one load after the other.                               *)
Load ==
  /\ main = "stats" /\ Len(snap) < Len(Fields)
  /\ snap' = Append(snap, stats[Fields[Len(snap) + 1]])
  /\ UNCHANGED <<vars, pipelineVars, content, stats, adding, main, began>>

PrintStats ==
  /\ main = "stats" /\ Len(snap) = Len(Fields)
  /\ main' \in {"loop", "shutdown"}
  /\ snap' = <<>> /\ began' = 0
  /\ UNCHANGED <<vars, pipelineVars, content, stats, adding>>

Exit ==
  /\ main = "shutdown"
  /\ P!Shutdown \/ P!Join
  /\ UNCHANGED <<vars, content, stats, adding, mainVars>>

MainStep == Spawn \/ StartStats \/ Load \/ PrintStats \/ Exit

ListenNext == Datagrams \/ Receive \/ Work \/ MainStep

ListenSpec == ListenInit /\ [][ListenNext]_listenVars

-----------------------------------------------------------------------------
(* Properties *)

(* The shreds with a sound proof of a set of datagrams, as RunDelivery      *)
(* names them.                                                              *)
Heard(ds) ==
  {<<sh.kind, sh.fec, sh.pos>> :
     sh \in ShredsOf({content[d] : d \in {x \in ds : Accepted(content[x])}})}

(* The shreds the core accepts, and the data indexes at which the block     *)
(* they belong to carries DATA_COMPLETE.                                    *)
Sound == ShredsOf({p \in Packet : Accepted(p)})
Ends == EndsOf(Sound)

Block ==
  INSTANCE RunDelivery WITH
    heard <- Heard({}), delivered <- {}

(* The datagrams the core accepts are shreds of one block, in slot s, which *)
(* is not within slot_lookback of the top of u64.                           *)
OneBlock(s) ==
  /\ s \in Nat /\ s + L < W
  /\ \A p \in Packet : Accepted(p) => p.slot = s
  /\ Consistent(Sound)

Exited == caller = "returned" /\ worker = "done"

Pushed == {pushed[i] : i \in 1 .. Len(pushed)}

(* When the command ends, the runs assembled are those that can be built    *)
(* from the datagrams pushed, whatever the full channel cost in between;    *)
(* and when nothing was dropped, from everything that was sent.             *)
BuildsWhatArrived ==
  Exited =>
    LET built == {<<r[2], r[3]>> : r \in AllHanded}
    IN  /\ built = Block!Deliverable(Heard(Pushed))
        /\ dropped = 0 /\ taken = arrived => built = Block!Deliverable(Heard(1 .. arrived))

(* Once the counters show it, every run the core has handed out was queued  *)
(* for printing, counted as a marker or counted as one that does not        *)
(* decode, and at the end all that were queued have been printed.           *)
RunsAccounted ==
  /\ adding = {} =>
       Cardinality(AllHanded) =
         Len(produced) + stats["block_markers"] + stats["decode_errors"]
  /\ Exited => sink = produced

(* A snapshot may count duplicates whose packets it does not count yet, by  *)
(* the push that was under way when it began and by pushes that began since *)
(* (the packet of a first copy is always counted); and no datagram is both  *)
(* a packet and dropped.                                                    *)
SnapshotSkew ==
  Len(snap) = Len(Fields) =>
    LET At(c) == snap[CHOOSE i \in 1 .. Len(Fields) : Fields[i] = c]
    IN  /\ At("duplicates") <= At("packets") + (Len(pushed) - began)
        /\ At("packets") + dropped <= taken

=============================================================================
