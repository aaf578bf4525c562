# TLA+ models of deshred

`deshred` receives Solana shreds on a UDP port and turns them into entry
batches. This directory holds TLA+ models of its core, the TLC runs that check
them on small instances, and TLAPS proofs of the properties that matter most
for every value of the constants. `PROJECT.json` is the index: components,
runs, mutants, the map from definitions to source lines, findings, hazards and
theorems.

## 1. The system

    datagram -> Shred -> FecSet -> SlotState -> Deshredder -> Pipeline -> EntrySink
                shred.rs  fec.rs    slot.rs      deshredder.rs  pipeline.rs

| Component | State | Operations | What makes it correct |
|---|---|---|---|
| shred (`shred.rs`) | none | `parse`, accessors | accepts only shreds the rest of the code can index with |
| fec (`fec.rs`) | 32 + 32 optional shreds, two counters, pinned root and signature | `insert`, `recover`, `drop_code` | the counters count; all shreds agree with the pin; recovery happens as soon as it can |
| slot (`slot.rs`) | map of FEC sets, bit sets received / complete / consumed | `insert` (recovery, marking, completing runs, freeing sets) | each complete run is pushed exactly once, independent of the order of arrival; no read of a freed set |
| deshredder (`deshredder.rs`) | map of slots, `highest_slot` | `push_raw`, `push` | emission stays exactly-once over eviction; memory is bounded; eviction never costs a slot near the window |
| pipeline (`pipeline.rs`) | stop flag, channel, two threads, sink | `spawn`, `receive_loop`, worker loop, `shutdown`, `ChannelSink` | order, accounting, draining, termination |
| socket (`socket.rs`) | kernel queue | `recv_batch` | bounded batches, wakes up on a quiet port |
| stats (`stats.rs`) | atomic counters | `inc`, `add`, `snapshot` | every outcome of a push counted once; a snapshot is off by no more than the pushes it overlaps |
| merkle (`merkle.rs`) | a tree while it is built | `Tree::new`, `proof`, `root_from_proof` | a proof binds a leaf to its position |
| fixture (`fixture.rs`) | a file behind a `BufWriter` | `write`, `flush`, reader, `replay` | a replay returns the recorded packets, whole and in order, wherever the file ends |
| entry (`entry.rs`) | none | `encode`, `decode` | a marker, a batch and garbage are told apart |
| view (`view.rs`) | a cursor, two lazy iterators | `entries`, `EntryIter::next`, `TxIter::next`, `signature` | finds the boundaries the encoder wrote, without decoding; the two passes over an entry agree; ends at the first error |
| bin/deshred | main loop, counters read while they change | `listen`, `record`, `replay` | at the end everything that got through has been built, counted and printed |
| bin/analyze-recovery | a state per FEC set, batch times of two policies | the loop over the records, `batch_times`, `percentile` | its own notion of "recoverable" is that of the deshredder; its two measurements agree |
| examples, benches, tests | | users of the library | |

A slot is fed by one thread (`SlotState` and `Deshredder` are sequential);
what is hard there is the *order* of the shreds: loss, repetition, recovery,
conflicting shreds and eviction in between. Concurrency lives in the pipeline:
receiver thread, worker thread, consumer of the sink, the thread that calls
`shutdown`, and in the `Listen` command a main thread that reads the counters
meanwhile. The only thing that outlives the process is a recorded
capture, which may end anywhere when the process dies.

## 2. Modules

| Module | Models | Remarks |
|---|---|---|
| `Shred` | `shred.rs` | a datagram is a record of header fields; `WellFormed` is the success of `Shred::parse`, `Parse` its result |
| `Fec` | `fec.rs` | operators on a `FecSet` value; `Recover` includes the partial effect of a failed recovery |
| `Slot` | `slot.rs` | operators on a `SlotState` value; runs are completed in closed form |
| `Input` | the datagrams a slot or the deshredder is given, `Config::recover` | `Consistent` says when shreds are those of one block as a leader shreds it, `EndsOf` where its runs end |
| `SlotAssembly` | one `SlotState` under any sequence of `insert` | the state machine TLC explores and the proofs are about |
| `SlotLoop` | the loops of `find_segment`, `try_complete`, `insert` as written | justifies the closed form of `Slot`; recursive, so for TLC only |
| `RunDelivery` | nothing in the code: the abstract specification | runs delivered are a function of the set of shreds heard |
| `Deshredder` | `deshredder.rs` | `push_raw`, one action per way through it |
| `Decoding` | `entry::decode` as `Deshredder::push` uses it | a run is a batch, a block marker or undecodable, which its first leaf decides; used by `Listen` and `Analysis` |
| `Merkle` | `merkle.rs` | building, proving and walking a proof, one step per turn of the loops; hashes are terms |
| `Fixture` | `fixture.rs` and the recording tap of `bin/deshred.rs` | recording, then replaying; the file is a sequence of cells with values, so that a reader can lose its place |
| `Pipeline` | `pipeline.rs`, `recv_batch` | one action per atomic step of each thread, from the moment `spawn` has started the receiver thread; starting the worker can fail |
| `Listen` | the `Listen` command of `bin/deshred.rs`, `Deshredder::push`, `stats.rs` | composes `Pipeline` (an instance) and `Deshredder` (extended): the worker's push is the deshredder's, main loads the counters one by one; the result is compared with `RunDelivery` |
| `Entry` | `entry.rs` | layout of a batch in cells, `Encode`, `Decode` |
| `View` | `view.rs` | `Cursor` as operators, the two iterators as actions of a consumer that may skip the rest of an entry |
| `Analysis` | `bin/analyze-recovery.rs` | two instances of `Deshredder`, with and without recovery, in step with the state the program keeps per FEC set; as `batch_times` calls `push`, only runs that decode get a time |
| `SlotLemmas`, `SlotProofs`, `DeshredderProofs`, `PipelineProofs`, `ListenProofs`, `FixtureProofs`, `MerkleProofs`, `AnalysisProofs` | | proofs (section 4) |
| `Packets`, `MC*` | | instances for TLC |

How state corresponds: `FecSet`, `SlotState` and `Deshredder` keep the names of
their fields. Bit sets are sets of indexes, the `HashMap` of FEC sets is a
function with `None` for an absent entry, the `BTreeMap` of slots is a function
on its keys. The insert results and the counters share names: `Verdict`
is `"new"` or the counter the shred ends in. `out` holds what the last call
pushed, `delivered` / `emitted` what earlier calls pushed (history). In
`Deshredder`, `tally` is what the last push added to the counters.

### Abstractions and the assumptions behind them

* **Payload and hashes.** A Merkle root commits to its leaves. The model takes
  this literally: constants say for each root and data index whether the leaf
  carries `DATA_COMPLETE` and `LAST_SHRED_IN_SLOT` (`CompleteLeaf`, `LastLeaf`)
  and whether its rebuilt bytes fail `Shred::parse` or the header comparison
  (`Malformed`). *Received* shreds carry their own flags in the datagram and
  need not agree with these constants; only reconstruction uses them.
* **Reed-Solomon** (external crate) returns the leaves under the pinned root
  and fails exactly when the stored shards differ in length. The lengths are
  computed from the wire sizes, so the resigned variant really has another.
* **Merkle proof.** `root_from_proof` fails exactly when the proof is too short
  for the leaf's index: `ErasureShardIndex < 2^proof_size` (`NoneIsTooShort`,
  proved in `MerkleProofs`). In `Merkle` distinct terms are distinct hashes.
* **Widths.** Slot numbers are u64; `Deshredder` adds modulo `W`, as a release
  build does. `4 * slot_lookback` is a product of usize in the code and unbounded in
  the model; it would wrap only for `slot_lookback >= 2^62`. Everything else stays
  far from its width (indexes below 32768).
* **Decoding.** In `Decoding` what a run decodes to depends on the leaf it begins
  with: constants say which leaves begin a block marker (`MarkerLeaf`) and which
  bytes that do not decode (`BadLeaf`). The bytes are in `Entry`.
* **Capacity.** `Pipeline` assumes channels of capacity at least one.
* **Bytes of a batch.** In `Entry` and `View` a segment is a sequence of cells: a
  byte is a cell, a u64, the u32 config mask and a u16 length are one cell, and
  hashes, keys, signatures and headers are as long as `Width` says. A compact-u16
  is modelled by what it does, byte by byte, in one to three bytes; the weight of its
  continuation bit, 128 in the code, is the constant `TopBit`, so that lengths of three
  bytes fit into a small instance. wincode (external) reads back what
  it wrote. The modulus of `signatures_offset` is the constant `U16`. Bytes that were
  overwritten are scanned but not compared with `decode`: that would need a model of
  what wincode accepts.
* **Relaxed counters.** In `Listen` the updates of one push become visible one at a
  time and in any order, and the worker takes the next datagram when all are.
  `entries` and `transactions` are one counter, a decoded batch counts one.
  Whether a statistics line was the last one before ctrl-C is decided when it
  has been printed; the decision is not visible earlier. The recording tap is
  in `Fixture`, not in `Listen`.
* **Time stamps** of a capture increase from record to record (`Analysis`).
* **Debug assertions** and the wording of logs are left out.

`Slot` completes runs in closed form: `ReadyRuns` are the runs that contain an
index `try_complete` is called with and that are complete. `SlotLoop` writes the
loops of the code and the run `slot_fork` compares both in every reachable
state for every next shred: same state, same segments, each once, and no
overflow of the `fresh` array.

## 3. Runs

| Run | Module, cfg | Shows |
|---|---|---|
| `slot_order` | `MCSlot` | three FEC sets of 2 + 2, three runs, one of them across two sets: the assembly refines `RunDelivery` (`OrderIndependent`) for every order, loss and repetition |
| `slot_fork` | `MCFork` | two roots for one set that disagree on run boundaries, a foreign signature, a resigned shred, a refused leaf, a run that never ends: the bookkeeping invariants, and the loops equal the closed form in every state for every next shred |
| `deshredder` | `MCDeshredder` | `slot_lookback` 1, five slots and one at `W - 1`: exactly-once over eviction, memory bound, window |
| `pipeline` | `MCPipeline` | all threads interleaved, all queues at their limit, a worker that cannot be spawned, panics, hang-ups, a caller that is its own consumer: order, accounting, draining; `shutdown` returns unless the caller holds the receiver of a full sink (`Embraced`); a receiver nobody can stop ends with the next datagram (`OrphanEnds`) |
| `merkle` | `MCMerkle` | trees of one to six leaves, every proof walked from every index with every leaf and every prefix: a proof leads its own leaf to the root and binds leaf and position |
| `fixture` | `MCFixture` | three packets, written, refused or failing in any piece, then closed or cut at any cell: the replay returns what was recorded before the first failure and the cut, and ends |
| `view` | `MCView` | batches of all transaction versions, whole, padded, cut anywhere or with one cell overwritten: the scan finds what was written, accepts what `decode` accepts, the second pass over an entry agrees with the first, nothing follows an error, signatures are inside the bytes |
| `listen` | `MCListen` | the deshredder inside the worker, with loss on a full channel, a panic, ctrl-C and snapshots at any moment: what is built at the end is `RunDelivery`'s function of the datagrams that got through; every run handed out was printed or counted as a marker or as undecodable; the skew of a snapshot |
| `analysis` | `MCAnalysis` | every capture of six records of two slots, one of which begins with a block marker: a set is rebuilt on the record the analysis calls its threshold, recovery delivers nothing later, FEC-set classes and batch times tell the same story, `percentile` is the nearest rank |
| `stranded_shreds`, `push_panics`, `record_after_failure` | `MCFork`, `MCDeshredder`, `MCFixture` | violation runs: statements of comments and tests that the code does not meet (section 5) |

Bounds and why they are enough. Two data and two code shreds per set give every
shape of a set: empty, partly filled, recoverable from code alone, from a mix,
complete. Runs that end inside, at the end of, and beyond a set all occur. In
`MCDeshredder` a slot is two sets of one shred, since only emission and
eviction matter there; with `slot_lookback = 1` the map holds at most four
slots and five plus one are fed, so both eviction loops run, and the slot at
`W - 1` makes the addition wrap. In `MCPipeline` a batch of two overflows the
channel of one, two batches per push overflow the sink, three datagrams
overflow the socket buffer. In `MCFixture` packets are empty, short, as long as
the length field allows and longer; a cell is a whole time stamp or length, since
the reader treats a cut inside a header like one at its start. `MCView` has six
transactions, alone and in pairs within one entry or two: all versions, none to
two signatures, instructions and lookups, each kind of config value, and
with `TopBit = 16` lengths of one, two and three bytes at both ends of the two-byte
range; `U16 = 20` is passed by the longer ones, so that the cast shows. `MCListen` has one FEC set with a marker run and an entry run, a
shred for which `push` panics, three datagrams and a channel of one: duplicates,
drops and recovery all occur, and a snapshot overlaps up to three pushes. In
`MCAnalysis` two slots are further apart than `slot_lookback = 1`, so that a batch
that recovery completes early makes the other slot stale for one policy only, and
the first run of one of them is a block marker, which has a class and no time;
`MaxSample = 250` passes both residues where the rounding of `percentile`
changes. The proofs of section 4 remove the bounds for the
invariants of slot, FEC sets, deshredder and pipeline, for the delivery of runs,
for `Listen`, for captures, for Merkle trees and for the recovery analysis.

Deadlock checking is off where the program really may stop: after a panic
(`MCDeshredder`), after `shutdown` has returned or `spawn` has failed
(`MCPipeline`, `MCListen`), after the replay (`MCFixture`), at the end of a segment
(`MCView`) and of a capture (`MCAnalysis`).

**Fairness** (`Pipeline` and `Fixture`; the slot and deshredder specifications
have none). In `Fixture` the steps of the reader are weakly fair: `replay` is a
loop that only stops at the end or at an error. In `Pipeline`, weak fairness
for the end of `spawn`, the steps of the receiver and worker threads and of
`join`: the operating system schedules runnable threads. A receiver that waits
in `recv_batch` has an enabled step because the socket has a read timeout
(`pipeline.rs:111`); the mutant without it violates `ShutdownReturns`. Strong
fairness for `RecvBatch`: a call on a socket that has a datagram may fail at
times, but not for ever. Weak fairness for the consumer of the `ChannelSink`
while it is awake: that is the contract of a blocking sink. A consumer that is
the thread in `shutdown` is not awake, and `ShutdownReturns` names that case. No
fairness for arriving datagrams, panics, hang-ups or the call of `shutdown`.
`Listen` states no fairness: its threads are those of `Pipeline`, where termination
is checked, and its sink never blocks.

Every property of a passing run has a mutant in `PROJECT.json`: a small change
of a mapped definition, defined beside the original, under which TLC finds the
property violated.

## 4. Proofs

Checked by `tlapm`; constants are arbitrary within the named assumptions
(`GeometryAssumption`, `LeafAssumption`, `NoneAssumption`, `PacketAssumption`,
`ConfigAssumption`, `DecodingAssumption`, `PipelineAssumption`, `ListenAssumption`,
`FixtureAssumption`, `MerkleAssumption`, `AnalysisAssumption`). `PowersOfTwo` (`Merkle`) is no restriction: it
states `2 ^ (n + 1) = 2 * 2 ^ n`, which the provers do not know of `^`, and TLC evaluates
it up to the bound. In particular the set of datagrams is
arbitrary: conflicting roots, foreign flags and refused leaves are included,
except in the theorems about what is delivered of a block (`SlotOrderIndependent`,
`ListenBuildsWhatArrived`, and those about the two policies in `AnalysisProofs`), which
say so.

**`SlotLemmas`** is about one `SlotInsert`. `SlotInv` is the inductive invariant of
a slot: types; every stored shred carries the pinned root and signature
(`FecInv`); a received index of a set that is not used up is readable, also
when a run has used it already (`Readable`); the
consumed indexes are made of whole runs (`ConsumedInRuns`) and every run that is
ready has been consumed (`RunsConsumed`); used-up sets are freed
(`UsedUpFreed`). The strengthening is needed because "no shred twice" says
nothing about the next run: one has to know that a consumed index lies in a
run whose boundaries never change again, so a new run is disjoint from all
consumed indexes, and that every ready run is consumed, so that a run that
becomes ready now contains an index `try_complete` is called with.

The counters, by which `can_recover` and `is_complete` decide, have a second
invariant, `SetsSound`: they are the cardinalities of what is stored (`Counted`), a
complete set has dropped its code shreds, also after a recovery that failed half
way, and of each set a reconstruction which its counters permit has been tried
and fails (`Tried`). The last part survives an insert into another set trivially
and one into the same set because each new shred runs `try_recover` again, and it
survives the freeing of sets because a freed set is gone.

Its second half relates a slot state to the set of shreds heard, for shreds of
one block: `Consistent` (`Input`) says that one leader shredded it, so that the
shreds of a set agree on root, signature and layout, received flags are those of the
leaves, and no leaf is refused when it is rebuilt. The coupling is `Coupled`:
until all its data is there a set stores exactly the shreds heard of it (`Holds`),
all of them as the leader sent them (`Genuine`); all its data is there only if all
of it was heard or, with recovery, `K` shreds of the set were (`Full`, `Earned`);
stored data is marked as received. The count of shreds heard and the counters of
the set are related by a bijection (`NamesCount`, `HoldsCount`); from there
`received` determines the ready runs, and these are `RunDelivery`'s `Deliverable`
(`ReadyIsDeliverable`). An insert keeps the coupling (`InsertCoupled`); a refused
shred (duplicate, or of a consumed set) changes neither side (`RefusedTracks`).
`FirstRun` reads `Deliverable` for a run that is one FEC set: with recovery it takes
`K` shreds of the set, without it the `K` data shreds.

**`SlotProofs`** lifts all this to `SlotAssembly`: `SlotTypeOK`, `SlotReadable`,
`SlotNoReadyRunLeft`, `SlotExactlyOnce`, `SlotConsumedIsFreed`,
`SlotSingleOrigin`, `SlotFecSetSound`, `SlotNoRecoveryLeft`, and that
`SlotAssembly` implements `RunDelivery` (`SlotOrderIndependent`:
`Spec => OrderIndependent`). The only hypothesis of the last one beside the constants'
assumptions is `Consistent`. Without it the statement is false (`slot_fork` has two
roots for a set), and the instance of `slot_order` satisfies it: `MCSlot` states it
as an `ASSUME` that TLC evaluates. Geometry, order, loss, repetition and the switch
`Recovery` stay arbitrary.

**`DeshredderProofs`** has the invariant `IInv`: each kept slot satisfies `SlotInv`
and is not older than the window; for kept slots `consumed` is exactly what was
handed out, in whole runs; a slot that handed something out is kept or stale; the window ends
at a slot that handed something out. The arithmetic core is `EvictFacts`: the
window loop removes exactly slots the stale test now refuses, and when the
memory bound pops a slot at least `4 * slot_lookback` smaller kept slots exist,
all within the window or above it, so the popped one is at least
`3 * slot_lookback` past its end. Hence `DeshredderExactlyOnce`,
`DeshredderRemembers`, `DeshredderWindow`, `DeshredderKeptIsNotStale`,
`DeshredderEvictsOnlyFarSlots`, `DeshredderTypeOK`. `DeshredderBounded` adds the
memory bound, from an invariant of its own (`BoundInv`) and for every `slot_lookback`:
the keys `pop_last` leaves have fewer than `4 * slot_lookback`
kept keys below them, and a finite set of numbers each of which has fewer than
`n` of the others below it has at most `n` members (`FewWithFewBelow`). The others
assume `slot_lookback >= 1`, and the assumption is needed: `DeshredderForgetsAtZero`
shows that with 0 the memory bound, `4 * 0` slots, leaves no slot behind, so that what
was handed out is not remembered.

**`PipelineProofs`** proves `PipelineTypeOK`, `PipelineInOrder`, `PipelineAccounted`,
`PipelineSinkGetsEveryBatch` and `PipelineStopsReceiving` for every number of
datagrams, capacity and batch size. The inductive invariant sees the pipeline as
one sequence: `Flow` is what was pushed, is in the worker's hand, in the channel,
in the receiver's batch and on the wire, and it rises and ends at or before the last
arrival. A step moves an element from one part to the next (the sequence is the
same), or removes one (dropping, the discarded channel of a panic), or appends a
larger one. `Control` ties the threads' positions to the queues (a batch is only
there while it is sent, the worker's vector only while it is sunk, a finished
worker has an empty channel and a finished receiver, a returned caller has
two finished threads), which is what turns the accounting of a running pipeline into
the stronger one of a stopped one. `Balance` and `SinkFlow` are the two
accounts, `Late` says that after `stop` a batch comes in only while the receiver
had passed its check before.

**`ListenProofs`** first shows that the composition is one: every step of `Listen`
is a step or a stutter of the core (`ListenRunsTheCore`: `ListenSpec => Spec` of
`Deshredder`) and of the threads (`ListenRunsThePipeline`, with an unbounded sink
and a worker that may panic). So the theorems above hold of the running command,
those of `DeshredderProofs` for `slot_lookback >= 1`. On top of the invariant of
`PipelineProofs` it then proves what the counters say, with three more parts.
`WorkerInv` places the push of the core in the life of the worker thread: its
updates are all visible before the next datagram is taken, and the thread ended
in a panic exactly when `push` panicked. `CounterInv` speaks of `Total`, the value
a counter has plus what is still due to it, because the visible values satisfy
no relation while updates are under way: packets are the pushes,
runs counted are what went to the sink plus markers plus decode errors, and duplicates
stay below the pushes (the first push finds no slot and counts none). `SnapInv`
says of a snapshot under way that each value it has loaded is at most
the counter's and that, of the pushes ended when it began, it misses at most one
packet. `ListenSnapshotSkew` follows. `ListenRunsAccounted` is about the runs
themselves, so it needs the core: `RunsInv` says that the runs handed out so far are as
many as were counted, which a push keeps because none of the runs it hands out was
handed out before (`PushHands`, from `DeshredderExactlyOnce`'s invariant, hence
`slot_lookback >= 1`). When the command has ended the worker has sunk all it produced,
and the sink never blocks, so all of it was printed.

`ListenBuildsWhatArrived` joins the three lines of argument: order and accounting of
the threads, the core's memory of what it handed out, and the coupling of a slot
with `RunDelivery`. Its hypotheses are `slot_lookback >= 1` and `OneBlock` (`Listen`):
the datagrams that `push_raw` accepts are shreds of one slot, consistently shredded,
whose number is not within `slot_lookback` of the top of u64. Datagrams it refuses
are arbitrary. `MCListen` states `OneBlock` as an `ASSUME`. The invariant
`BlockInv` says that the map holds no other slot and that this slot is coupled with the
shreds of the datagrams pushed so far. A push keeps it because neither the window nor
the memory bound can cost the only slot (`OnlySlotStays`), the stale test never
refuses it (`OnlySlotIsLive`), and a push that panics is not among the datagrams pushed;
an arrival keeps it because the datagrams pushed are among those that had arrived
(`PushedArrived`, from the rising `Flow`). What was handed out is then the set of
ready runs: each is a run of the slot, and together they cover what is consumed. When
nothing was dropped and the socket was emptied, as many datagrams were pushed as arrived
and none twice, so all of them were (`AllPushed`).

**`FixtureProofs`** is about where records end. `Layout`: up to the first failed write
the stream is the magic and one record after the other, each with its length in its
header, ending where the history variable `ends` says; as long as no write failed there is
nothing else. `Reading`: the reader stands at the end of the record it returned last
as long as that is one of these; what it returned is what was written; if it
stopped before the last of them the file ends inside the next one, and it stops with
an error only if the file is incomplete or a write failed. Behind a fragment nothing is
claimed: there the reader takes packet bytes for a header (`record_after_failure`).
`FixtureReplaysRecorded` and `FixtureLosesOnlyTheTail` follow, for every number and
size of packets, every cut and every place of the failure.

**`MerkleProofs`** is about trees of every number of leaves. The levels of a tree, the way
of a leaf up through them and the siblings along it are recursive notions; each turn
of a loop of the code adds one value to them, so the invariant says that such functions
exist. `Tree`: each level has half the nodes of the one below, rounded up; node `i`
joins nodes `2i` and `2i + 1` of it, or the last one with itself; no two nodes of a
level are equal; a tree of `2 ^ h` leaves has no odd level below the root. `Path`: the
proof holds the sibling of each node on the way. `OnTheWay` is the heart: if the node a
walk has computed is a node of the tree at all, it is one of the level reached, on the way
of the leaf the proof was made for, and if the walk's index is that of the way then
the walk began at that leaf's position. A step keeps this because two joins are equal only
if their parts are, so a walk that left the tree never comes back. The exception is the
last node of an odd level: it is the left and the right child of its parent, so
the parity of the index does not matter there; that is why a position is only bound
inside the tree, or in a full one (the 64 leaves of a FEC set), and why
`ProofBindsPosition` says so. `MerkleProofBindsPosition` and `MerkleNoneIsTooShort`
follow. Hashes are terms here, so this is about the structure of the code and
assumes that the hash function has no collisions.

**`AnalysisProofs`** is about `analyze-recovery`, which reads a capture through a
deshredder that recovers and one that waits, beside its own state per FEC set. Both
passes are instances of `DeshredderProofs` (`EP`, `WP`), so each keeps the invariant
of the core. That alone relates nothing: the passes free sets, complete
runs and move their windows at different records. The inductive invariant `AInv` adds
two parts. `CaptureInv` says of every `SetState` that it has counted what it has seen and
found data missing at its threshold (`SetInv`). `PolicyInv` says that the window of the
waiting policy is never ahead, and that for every slot the eager one has not passed
there is *one* set of shreds heard with which both passes are coupled
(`Shared`) and of which the `SetState`s hold the bits (`Tells`). A record keeps the
second half because it adds the same shred to both couplings; the first half needs
the second: when the waiting pass moves its window to a slot it has just handed out a
run there, the same run is deliverable with recovery from the same shreds
(`BuiltBoth`), so the eager window is there too. Three theorems follow.

* `AnalysisEagerIsNoLater`: what is deliverable without recovery is so with it.
* `AnalysisRebuiltAtThreshold`: a set stores exactly the shreds heard until its data is
  complete, so it is rebuilt when the `K`-th distinct shred arrives and one of the `K` is
  code (`CrossesIsAtK`, `RebuiltIsMissing`); that is the `SetState`'s own test.
* `AnalysisClassesMatchPolicies`: a second invariant, `StampInv`, says that the time
  stamps of a `SetState` tell how much of it was seen (`Stamped`), and that the times
  which `batch_times` notes for the first run of a slot are these stamps, with the
  cost added when the record crossed the threshold (`Timed`), if that run decodes,
  and that there are none otherwise. Whether it decodes is a fact about the block, not
  about a pass: both hand it out with the root of the first set, whichever shreds were
  rebuilt (`HandedRoot`, `DecodesAsFirst`). A record hands out the
  run exactly when the count of its set reaches `K` (`FirstRunsHanded`), so both sides are
  set by the same record. It is stated where the first run is the first FEC set
  (`FirstSetIsRun`): any other run also waits for shreds of another set.

The hypotheses are `slot_lookback >= 1`; `ConsistentCapture`, that each block was
shredded consistently, in slots that are not within `slot_lookback` of the top of u64;
and, for the last two, `SoundCapture`, that no record that parses has a broken proof or
makes `push` panic, and `M <= K`, without which two code positions share a bit of `seen_code`.
`MCAnalysis` states them as an `ASSUME`. The properties themselves speak of no more
slots than the map holds (`Few`) and of slots the windows have not passed. The length
and order of the capture, loss and repetition, geometry and cost are arbitrary. `AnalysisNearestRank` has no hypotheses; it holds
for every `MaxSample`.

The type invariants of slot and deshredder are proved and not repeated in a run.

Only model-checked, and why:

* liveness (`ShutdownReturns`, `OrphanEnds`, `BufferedIsPushed`, `ReplayEnds`): fairness
  and `ENABLED` are out of the prover's reach;
* `LoopMatchesClosedForm` (recursive operators) and the properties of `View`
  (induction over a segment): they are statements about recursive definitions on
  data. `ErrorIsLast` is among them because an error of the second pass would be a
  second error, and that there is none is `SecondPassAgrees`.

## 5. Findings

Each is a violation run with a counterexample of a few steps.

* `stranded_shreds`: a recovery that fails half way leaves shreds in the set
  that are never marked received; their runs never complete (`fec.rs:202`,
  against `slot.rs:33`).
* `push_panics`: the range of a code shred's `fec_set_index` is not checked
  (`shred.rs:280`, `slot.rs:136`).
* `record_after_failure`: after a write that failed half way, recording goes on
  behind the fragment and the capture is no longer a sequence of records
  (`fixture.rs:52`, against `fixture.rs:5`).

Remarks that are not violation runs, since no line of the repository says
otherwise, the line is a matter of reading, or the case is at the edge of what the
line is about:

* a run may be a single shred, so moving the window does not take "a whole
  consistent FEC set" (`deshredder.rs:178`), and `slot_lookback` counts from the
  newest slot that completed a run, not from the highest seen
  (`deshredder.rs:23`). `WindowFollowsBatches` states what the code does;
* with `slot_lookback = 0` the slot just fed is forgotten after each push
  (`deshredder.rs:191`; `DeshredderForgetsAtZero`), so a run of more than one shred
  never completes and a repeated datagram that completes a run is emitted again,
  unlike what the test `duplicates_do_not_double_emit` (`tests/fixtures.rs:223`) shows
  for the default of 64. The binaries use the default; only a user of the
  library can set 0;
* `shutdown` called by the thread that holds the receiver of a full `ChannelSink`
  does not return (`pipeline.rs:61`); `ShutdownReturns` states it as the only
  exception;
* `TxView::signature` of a transaction without signatures panics or returns message
  bytes, although the comment at `view.rs:85` says that the scanner verified them, and
  the offset of the signatures is cut to 16 bits (`view.rs:334`), so that of a v1
  transaction with a message past 65535 bytes it is not "its first signature"
  (`view.rs:82`). `SignaturesInside` and `BoundariesMatch` give these as the only
  exceptions: signatures that exist are found in every other case, and a cut offset
  still lies inside the bytes;
* `batches` counts every run handed out, markers and undecodable ones too
  (`deshredder.rs:197`), while `stats.rs:47` says "Entry batches emitted." and
  `tests/fixtures.rs:128` takes the counter for what was decoded. Here the documentation
  and the code disagree, in a counter only. `RunsAccounted` takes neither side: it counts
  the runs handed out, not `batches`;
* the tap of `--record` runs in the worker, so datagrams dropped on a full channel
  are not in the capture;
* the last statistics line of `listen` is printed before `shutdown` drains the
  channel, so it may miss the last pushes;
* with more than `4 * slot_lookback` slots in a capture, the two policies of
  `analyze-recovery` may give up different slots at the memory bound: a slot that
  the waiting policy gave up no longer counts against its bound, while the eager one,
  which did not have to give it up, later gives up a higher one that the waiting policy
  then completes. So recovering can deliver a batch less; `EagerIsNoLater` is stated
  below that bound;
* `analyze-recovery` counts a FEC set whose run is a block marker, or does not decode,
  in the distribution of the waits, and has no batch for it in the comparison of the
  policies; `ClassesMatchPolicies` says so;
* in `analyze-recovery` a threshold with nothing missing cannot occur
  (`RebuiltAtThreshold`), only batches of the eager policy are compared, shreds
  of different Merkle roots count towards the same set, and a capture whose
  clock steps back underflows the span (line 112).

## 6. Not modelled

Binding and buffer sizes of the socket and the `recvmmsg` call (I/O; `Pipeline`
takes a queue and a result); parsing of arguments and the layout of what the
binaries print; the totals and the grace sweep of `analyze-recovery`, which are
sums over the values `Analysis` computes; examples, benches and tests. wincode,
Reed-Solomon and the hash function are external and modelled from their use.
Two hazards have no property: the clock that steps back between the records of
a capture, and the policies of `analyze-recovery` past the memory bound.

## 7. Plan

Done: wire format, FEC sets, slot assembly with its abstract specification,
deshredder, pipeline with its spawning, Merkle tree, recorded captures, batch
encoding and the zero-copy view, the composed `Listen` command with its counters,
the recovery analysis; safety proofs of slot, FEC sets, deshredder and
pipeline, the refinement of `RunDelivery`, that `Listen` runs the specifications it is
composed of, its counters, and what it builds of a block; what a replay returns of a
capture; that a Merkle proof binds its leaf to its position; that the two policies of
the recovery analysis and its own bookkeeping agree.

Left: every invariant that a run checks is proved, except those section 4 lists
as out of the prover's reach. What could be added is model: the sums
and the grace sweep that `analyze-recovery` prints, and a clock that steps back
between the records of a capture.
