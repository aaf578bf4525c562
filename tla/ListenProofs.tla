---------------------------- MODULE ListenProofs ----------------------------
(***************************************************************************)
(* Proofs about the composition: the Listen command runs the pipeline of   *)
(* Pipeline.tla with the core of Deshredder.tla inside, and what its       *)
(* counters say, although main reads them while the worker updates them.   *)
(* Everything holds for every number of datagrams, batch size, capacity    *)
(* and slot_lookback, and for every order in which updates become visible. *)
(***************************************************************************)
EXTENDS Listen, DeshredderProofs, SequenceTheorems

PP ==
  INSTANCE PipelineProofs WITH
    SinkCapacity <- N * MaxOut + 1,
    MayPanic <- TRUE, out <- queue

(* What the updates us still add to counter c, and the value a counter is   *)
(* going to have.                                                           *)
DueIn(us, c) ==
  LET mine == {u \in us : u[1] = c}
  IN  IF mine = {} THEN 0 ELSE (CHOOSE u \in mine : TRUE)[2]

Total(c) == stats[c] + DueIn(adding, c)

(* Outstanding updates: at most one for a counter, each of at least one.    *)
UpdatesSound(us) ==
  /\ us \subseteq ListenCounter \X (Nat \ {0})
  /\ \A u, v \in us : u[1] = v[1] => u = v

SlotsSound == \A s \in DOMAIN slots : SlotInv(slots[s])

(* The worker, the core and the datagrams: the updates of a push are all    *)
(* visible before the next datagram is taken, the worker thread has ended   *)
(* in a panic exactly when push panicked, and then the datagram of that     *)
(* push is neither pushed nor dropped.                                      *)
WorkerInv ==
  /\ content \in Seq(Packet) /\ Len(content) = arrived
  /\ adding # {} => worker \in {"sink", "panicked"}
  /\ panicked \in BOOLEAN /\ (panicked <=> worker = "panicked")
  /\ panicked => Len(pushed) + 1 + dropped <= taken
  /\ worker # "never" /\ sink_open = TRUE /\ pulled = <<>>
  /\ SlotsSound
  /\ pushed = <<>> /\ ~panicked => DOMAIN slots = {}

(* What the counters add up to once every update is visible.  The first     *)
(* push finds no slot and counts no duplicate.                              *)
CounterInv ==
  /\ UpdatesSound(adding)
  /\ stats \in [ListenCounter -> Nat]
  /\ Total("packets") = Len(pushed) + (IF panicked THEN 1 ELSE 0)
  /\ DueIn(adding, "packets") <= 1
  /\ Total("duplicates") = 0 \/ Total("duplicates") < Len(pushed)
  /\ Total("batches") = Len(produced) + Total("block_markers") + Total("decode_errors")

(* A snapshot under way: counters only grow, and all pushes but the one     *)
(* under way when it began were counted by then.                            *)
SnapInv ==
  /\ snap \in Seq(Nat) /\ Len(snap) <= Len(Fields)
  /\ main # "stats" => snap = <<>>
  /\ main = "stats" =>
       /\ began \in Nat /\ began <= Len(pushed)
       /\ began <= stats["packets"] + 1
       /\ \A i \in 1 .. Len(snap) :
            /\ snap[i] <= stats[Fields[i]]
            /\ Fields[i] = "packets" => began <= snap[i] + 1

LInv == PP!IInv /\ WorkerInv /\ CounterInv /\ SnapInv

-----------------------------------------------------------------------------
(* The updates of a push *)

(* Nothing is outstanding when there is no update.                          *)
LEMMA NoneDue == \A c : DueIn({}, c) = 0
BY DEF DueIn

(* What is outstanding for a counter is a number: that of its one update.   *)
LEMMA DueOf ==
  ASSUME NEW us, UpdatesSound(us), NEW c
  PROVE  /\ DueIn(us, c) \in Nat
         /\ \A u \in us : u[1] = c => DueIn(us, c) = u[2]
         /\ (\A u \in us : u[1] # c) => DueIn(us, c) = 0
<1> DEFINE mine == {u \in us : u[1] = c}
<1>1. CASE mine = {}
  <2>1. DueIn(us, c) = 0
    BY <1>1 DEF DueIn
  <2> QED
    BY <1>1, <2>1
<1>2. CASE mine # {}
  <2>1. DueIn(us, c) = (CHOOSE u \in mine : TRUE)[2]
    BY <1>2 DEF DueIn
  <2> DEFINE w == CHOOSE u \in mine : TRUE
  <2>2. w \in mine
    BY <1>2
  <2> HIDE DEF w
  <2>3. w \in us /\ w[1] = c /\ w \in ListenCounter \X (Nat \ {0})
    BY <2>2 DEF UpdatesSound
  <2>4. w[2] \in Nat
    BY <2>3
  <2>5. \A u \in us : u[1] = c => u = w
    BY <2>3 DEF UpdatesSound
  <2>6. DueIn(us, c) = w[2]
    BY <2>1 DEF w
  <2> QED
    BY <2>3, <2>4, <2>5, <2>6
<1> QED
  BY <1>1, <1>2

(* Counter::add makes one update visible and leaves the others.             *)
LEMMA OneVisible ==
  ASSUME NEW us, UpdatesSound(us), NEW u \in us
  PROVE  /\ UpdatesSound(us \ {u})
         /\ DueIn(us \ {u}, u[1]) = 0 /\ DueIn(us, u[1]) = u[2]
         /\ \A c : c # u[1] => DueIn(us \ {u}, c) = DueIn(us, c)
<1>1. UpdatesSound(us \ {u})
  BY DEF UpdatesSound
<1>2. \A v \in us \ {u} : v[1] # u[1]
  BY DEF UpdatesSound
<1>3. DueIn(us \ {u}, u[1]) = 0 /\ DueIn(us, u[1]) = u[2]
  BY <1>1, <1>2, DueOf
<1>4. ASSUME NEW c, c # u[1] PROVE DueIn(us \ {u}, c) = DueIn(us, c)
  <2>1. CASE \E v \in us : v[1] = c
    BY <1>1, <1>4, <2>1, DueOf
  <2>2. CASE \A v \in us : v[1] # c
    BY <1>1, <2>2, DueOf
  <2> QED
    BY <2>1, <2>2
<1> QED
  BY <1>1, <1>3, <1>4

(* A push that counts counts and hands out raws has these updates due.      *)
LEMMA DueAfterPush ==
  ASSUME NEW counts \in [Counter -> Nat], NEW raws, IsFiniteSet(raws)
  PROVE  LET us == Updates(counts, raws)
         IN  /\ UpdatesSound(us)
             /\ \A c \in Counter : DueIn(us, c) = counts[c]
             /\ \A c \in ListenCounter \ Counter :
                  DueIn(us, c) = Cardinality(Decoded(raws, c))
<1> DEFINE us == Updates(counts, raws)
           by == [c \in ListenCounter |->
                    IF c \in Counter THEN counts[c] ELSE Cardinality(Decoded(raws, c))]
<1>1. by \in [ListenCounter -> Nat]
  <2>1. \A c : Cardinality(Decoded(raws, c)) \in Nat
    BY FS_Subset, FS_CardinalityType DEF Decoded
  <2> QED
    BY <2>1
<1>2. Counter \subseteq ListenCounter
  BY DEF ListenCounter
<1>3. \A u : u \in us <=> \E c \in ListenCounter : u = <<c, by[c]>> /\ by[c] > 0
  <2>1. \A u : u \in RawUpdates(counts) <=> \E c \in Counter : u = <<c, by[c]>>
    BY <1>2 DEF RawUpdates
  <2>2. \A u : u \in DecodeUpdates(raws) <=>
                 \E c \in ListenCounter \ Counter : u = <<c, by[c]>>
    BY DEF DecodeUpdates
  <2> HIDE DEF by
  <2> QED
    BY <1>2, <2>1, <2>2 DEF Updates
<1>4. \A c \in Counter : by[c] = counts[c]
  BY <1>2
<1>5. \A c \in ListenCounter \ Counter : by[c] = Cardinality(Decoded(raws, c))
  OBVIOUS
<1> HIDE DEF us, by
<1>6. UpdatesSound(us)
  BY <1>1, <1>3 DEF UpdatesSound
<1>7. ASSUME NEW c \in ListenCounter PROVE DueIn(us, c) = by[c]
  <2>1. CASE by[c] > 0
    <3>1. <<c, by[c]>> \in us
      BY <1>3, <2>1
    <3> QED
      BY <1>6, <3>1, DueOf
  <2>2. CASE ~(by[c] > 0)
    <3>1. \A u \in us : u[1] # c
      BY <1>3, <2>2
    <3>2. by[c] = 0
      BY <1>1, <2>2
    <3> QED
      BY <1>6, <3>1, <3>2, DueOf
  <2> QED
    BY <2>1, <2>2
<1>8. \A c \in Counter : DueIn(us, c) = counts[c]
  BY <1>2, <1>4, <1>7
<1>9. \A c \in ListenCounter \ Counter : DueIn(us, c) = Cardinality(Decoded(raws, c))
  BY <1>5, <1>7
<1> QED
  BY <1>6, <1>8, <1>9 DEF us

(* A run is a marker, does not decode or is a batch of entries.             *)
LEMMA DecodedParts ==
  ASSUME NEW raws, IsFiniteSet(raws)
  PROVE  Cardinality(raws) =
           Cardinality(Decoded(raws, "entries"))
           + Cardinality(Decoded(raws, "block_markers"))
           + Cardinality(Decoded(raws, "decode_errors"))
<1> DEFINE A == Decoded(raws, "entries")
           B == Decoded(raws, "block_markers")
           C == Decoded(raws, "decode_errors")
<1>1. \A raw : Decode(raw) \in {"entries", "block_markers", "decode_errors"}
  BY DEF Decode
<1>2. raws = A \cup (B \cup C) /\ A \cap (B \cup C) = {} /\ B \cap C = {}
  BY <1>1 DEF Decoded
<1>3. IsFiniteSet(A) /\ IsFiniteSet(B) /\ IsFiniteSet(C)
  BY FS_Subset DEF Decoded
<1> HIDE DEF A, B, C
<1>4. /\ IsFiniteSet(B \cup C)
      /\ Cardinality(B \cup C) = Cardinality(B) + Cardinality(C) - Cardinality(B \cap C)
  BY <1>3, FS_Union
<1>5. Cardinality(A \cup (B \cup C)) =
        Cardinality(A) + Cardinality(B \cup C) - Cardinality(A \cap (B \cup C))
  BY <1>3, <1>4, FS_Union
<1>6. Cardinality(A \cap (B \cup C)) = 0 /\ Cardinality(B \cap C) = 0
  BY <1>2, FS_EmptySet
<1>7. Cardinality(A) \in Nat /\ Cardinality(B) \in Nat /\ Cardinality(C) \in Nat
  BY <1>3, FS_CardinalityType
<1>8. Cardinality(raws) = Cardinality(A) + Cardinality(B) + Cardinality(C)
  BY <1>2, <1>4, <1>5, <1>6, <1>7
<1> QED
  BY <1>8 DEF A, B, C

-----------------------------------------------------------------------------
(* Deshredder::push *)

(* A shred of a slot without state is no duplicate.                         *)
LEMMA FirstIsNoDuplicate ==
  ASSUME NEW sh, IsShred(sh)
  PROVE  Verdict(SlotDefault, sh) # "duplicates"
<1>1. EarlyVerdict(SlotDefault, sh) # "duplicates"
  BY DEF EarlyVerdict, SlotDefault
<1>2. SetFor(SlotDefault, sh.fec) = FecDefault
  BY DEF SetFor, SlotDefault, IsShred
<1>3. Get(FecDefault, sh) = None
  BY DEF Get, FecDefault, IsShred
<1>4. FecVerdict(FecDefault, sh) # "duplicates"
  BY <1>3 DEF FecVerdict
<1> QED
  BY <1>1, <1>2, <1>4 DEF Verdict

(* As many batches are handed out as are counted.                           *)
LEMMA HandsWhatItCounts ==
  ASSUME NEW st, NEW sh, NEW s
  PROVE  LET segs == Segments(st, sh, Recovery)
             raws == {RawBatch(s, g) : g \in segs}
         IN  IsFiniteSet(raws) /\ Cardinality(raws) = Cardinality(segs)
<1> DEFINE mid == Stow(st, sh, Recovery)
           runs == ReadyRuns(mid, Fresh(st, sh, Recovery))
           seg == [r \in runs |-> SegmentOf(mid, r)]
           segs == Segments(st, sh, Recovery)
           raws == {RawBatch(s, g) : g \in segs}
           raw == [g \in segs |-> RawBatch(s, g)]
<1>1. IsFiniteSet(Index)
  BY FS_Interval, GeometryAssumption DEF Index, MAX_SHREDS_PER_SLOT
<1>2. IsFiniteSet(runs)
  <2>1. IsFiniteSet(Index \X Index)
    BY <1>1, FS_Product
  <2>2. runs \subseteq Index \X Index
    BY DEF ReadyRuns
  <2> QED
    BY <2>1, <2>2, FS_Subset
<1>3. segs = {} \/ segs = {seg[r] : r \in runs}
  BY DEF Segments
<1>4. \A g, h \in segs :
        g.start = h.start /\ g.end = h.end /\ g.bytes = h.bytes /\ g.last = h.last => g = h
  BY <1>3 DEF SegmentOf
<1> HIDE DEF runs
<1>5. IsFiniteSet({seg[r] : r \in runs})
  <2>1. seg \in Surjection(runs, {seg[r] : r \in runs})
    BY DEF Surjection
  <2> HIDE DEF seg
  <2> QED
    BY <1>2, <2>1, FS_Surjection
<1>6. IsFiniteSet(segs)
  BY <1>3, <1>5, FS_EmptySet
<1> HIDE DEF segs, seg, mid
<1>7. \A g, h \in segs : RawBatch(s, g) = RawBatch(s, h) => g = h
  <2> SUFFICES ASSUME NEW g \in segs, NEW h \in segs, RawBatch(s, g) = RawBatch(s, h)
               PROVE  g = h
    OBVIOUS
  <2>1. \A x : /\ RawBatch(s, x).start = x.start /\ RawBatch(s, x).end = x.end
               /\ RawBatch(s, x).bytes = x.bytes /\ RawBatch(s, x).last = x.last
    BY DEF RawBatch
  <2>2. g.start = h.start /\ g.end = h.end /\ g.bytes = h.bytes /\ g.last = h.last
    BY <2>1
  <2> QED
    BY <1>4, <2>2
<1>8. raw \in Surjection(segs, raws) /\ raw \in Injection(segs, raws)
  BY <1>7 DEF Surjection, Injection, IsInjective
<1> HIDE DEF raw, raws
<1>9. IsFiniteSet(raws) /\ Cardinality(raws) = Cardinality(segs)
  BY <1>6, <1>8, FS_Surjection
<1> QED
  BY <1>9 DEF raws, segs

(* What one push does, whichever way it takes through push_raw: it keeps    *)
(* the slots sound, counts one packet and as many batches as it hands out,  *)
(* and counts a duplicate only for a slot that has been seen.               *)
LEMMA PushCounts ==
  ASSUME SlotsSound, NEW p \in Packet, Push(p)
  PROVE  /\ SlotsSound'
         /\ panicked' \in BOOLEAN
         /\ panicked' => out' = {} /\ tally'["duplicates"] = 0
         /\ tally' \in [Counter -> Nat]
         /\ tally'["packets"] = 1
         /\ tally'["duplicates"] \in {0, 1}
         /\ DOMAIN slots = {} => tally'["duplicates"] = 0
         /\ IsFiniteSet(out') /\ tally'["batches"] = Cardinality(out')
<1>0. /\ "packets" \in Counter /\ "duplicates" \in Counter /\ "batches" \in Counter
      /\ "invalid" # "duplicates" /\ "wrong_version" # "duplicates" /\ "stale" # "duplicates"
      /\ "packets" # "duplicates" /\ "packets" # "batches"
      /\ "invalid" # "batches" /\ "wrong_version" # "batches" /\ "stale" # "batches"
  BY DEF Counter
<1>1. IsFiniteSet({}) /\ Cardinality({}) = 0
  BY FS_EmptySet
<1>2. ASSUME NEW c \in {"invalid", "wrong_version", "stale"}, Ignore(c)
      PROVE  /\ slots' = slots /\ panicked' = panicked /\ out' = {}
             /\ tally' \in [Counter -> Nat]
             /\ tally'["packets"] = 1 /\ tally'["duplicates"] = 0 /\ tally'["batches"] = 0
  BY <1>0, <1>2 DEF Ignore, Hand, Count
<1>3. CASE PushInvalid(p) \/ PushWrongVersion(p) \/ PushStale(p)
  <2>1. /\ slots' = slots /\ panicked' = panicked /\ out' = {}
        /\ tally' \in [Counter -> Nat]
        /\ tally'["packets"] = 1 /\ tally'["duplicates"] = 0 /\ tally'["batches"] = 0
    BY <1>2, <1>3 DEF PushInvalid, PushWrongVersion, PushStale
  <2>2. SlotsSound'
    BY <2>1 DEF SlotsSound
  <2>3. panicked' = FALSE
    BY <2>1 DEF Push
  <2> QED
    BY <1>1, <2>1, <2>2, <2>3
<1>4. \A s : SlotInv(SlotAt(s))
  BY SlotDefaultInv DEF SlotsSound, SlotAt
<1>5. CASE PushPanics(p)
  <2>1. /\ slots' = With(slots, Parse(p).slot, SlotAt(Parse(p).slot))
        /\ panicked' = TRUE /\ out' = {} /\ tally' = Count({"packets"})
    BY <1>5 DEF PushPanics, Hand
  <2>2. SlotsSound'
    BY <1>4, <2>1 DEF SlotsSound, With
  <2>3. /\ tally' \in [Counter -> Nat] /\ tally'["packets"] = 1
        /\ tally'["duplicates"] = 0 /\ tally'["batches"] = 0
    BY <1>0, <2>1 DEF Count
  <2> QED
    BY <1>1, <2>1, <2>2, <2>3
<1>6. CASE PushShred(p)
  <2> DEFINE sh == Parse(p)
             st == SlotAt(sh.slot)
             ins == SlotInsert(st, sh, Recovery)
             segs == Segments(st, sh, Recovery)
             verdict == Verdict(st, sh)
  <2>1. /\ WellFormed(p) /\ ~Panics(sh)
        /\ slots' = Evict(With(slots, sh.slot, ins), Moves(segs, sh.slot), sh.slot)
        /\ out' = {RawBatch(sh.slot, g) : g \in segs}
        /\ tally' = InsertCounts(st, sh, segs)
        /\ panicked' = panicked
    BY <1>6 DEF PushShred, Accepted, Hand
  <2>2. p \in Datagram /\ Recovery \in BOOLEAN
    BY PacketAssumption
  <2>3. IsShred(sh)
    BY <2>1, <2>2, ParseIsShred
  <2>4. SlotInv(st)
    BY <1>4
  <2>5. SlotInv(ins)
    BY <2>2, <2>3, <2>4, SlotInsertInv
  <2>6. DOMAIN slots = {} => st = SlotDefault
    BY DEF SlotAt
  <2>7. tally' \in [Counter -> Nat]
    BY <2>1, <2>3, <2>4, InsertCountsType
  <2>8. IsFiniteSet(out') /\ Cardinality(out') = Cardinality(segs)
    BY <2>1, HandsWhatItCounts
  <2>9. DOMAIN slots = {} => verdict # "duplicates"
    BY <2>3, <2>6, FirstIsNoDuplicate
  <2> HIDE DEF st, ins, segs, verdict, sh
  <2>10. /\ tally'["packets"] = 1 /\ tally'["batches"] = Cardinality(segs)
         /\ tally'["duplicates"] = IF verdict = "duplicates" THEN 1 ELSE 0
    BY <1>0, <2>1 DEF InsertCounts, Count, verdict
  <2>11. SlotsSound'
    <3> DEFINE map == With(slots, sh.slot, ins)
    <3>1. \A s \in DOMAIN map : SlotInv(map[s])
      BY <2>5 DEF With, SlotsSound
    <3> HIDE DEF map
    <3>2. \A m, S : \A s \in DOMAIN Keep(m, S) : s \in DOMAIN m /\ Keep(m, S)[s] = m[s]
      BY DEF Keep
    <3>3. \A s \in DOMAIN slots' : s \in DOMAIN map /\ slots'[s] = map[s]
      <4>1. slots' = Evict(map, Moves(segs, sh.slot), sh.slot)
        BY <2>1 DEF map
      <4>2. \A m : \A s \in DOMAIN PopFar(m) : s \in DOMAIN m /\ PopFar(m)[s] = m[s]
        BY <3>2, Zenon DEF PopFar
      <4>3. \A m, x : \A s \in DOMAIN PopOld(m, x) : s \in DOMAIN m /\ PopOld(m, x)[s] = m[s]
        BY <3>2, Zenon DEF PopOld
      <4> QED
        BY <4>1, <4>2, <4>3, Zenon DEF Evict
    <3> QED
      BY <3>1, <3>3 DEF SlotsSound
  <2>12. panicked' = FALSE
    BY <2>1 DEF Push
  <2> QED
    BY <2>7, <2>8, <2>9, <2>10, <2>11, <2>12
<1> QED
  BY <1>3, <1>5, <1>6 DEF Push

-----------------------------------------------------------------------------
(* Pipeline::spawn, receive_loop, the worker loop and shutdown *)

(* The threads of the pipeline do the same in the composition as alone.     *)
LEMMA SameThreads ==
  /\ P!SpawnWorker => PP!SpawnWorker
  /\ P!Arrive => PP!Arrive
  /\ P!ReceiverStep => PP!ReceiverStep
  /\ P!WorkerStep => PP!WorkerStep
  /\ P!Push => PP!Push
  /\ P!Panic => PP!Panic
  /\ P!Shutdown => PP!Shutdown
  /\ P!Join => PP!Join
<1> USE DEF P!netVars, PP!netVars, P!receiverVars, PP!receiverVars, P!workerVars,
    PP!workerVars, P!sinkVars, PP!sinkVars, P!callerVars, PP!callerVars,
    P!HasRoom, PP!HasRoom, P!Connected, PP!Connected
<1>1. P!SpawnWorker => PP!SpawnWorker
  BY DEF P!SpawnWorker, PP!SpawnWorker
<1>2. P!Arrive => PP!Arrive
  BY DEF P!Arrive, PP!Arrive
<1>3. P!CheckStop => PP!CheckStop
  BY DEF P!CheckStop, PP!CheckStop
<1>4. P!RecvBatch => PP!RecvBatch
  BY DEF P!RecvBatch, PP!RecvBatch
<1>5. P!RecvNothing => PP!RecvNothing
  BY DEF P!RecvNothing, PP!RecvNothing
<1>6. P!Sent => PP!Sent
  BY DEF P!Sent, PP!Sent
<1>7. P!Full => PP!Full
  BY DEF P!Full, PP!Full
<1>8. P!Disconnected => PP!Disconnected
  BY DEF P!Disconnected, PP!Disconnected
<1>9. P!BatchSent => PP!BatchSent
  BY DEF P!BatchSent, PP!BatchSent
<1>10. P!Take => PP!Take
  BY DEF P!Take, PP!Take
<1>11. P!Finish => PP!Finish
  BY DEF P!Finish, PP!Finish
<1>12. P!Push => PP!Push
  BY DEF P!Push, PP!Push
<1>13. P!OnBatch => PP!OnBatch
  BY DEF P!OnBatch, PP!OnBatch
<1>14. P!BatchesSunk => PP!BatchesSunk
  BY DEF P!BatchesSunk, PP!BatchesSunk
<1>15. P!Panic => PP!Panic
  BY DEF P!Panic, PP!Panic
<1>16. P!Shutdown => PP!Shutdown
  BY DEF P!Shutdown, PP!Shutdown
<1>17. P!JoinReceiver => PP!JoinReceiver
  BY DEF P!JoinReceiver, PP!JoinReceiver
<1>18. P!JoinWorker => PP!JoinWorker
  BY DEF P!JoinWorker, PP!JoinWorker
<1>19. P!ReceiverStep => PP!ReceiverStep
  BY <1>3, <1>4, <1>5, <1>6, <1>7, <1>8, <1>9
    DEF P!ReceiverStep, PP!ReceiverStep
<1>20. P!WorkerStep => PP!WorkerStep
  BY <1>10, <1>11, <1>12, <1>13, <1>14
    DEF P!WorkerStep, PP!WorkerStep
<1>21. P!Join => PP!Join
  BY <1>17, <1>18
    DEF P!Join, PP!Join
<1> QED
  BY <1>1, <1>2, <1>19, <1>20, <1>12, <1>15, <1>16, <1>21

(* A step of the command is a step of the pipeline or leaves it alone.      *)
LEMMA StepsPipeline ==
  ASSUME [ListenNext]_listenVars
  PROVE  [PP!Next]_(PP!vars)
<1> USE DEF PP!Next
<1>1. UNCHANGED pipelineVars => UNCHANGED PP!vars
  BY DEF pipelineVars, PP!vars, PP!netVars, PP!receiverVars, PP!workerVars,
    PP!sinkVars, PP!callerVars
<1>2. CASE Datagrams
  BY <1>2, SameThreads DEF Datagrams
<1>3. CASE Receive
  BY <1>3, SameThreads DEF Receive
<1>4. CASE WorkerPush
  BY <1>4, SameThreads DEF WorkerPush, PP!WorkerStep
<1>5. CASE UpdateCounter
  BY <1>1, <1>5 DEF UpdateCounter
<1>6. CASE WorkerLoop
  BY <1>6, SameThreads DEF WorkerLoop, P!WorkerStep
<1>7. CASE Spawn
  BY <1>7, SameThreads DEF Spawn
<1>8. CASE StartStats \/ Load \/ PrintStats
  BY <1>1, <1>8 DEF StartStats, Load, PrintStats
<1>9. CASE Exit
  BY <1>9, SameThreads DEF Exit
<1>10. CASE UNCHANGED listenVars
  BY <1>1, <1>10 DEF listenVars
<1> QED
  BY <1>2, <1>3, <1>4, <1>5, <1>6, <1>7, <1>8, <1>9, <1>10
    DEF ListenNext, Work, MainStep

(* The assumption under which the pipeline is proved correct holds.         *)
LEMMA PipelineConstants == PP!PipelineAssumption
<1>1. N * MaxOut + 1 \in Nat \ {0}
  BY ListenAssumption
<1> QED
  BY <1>1, ListenAssumption DEF PP!PipelineAssumption

(* What the pipeline's invariant says about the worker's datagrams.         *)
LEMMA PipelineFacts ==
  ASSUME PP!IInv
  PROVE  /\ arrived \in Nat /\ dropped \in Nat /\ taken \in Nat
         /\ pushed \in Seq(1 .. N) /\ hand \in Seq(1 .. N)
         /\ produced \in Seq((1 .. N) \X (1 .. MaxOut))
         /\ worker = "push" => Len(hand) = 1 /\ hand[1] \in 1 .. arrived
         /\ worker \notin {"panicked", "never"} =>
              Len(pushed) + Len(hand) + dropped <= taken
         /\ worker = "unborn" <=> caller = "spawning"
<1>1. PP!TypeOK /\ PP!History /\ PP!Control /\ PP!Balance
  BY DEF PP!IInv
<1>2. /\ arrived \in Nat /\ dropped \in Nat /\ taken \in Nat
      /\ pushed \in Seq(1 .. N) /\ hand \in Seq(1 .. N)
      /\ produced \in Seq((1 .. N) \X (1 .. MaxOut))
      /\ channel \in Seq(1 .. N) /\ batch \in Seq(1 .. N) /\ wire \in Seq(1 .. N)
      /\ worker = "push" => Len(hand) = 1
  BY <1>1, ListenAssumption DEF PP!TypeOK, PP!History
<1>3. worker \notin {"panicked", "never"} => Len(pushed) + Len(hand) + dropped <= taken
  <2>1. Len(pushed) \in Nat /\ Len(hand) \in Nat /\ Len(channel) \in Nat /\ Len(batch) \in Nat
    BY <1>2, LenProperties
  <2>2. worker \notin {"panicked", "never"} =>
          taken = Len(pushed) + Len(hand) + Len(channel) + Len(batch) + dropped
    BY <1>1 DEF PP!Balance, PP!Connected
  <2> QED
    BY <1>2, <2>1, <2>2
<1>4. ASSUME worker = "push" PROVE hand[1] \in 1 .. arrived
  <2> DEFINE a == pushed \o hand
             b == a \o channel
             c == b \o batch
             d == c \o wire
             k == Len(pushed) + 1
  <2>1. hand[1] \in 1 .. N /\ Len(pushed) \in Nat /\ Len(hand) = 1
    <3>1. Len(hand) = 1
      BY <1>2, <1>4, Zenon
    <3>2. 1 \in 1 .. Len(hand)
      BY <3>1
    <3> QED
      BY <1>2, <3>1, <3>2, ElementOfSeq, LenProperties
  <2>2. a \in Seq(1 .. N) /\ Len(a) = k /\ a[k] = hand[1]
    <3>1. a \in Seq(1 .. N) /\ Len(a) = Len(pushed) + Len(hand)
      BY <1>2, ConcatProperties
    <3>2. \A i \in 1 .. Len(a) : a[i] = IF i <= Len(pushed) THEN pushed[i]
                                     ELSE hand[i - Len(pushed)]
      BY <1>2, <3>1, ConcatProperties
    <3> HIDE DEF a
    <3>3. k \in 1 .. Len(a) /\ ~(k <= Len(pushed)) /\ k - Len(pushed) = 1
      BY <2>1, <3>1
    <3> QED
      BY <2>1, <3>1, <3>2, <3>3
  <2> HIDE DEF a
  <2>3. b \in Seq(1 .. N) /\ k <= Len(b) /\ b[k] = hand[1]
    BY <1>2, <2>1, <2>2, ConcatProperties, LenProperties
  <2> HIDE DEF b
  <2>4. c \in Seq(1 .. N) /\ k <= Len(c) /\ c[k] = hand[1]
    BY <1>2, <2>1, <2>3, ConcatProperties, LenProperties
  <2> HIDE DEF c
  <2>5. d \in Seq(1 .. N) /\ k <= Len(d) /\ d[k] = hand[1]
    BY <1>2, <2>1, <2>4, ConcatProperties, LenProperties
  <2>6. d = PP!Flow(pushed, hand, channel, batch, wire)
    BY DEF PP!Flow, a, b, c
  <2>7. PP!Rising(d, arrived)
    BY <2>6 DEF PP!IInv
  <2> HIDE DEF d
  <2>8. k \in 1 .. Len(d)
    BY <2>1, <2>5, LenProperties
  <2>9. d[k] <= arrived
    BY <2>7, <2>8 DEF PP!Rising
  <2> QED
    BY <1>2, <2>1, <2>5, <2>9, ListenAssumption
<1>5. worker = "unborn" <=> caller = "spawning"
  BY <1>1 DEF PP!Control
<1> QED
  BY <1>2, <1>3, <1>4, <1>5

-----------------------------------------------------------------------------
(* One step of the command *)

(* The command starts with its invariant.                                   *)
LEMMA InitLInv == ListenInit => LInv
<1> SUFFICES ASSUME ListenInit PROVE LInv
  OBVIOUS
<1>1. PP!IInv
  <2>1. PP!Init
    BY DEF ListenInit, P!Init, PP!Init
  <2> QED
    BY <2>1, PipelineConstants, PP!InitIInv
<1>2. /\ Init /\ content = <<>> /\ stats = [c \in ListenCounter |-> 0] /\ adding = {}
      /\ main = "spawn" /\ snap = <<>> /\ began = 0
      /\ arrived = 0 /\ worker = "unborn" /\ pushed = <<>> /\ produced = <<>>
      /\ sink_open = TRUE /\ pulled = <<>>
  BY DEF ListenInit, P!Init
<1>3. panicked = FALSE /\ DOMAIN slots = {}
  BY <1>2 DEF Init
<1>4. WorkerInv
  BY <1>2, <1>3, EmptySeq DEF WorkerInv, SlotsSound
<1>5. CounterInv
  <2>1. \A c \in ListenCounter : stats[c] = 0 /\ DueIn(adding, c) = 0 /\ Total(c) = 0
    BY <1>2, NoneDue DEF Total
  <2>2. {"packets", "duplicates", "batches", "block_markers", "decode_errors"}
          \subseteq ListenCounter
    BY DEF ListenCounter, Counter
  <2>3. UpdatesSound(adding) /\ stats \in [ListenCounter -> Nat] /\ Len(pushed) = 0 /\ Len(produced) = 0
    BY <1>2, EmptySeq DEF UpdatesSound
  <2> QED
    BY <1>3, <2>1, <2>2, <2>3 DEF CounterInv
<1>6. SnapInv
  BY <1>2, EmptySeq, ListenAssumption, LenProperties DEF SnapInv
<1> QED
  BY <1>1, <1>4, <1>5, <1>6 DEF LInv

(* Deshredder::push in the worker: the datagram in its hand is one that     *)
(* arrived, and what the core counts fits what the pipeline queues.         *)
LEMMA WorkerPushes ==
  ASSUME PP!IInv, WorkerInv, WorkerPush
  PROVE  /\ content[hand[1]] \in Packet /\ Push(content[hand[1]])
         /\ adding = {} /\ panicked = FALSE /\ adding' = Updates(tally', out')
         /\ UNCHANGED <<content, arrived, dropped, taken, sink_open, pulled, stats, main, snap, began>>
         /\ panicked' =>
              worker' = "panicked" /\ UNCHANGED <<pushed, produced>>
         /\ ~panicked' =>
              /\ worker' = "sink" /\ pushed' = pushed \o hand
              /\ Len(pushed') = Len(pushed) + 1
              /\ Len(produced') = Len(produced) + Cardinality(Decoded(out', "entries"))
         /\ Len(pushed) + 1 + dropped <= taken
<1>1. /\ worker = "push" /\ Push(content[hand[1]])
      /\ adding' = Updates(tally', out')
      /\ UNCHANGED <<content, stats, mainVars>>
  BY DEF WorkerPush
<1>2. /\ arrived \in Nat /\ dropped \in Nat /\ taken \in Nat
      /\ pushed \in Seq(1 .. N) /\ hand \in Seq(1 .. N)
      /\ produced \in Seq((1 .. N) \X (1 .. MaxOut))
      /\ Len(hand) = 1 /\ hand[1] \in 1 .. arrived
      /\ Len(pushed) + Len(hand) + dropped <= taken
  BY <1>1, PipelineFacts
<1>3. content[hand[1]] \in Packet
  BY <1>2, ElementOfSeq DEF WorkerInv
<1>4. adding = {} /\ panicked = FALSE
  BY <1>1 DEF WorkerInv
<1>5. ASSUME panicked'
      PROVE  /\ worker' = "panicked" /\ UNCHANGED <<pushed, produced>>
             /\ UNCHANGED <<arrived, dropped, taken, sink_open, pulled>>
  <2>1. P!Panic
    BY <1>5 DEF WorkerPush
  <2> QED
    BY <2>1 DEF P!Panic, P!netVars, P!receiverVars, P!sinkVars
<1>6. ASSUME ~panicked'
      PROVE  /\ worker' = "sink" /\ pushed' = pushed \o hand
             /\ Len(pushed') = Len(pushed) + 1
             /\ Len(produced') = Len(produced) + Cardinality(Decoded(out', "entries"))
             /\ UNCHANGED <<arrived, dropped, taken, sink_open, pulled>>
  <2>1. P!Push /\ Len(queue') = Cardinality(Decoded(out', "entries"))
    BY <1>6 DEF WorkerPush
  <2>2. /\ worker' = "sink" /\ pushed' = pushed \o hand
        /\ produced' = produced \o queue'
        /\ UNCHANGED <<arrived, dropped, taken, sink_open, pulled>>
    BY <2>1 DEF P!Push, P!netVars, P!receiverVars, P!sinkVars
  <2>3. Len(pushed') = Len(pushed) + 1
    <3>1. Len(pushed \o hand) = Len(pushed) + Len(hand)
      BY <1>2, ConcatProperties
    <3> QED
      BY <1>2, <2>2, <3>1
  <2>4. queue' \in Seq((1 .. N) \X (1 .. MaxOut))
    <3>1. PICK n \in 0 .. MaxOut : queue' = [j \in 1 .. n |-> <<hand[1], j>>]
      BY <2>1 DEF P!Push
    <3>2. hand[1] \in 1 .. N
      <4>1. 1 \in 1 .. Len(hand)
        BY <1>2
      <4> QED
        BY <1>2, <4>1, ElementOfSeq
    <3>3. n \in Nat /\ \A j \in 1 .. n : <<hand[1], j>> \in (1 .. N) \X (1 .. MaxOut)
      BY <3>2, ListenAssumption
    <3> QED
      BY <3>1, <3>3, IsASeq
  <2>5. Len(produced') = Len(produced) + Len(queue')
    BY <1>2, <2>2, <2>4, ConcatProperties
  <2> QED
    BY <2>1, <2>2, <2>3, <2>5
<1> QED
  BY <1>1, <1>2, <1>3, <1>4, <1>5, <1>6 DEF mainVars

(* What the steps outside Deshredder::push leave alone.                     *)
LEMMA OtherSteps ==
  ASSUME [ListenNext]_listenVars, ~WorkerPush
  PROVE  UNCHANGED <<vars, pushed, produced, sink_open, pulled>>
<1> USE DEF P!netVars, P!receiverVars, P!workerVars, P!sinkVars, P!callerVars
<1>1. CASE Datagrams
  BY <1>1 DEF Datagrams, P!Arrive
<1>2. CASE Receive
  BY <1>2 DEF Receive, P!ReceiverStep, P!CheckStop, P!RecvBatch, P!RecvNothing,
    P!Sent, P!Full, P!Disconnected, P!BatchSent
<1>3. CASE UpdateCounter
  BY <1>3 DEF UpdateCounter, pipelineVars
<1>4. CASE WorkerLoop
  BY <1>4 DEF WorkerLoop, P!Take, P!Finish, P!OnBatch, P!BatchesSunk
<1>5. CASE Spawn
  BY <1>5 DEF Spawn, P!SpawnWorker
<1>6. CASE StartStats \/ Load \/ PrintStats
  BY <1>6 DEF StartStats, Load, PrintStats, pipelineVars
<1>7. CASE Exit
  BY <1>7 DEF Exit, P!Shutdown, P!Join, P!JoinReceiver, P!JoinWorker
<1>8. CASE UNCHANGED listenVars
  BY <1>8 DEF listenVars, pipelineVars
<1> QED
  BY <1>1, <1>2, <1>3, <1>4, <1>5, <1>6, <1>7, <1>8 DEF ListenNext, Work, MainStep

(* Each step keeps the relation of worker, core and datagrams.              *)
LEMMA StepWorker ==
  ASSUME PP!IInv, WorkerInv, [ListenNext]_listenVars
  PROVE  WorkerInv'
<1>0. /\ arrived \in Nat /\ dropped \in Nat /\ taken \in Nat /\ pushed \in Seq(1 .. N)
      /\ Len(pushed) \in Nat /\ hand \in Seq(1 .. N)
      /\ worker = "unborn" <=> caller = "spawning"
  BY PipelineFacts, LenProperties
<1>1. CASE WorkerPush
  <2>1. /\ SlotsSound' /\ panicked' \in BOOLEAN
    BY <1>1, WorkerPushes, PushCounts DEF WorkerInv
  <2>2. pushed' = <<>> /\ ~panicked' => DOMAIN slots' = {}
    <3>1. ~panicked' => Len(pushed') # 0
      BY <1>0, <1>1, WorkerPushes
    <3> QED
      BY <3>1, EmptySeq
  <2>3. /\ content' \in Seq(Packet) /\ Len(content') = arrived'
        /\ sink_open' = TRUE /\ pulled' = <<>>
    BY <1>1, WorkerPushes DEF WorkerInv
  <2>4. /\ worker' = IF panicked' THEN "panicked" ELSE "sink"
        /\ panicked' => Len(pushed') + 1 + dropped' <= taken'
    BY <1>1, WorkerPushes
  <2> QED
    BY <2>1, <2>2, <2>3, <2>4 DEF WorkerInv
<1>2. CASE ~WorkerPush
  <2>1. UNCHANGED <<vars, pushed, produced, sink_open, pulled>>
    BY <1>2, OtherSteps
  <2>2. /\ panicked' \in BOOLEAN /\ SlotsSound' /\ sink_open' = TRUE /\ pulled' = <<>>
        /\ pushed' = <<>> /\ ~panicked' => DOMAIN slots' = {}
    BY <2>1 DEF vars, WorkerInv, SlotsSound
  <2>3. content' \in Seq(Packet) /\ Len(content') = arrived'
    <3>1. CASE Datagrams
      <4>1. PICK p \in Packet : content' = Append(content, p)
        BY <3>1 DEF Datagrams
      <4>2. arrived' = arrived + 1
        BY <3>1 DEF Datagrams, P!Arrive
      <4> QED
        BY <1>0, <4>1, <4>2, AppendProperties DEF WorkerInv
    <3>2. CASE ~Datagrams
      <4>1. content' = content /\ arrived' = arrived
        BY <1>2, <3>2
          DEF ListenNext, Work, MainStep, Receive, UpdateCounter, WorkerLoop, Spawn,
              StartStats, Load, PrintStats, Exit, listenVars, pipelineVars,
              P!ReceiverStep, P!CheckStop, P!RecvBatch, P!RecvNothing, P!Sent, P!Full,
              P!Disconnected, P!BatchSent, P!Take, P!Finish, P!OnBatch, P!BatchesSunk,
              P!SpawnWorker, P!Shutdown, P!Join, P!JoinReceiver, P!JoinWorker, P!netVars
      <4> QED
        BY <4>1 DEF WorkerInv
    <3> QED
      BY <3>1, <3>2
  <2>4. /\ adding' # {} => worker' \in {"sink", "panicked"}
        /\ (panicked' <=> worker' = "panicked") /\ worker' # "never"
        /\ panicked' => Len(pushed') + 1 + dropped' <= taken'
    <3>1. panicked' = panicked /\ pushed' = pushed
      BY <2>1 DEF vars
    <3>2. CASE Receive
      <4>1. adding' = adding /\ worker' = worker
        BY <3>2 DEF Receive, P!ReceiverStep, P!CheckStop, P!RecvBatch, P!RecvNothing, P!Sent,
          P!Full, P!Disconnected, P!BatchSent, P!workerVars
      <4>2. worker = "panicked" => dropped' = dropped /\ taken' \in Nat /\ taken <= taken'
        <5>1. CASE P!RecvBatch
          BY <1>0, <5>1, ListenAssumption DEF P!RecvBatch
        <5>2. CASE P!Full
          BY <5>2 DEF P!Full, P!Connected
        <5>3. CASE P!CheckStop \/ P!RecvNothing \/ P!Sent \/ P!Disconnected \/ P!BatchSent
          <6>1. dropped' = dropped /\ taken' = taken
            BY <5>3 DEF P!CheckStop, P!RecvNothing, P!Sent, P!Disconnected, P!BatchSent
          <6> QED
            BY <1>0, <6>1
        <5> QED
          BY <3>2, <5>1, <5>2, <5>3 DEF Receive, P!ReceiverStep
      <4> QED
        BY <1>0, <3>1, <4>1, <4>2 DEF WorkerInv
    <3>3. CASE WorkerLoop
      <4>1. /\ adding' = {} /\ dropped' = dropped /\ taken' = taken
            /\ worker # "panicked" /\ worker' \notin {"panicked", "never"}
        BY <3>3 DEF WorkerLoop, P!Take, P!Finish, P!OnBatch, P!BatchesSunk, P!receiverVars
      <4> QED
        BY <3>1, <4>1 DEF WorkerInv
    <3>4. CASE Spawn
      <4>1. /\ caller = "spawning" /\ worker' = "take" /\ adding' = adding
        BY <3>4 DEF Spawn, P!SpawnWorker
      <4>2. worker = "unborn"
        BY <1>0, <4>1
      <4> QED
        BY <3>1, <4>1, <4>2 DEF WorkerInv
    <3>5. CASE Datagrams \/ UpdateCounter \/ StartStats \/ Load \/ PrintStats \/ Exit
               \/ UNCHANGED listenVars
      <4>1. dropped' = dropped /\ taken' = taken /\ worker' = worker
        BY <3>5 DEF Datagrams, UpdateCounter, StartStats, Load, PrintStats, Exit, listenVars,
          pipelineVars, P!Arrive, P!Shutdown, P!Join, P!JoinReceiver, P!JoinWorker,
          P!receiverVars, P!workerVars
      <4>2. adding' \subseteq adding
        BY <3>5 DEF Datagrams, UpdateCounter, StartStats, Load, PrintStats, Exit, listenVars
      <4> QED
        BY <3>1, <4>1, <4>2 DEF WorkerInv
    <3> QED
      BY <1>2, <3>2, <3>3, <3>4, <3>5 DEF ListenNext, Work, MainStep
  <2> QED
    BY <2>2, <2>3, <2>4 DEF WorkerInv
<1> QED
  BY <1>1, <1>2

(* Each step keeps the sums of the counters, and no counter ever shrinks.   *)
LEMMA StepCounter ==
  ASSUME PP!IInv, WorkerInv, CounterInv, [ListenNext]_listenVars
  PROVE  /\ CounterInv' /\ \A c \in ListenCounter : stats[c] <= stats'[c]
         /\ Total("batches")' = Total("batches") + (IF WorkerPush THEN Cardinality(out') ELSE 0)
<1>0. /\ stats \in [ListenCounter -> Nat] /\ UpdatesSound(adding)
      /\ Len(pushed) \in Nat /\ Len(produced) \in Nat
      /\ \A c \in ListenCounter : stats[c] \in Nat
  BY PipelineFacts, LenProperties DEF CounterInv
<1> DEFINE Followed == {"packets", "duplicates", "batches", "block_markers", "decode_errors"}
<1>1. Followed \subseteq ListenCounter
  BY DEF ListenCounter, Counter
<1>2. CASE WorkerPush
  <2> DEFINE p == content[hand[1]]
             due(c) == DueIn(adding', c)
  <2>1. /\ p \in Packet /\ Push(p) /\ adding = {} /\ panicked = FALSE
        /\ adding' = Updates(tally', out') /\ stats' = stats
    BY <1>2, WorkerPushes
  <2>2. /\ panicked' \in BOOLEAN
        /\ panicked' => out' = {} /\ tally'["duplicates"] = 0
        /\ tally' \in [Counter -> Nat]
        /\ tally'["packets"] = 1
        /\ tally'["duplicates"] \in {0, 1}
        /\ DOMAIN slots = {} => tally'["duplicates"] = 0
        /\ IsFiniteSet(out') /\ tally'["batches"] = Cardinality(out')
    BY <2>1, PushCounts DEF WorkerInv
  <2>3. /\ UpdatesSound(adding')
        /\ \A c \in Counter : due(c) = tally'[c]
        /\ \A c \in ListenCounter \ Counter : due(c) = Cardinality(Decoded(out', c))
    BY <2>1, <2>2, DueAfterPush
  <2>4. /\ due("packets") = 1 /\ due("duplicates") = tally'["duplicates"]
        /\ due("batches") = Cardinality(out')
        /\ due("block_markers") = Cardinality(Decoded(out', "block_markers"))
        /\ due("decode_errors") = Cardinality(Decoded(out', "decode_errors"))
    BY <2>2, <2>3 DEF ListenCounter, Counter
  <2>5. \A c : DueIn(adding, c) = 0
    BY <2>1, NoneDue
  <2>6. /\ stats["packets"] = Len(pushed)
        /\ stats["duplicates"] = 0 \/ stats["duplicates"] < Len(pushed)
        /\ stats["batches"] = Len(produced) + stats["block_markers"] + stats["decode_errors"]
    <3>1. \A c \in Followed : Total(c) = stats[c]
      BY <1>0, <1>1, <2>5 DEF Total
    <3> QED
      BY <1>0, <2>1, <3>1 DEF CounterInv
  <2>7. Total("packets")' = Len(pushed') + (IF panicked' THEN 1 ELSE 0)
    BY <1>0, <1>2, <2>1, <2>4, <2>6, WorkerPushes DEF Total
  <2>8. Total("duplicates")' = 0 \/ Total("duplicates")' < Len(pushed')
    <3>1. Total("duplicates")' = stats["duplicates"] + tally'["duplicates"]
      BY <2>1, <2>4 DEF Total
    <3>2. stats["duplicates"] \in Nat
      BY <1>0, <1>1
    <3>3. CASE panicked'
      BY <1>2, <2>2, <2>6, <3>1, <3>2, <3>3, WorkerPushes
    <3>4. CASE ~panicked' /\ pushed = <<>>
      <4>1. tally'["duplicates"] = 0 /\ Len(pushed) = 0
        BY <2>1, <2>2, <3>4, EmptySeq DEF WorkerInv
      <4> QED
        BY <2>6, <3>1, <3>2, <4>1
    <3>5. CASE ~panicked' /\ pushed # <<>>
      <4>1. Len(pushed) >= 1
        BY <1>0, <3>5, PipelineFacts, EmptySeq
      <4>2. Len(pushed') = Len(pushed) + 1
        BY <1>2, <3>5, WorkerPushes
      <4> QED
        BY <1>0, <2>2, <2>6, <3>1, <3>2, <4>1, <4>2
    <3> QED
      BY <3>3, <3>4, <3>5
  <2>9. Total("batches")' = Len(produced') + Total("block_markers")' + Total("decode_errors")'
    <3> DEFINE e == Cardinality(Decoded(out', "entries"))
               m == Cardinality(Decoded(out', "block_markers"))
               d == Cardinality(Decoded(out', "decode_errors"))
    <3>1. Cardinality(out') = e + m + d
      BY <2>2, DecodedParts
    <3>2. e \in Nat /\ m \in Nat /\ d \in Nat
      BY <2>2, FS_Subset, FS_CardinalityType DEF Decoded
    <3>3. panicked' => e = 0
      <4>1. panicked' => Decoded(out', "entries") = {}
        BY <2>2 DEF Decoded
      <4> QED
        BY <4>1, FS_EmptySet
    <3>4. Len(produced') = Len(produced) + e
      BY <1>0, <1>2, <3>3, WorkerPushes
    <3>5. /\ Total("batches")' = stats["batches"] + Cardinality(out')
          /\ Total("block_markers")' = stats["block_markers"] + m
          /\ Total("decode_errors")' = stats["decode_errors"] + d
      BY <2>1, <2>4 DEF Total
    <3>6. stats["block_markers"] \in Nat /\ stats["decode_errors"] \in Nat
      BY <1>0, <1>1
    <3> HIDE DEF e, m, d
    <3> QED
      BY <1>0, <2>6, <3>1, <3>2, <3>4, <3>5, <3>6
  <2>10. CounterInv'
    BY <1>0, <2>1, <2>3, <2>4, <2>7, <2>8, <2>9 DEF CounterInv
  <2>11. Total("batches")' = Total("batches") + Cardinality(out')
    <3>1. Total("batches")' = stats["batches"] + Cardinality(out')
      BY <2>1, <2>4 DEF Total
    <3>2. Total("batches") = stats["batches"] + 0 /\ stats["batches"] \in Nat
      BY <1>0, <1>1, <2>5 DEF Total
    <3> QED
      BY <3>1, <3>2
  <2> QED
    BY <1>0, <1>2, <2>1, <2>10, <2>11
<1>3. CASE ~WorkerPush
  <2>0. Total("batches") \in Nat
    <3>1. stats["batches"] \in Nat /\ DueIn(adding, "batches") \in Nat
      BY <1>0, <1>1, DueOf
    <3> QED
      BY <3>1 DEF Total
  <2>1. panicked' = panicked /\ pushed' = pushed /\ produced' = produced
    BY <1>3, OtherSteps DEF vars
  <2>2. CASE UpdateCounter
    <3>1. PICK u \in adding :
            stats' = [stats EXCEPT ![u[1]] = @ + u[2]] /\ adding' = adding \ {u}
      BY <2>2 DEF UpdateCounter
    <3>2. u[1] \in ListenCounter /\ u[2] \in Nat \ {0}
      BY <1>0 DEF UpdatesSound
    <3>3. /\ stats' \in [ListenCounter -> Nat]
          /\ stats'[u[1]] = stats[u[1]] + u[2]
          /\ \A c \in ListenCounter : c # u[1] => stats'[c] = stats[c]
      BY <1>0, <3>1, <3>2
    <3>4. /\ UpdatesSound(adding')
          /\ DueIn(adding', u[1]) = 0 /\ DueIn(adding, u[1]) = u[2]
          /\ \A c : c # u[1] => DueIn(adding', c) = DueIn(adding, c)
      BY <1>0, <3>1, OneVisible
    <3>5. \A c \in ListenCounter : Total(c)' = Total(c)
      <4> SUFFICES ASSUME NEW c \in ListenCounter
                   PROVE  stats'[c] + DueIn(adding', c) = stats[c] + DueIn(adding, c)
        BY DEF Total
      <4>1. stats[u[1]] \in Nat
        BY <1>0, <3>2
      <4> QED
        BY <3>2, <3>3, <3>4, <4>1
    <3>6. DueIn(adding', "packets") <= 1
      BY <3>4 DEF CounterInv
    <3>7. /\ Total("packets")' = Total("packets")
          /\ Total("duplicates")' = Total("duplicates")
          /\ Total("batches")' = Total("batches")
          /\ Total("block_markers")' = Total("block_markers")
          /\ Total("decode_errors")' = Total("decode_errors")
      BY <1>1, <3>5
    <3>8. CounterInv'
      BY <2>1, <3>3, <3>4, <3>6, <3>7 DEF CounterInv
    <3>9. \A c \in ListenCounter : stats[c] <= stats'[c]
      BY <1>0, <3>2, <3>3
    <3> QED
      BY <1>3, <2>0, <3>7, <3>8, <3>9
  <2>3. CASE ~UpdateCounter
    <3>1. stats' = stats /\ adding' = adding
      BY <1>3, <2>3 DEF ListenNext, Work, MainStep, Datagrams, Receive, WorkerLoop, Spawn,
        StartStats, Load, PrintStats, Exit, listenVars
    <3>2. CounterInv'
      BY <2>1, <3>1 DEF CounterInv, Total
    <3>3. Total("batches")' = Total("batches")
      BY <3>1 DEF Total
    <3> QED
      BY <1>0, <1>3, <2>0, <3>1, <3>2, <3>3
  <2> QED
    BY <2>2, <2>3
<1> QED
  BY <1>2, <1>3

(* All packets are counted but, at times, that of the last push.            *)
LEMMA PacketsCounted ==
  ASSUME PP!IInv, WorkerInv, CounterInv
  PROVE  Len(pushed) <= stats["packets"] + 1
<1>1. stats["packets"] \in Nat /\ Len(pushed) \in Nat
  BY PipelineFacts, LenProperties DEF CounterInv, ListenCounter, Counter
<1>2. DueIn(adding, "packets") \in Nat
  BY DueOf DEF CounterInv
<1> QED
  BY <1>1, <1>2 DEF CounterInv, Total

(* Each step keeps what is known of the snapshot under way.                 *)
LEMMA StepSnap ==
  ASSUME LInv, [ListenNext]_listenVars
  PROVE  SnapInv'
<1>0. /\ PP!IInv /\ WorkerInv /\ CounterInv /\ SnapInv
      /\ stats \in [ListenCounter -> Nat] /\ stats' \in [ListenCounter -> Nat]
      /\ \A c \in ListenCounter : stats[c] <= stats'[c]
      /\ Len(pushed) \in Nat
      /\ Fields \in Seq(ListenCounter) /\ Len(Fields) \in Nat
      /\ \A i \in 1 .. Len(Fields) : Fields[i] \in ListenCounter
      /\ snap \in Seq(Nat) /\ Len(snap) \in Nat /\ Len(snap) <= Len(Fields)
  BY StepCounter, PipelineFacts, LenProperties, ElementOfSeq, ListenAssumption
    DEF LInv, CounterInv, SnapInv
<1>1. "packets" \in ListenCounter
  BY DEF ListenCounter, Counter
<1>2. Len(pushed') \in Nat /\ Len(pushed) <= Len(pushed')
  <2>1. CASE WorkerPush
    <3>1. Len(pushed') = Len(pushed) \/ Len(pushed') = Len(pushed) + 1
      BY <1>0, <2>1, WorkerPushes
    <3> QED
      BY <1>0, <3>1
  <2>2. CASE ~WorkerPush
    BY <1>0, <2>2, OtherSteps
  <2> QED
    BY <2>1, <2>2
<1>3. CASE StartStats
  <2>1. main' = "stats" /\ snap' = <<>> /\ began' = Len(pushed) /\ stats' = stats /\ pushed' = pushed
    BY <1>3 DEF StartStats, pipelineVars
  <2>2. Len(pushed) <= stats["packets"] + 1
    BY <1>0, PacketsCounted
  <2> QED
    BY <1>0, <2>1, <2>2, EmptySeq DEF SnapInv
<1>4. CASE Load
  <2> DEFINE k == Len(snap) + 1
             x == stats[Fields[k]]
  <2>1. /\ main = "stats" /\ main' = main /\ began' = began /\ stats' = stats /\ pushed' = pushed
        /\ snap' = Append(snap, x) /\ Len(snap) < Len(Fields)
    BY <1>4 DEF Load, pipelineVars
  <2>2. k \in 1 .. Len(Fields) /\ Fields[k] \in ListenCounter /\ x \in Nat
    BY <1>0, <2>1
  <2> HIDE DEF x
  <2>3. /\ snap' \in Seq(Nat) /\ Len(snap') = k /\ snap'[k] = x
        /\ \A i \in 1 .. Len(snap) : snap'[i] = snap[i]
    BY <1>0, <2>1, <2>2, AppendProperties
  <2>4. /\ began \in Nat /\ began <= Len(pushed) /\ began <= stats["packets"] + 1
        /\ \A i \in 1 .. Len(snap) :
             /\ snap[i] <= stats[Fields[i]]
             /\ Fields[i] = "packets" => began <= snap[i] + 1
    BY <1>0, <2>1 DEF SnapInv
  <2>5. ASSUME NEW i \in 1 .. Len(snap')
        PROVE  /\ snap'[i] <= stats[Fields[i]]
               /\ Fields[i] = "packets" => began <= snap'[i] + 1
    <3>1. CASE i = k
      <4>1. snap'[i] = x /\ stats[Fields[i]] = x
        BY <2>3, <3>1 DEF x
      <4> QED
        BY <2>2, <2>4, <4>1
    <3>2. CASE i # k
      <4>1. i \in 1 .. Len(snap)
        BY <1>0, <2>3, <3>2
      <4> QED
        BY <2>3, <2>4, <4>1
    <3> QED
      BY <3>1, <3>2
  <2>6. Len(snap') <= Len(Fields)
    BY <2>2, <2>3
  <2> QED
    BY <2>1, <2>3, <2>4, <2>5, <2>6 DEF SnapInv
<1>5. CASE PrintStats \/ Spawn
  <2>1. main' # "stats" /\ snap' = <<>>
    BY <1>0, <1>5 DEF PrintStats, Spawn, SnapInv
  <2> QED
    BY <1>0, <2>1, EmptySeq DEF SnapInv
<1>6. CASE UNCHANGED mainVars
  <2>1. main' = main /\ snap' = snap /\ began' = began
    BY <1>6 DEF mainVars
  <2>2. CASE main # "stats"
    BY <1>0, <2>1, <2>2 DEF SnapInv
  <2>3. CASE main = "stats"
    <3>1. /\ began \in Nat /\ began <= Len(pushed) /\ began <= stats["packets"] + 1
          /\ \A i \in 1 .. Len(snap) :
               /\ snap[i] <= stats[Fields[i]]
               /\ Fields[i] = "packets" => began <= snap[i] + 1
      BY <1>0, <2>3 DEF SnapInv
    <3>2. began <= Len(pushed') /\ began <= stats'["packets"] + 1
      <4>1. /\ stats["packets"] \in Nat /\ stats'["packets"] \in Nat
            /\ stats["packets"] <= stats'["packets"]
        BY <1>0, <1>1
      <4> QED
        BY <1>0, <1>2, <3>1, <4>1
    <3>3. ASSUME NEW i \in 1 .. Len(snap) PROVE snap[i] <= stats'[Fields[i]]
      <4>1. Fields[i] \in ListenCounter /\ snap[i] \in Nat
        BY <1>0, ElementOfSeq
      <4>2. /\ stats[Fields[i]] \in Nat /\ stats'[Fields[i]] \in Nat
            /\ stats[Fields[i]] <= stats'[Fields[i]]
        BY <1>0, <4>1
      <4>3. snap[i] <= stats[Fields[i]]
        BY <3>1
      <4> QED
        BY <4>1, <4>2, <4>3
    <3> QED
      BY <1>0, <2>1, <2>3, <3>1, <3>2, <3>3 DEF SnapInv
  <2> QED
    BY <2>2, <2>3
<1> QED
  BY <1>3, <1>4, <1>5, <1>6 DEF ListenNext, Work, MainStep, Datagrams, Receive, WorkerPush,
    UpdateCounter, WorkerLoop, Exit, listenVars

(* The invariant holds in every reachable state of the command.             *)
LEMMA ListenLInv == ListenSpec => []LInv
<1>1. LInv /\ [ListenNext]_listenVars => LInv'
  <2> SUFFICES ASSUME LInv, [ListenNext]_listenVars PROVE LInv'
    OBVIOUS
  <2>1. PP!IInv'
    <3>1. PP!IInv /\ [PP!Next]_(PP!vars)
      BY StepsPipeline DEF LInv
    <3> QED
      BY <3>1, PipelineConstants, PP!NextIInv
  <2> QED
    BY <2>1, StepWorker, StepCounter, StepSnap DEF LInv
<1> QED
  BY <1>1, InitLInv, PTL DEF ListenSpec

-----------------------------------------------------------------------------
(* The results *)

(* The worker of the command runs Deshredder::push_raw on datagrams that    *)
(* arrived and nothing else touches the core: the command implements        *)
(* Deshredder, so everything proved of Deshredder holds in it.              *)
THEOREM ListenRunsTheCore == ListenSpec => Spec
<1>1. ListenInit => Init
  BY DEF ListenInit
<1>2. LInv /\ [ListenNext]_listenVars => [Next]_vars
  <2> SUFFICES ASSUME LInv, [ListenNext]_listenVars PROVE [Next]_vars
    OBVIOUS
  <2>1. CASE WorkerPush
    <3>1. content[hand[1]] \in Packet /\ Push(content[hand[1]])
      BY <2>1, WorkerPushes DEF LInv
    <3> QED
      BY <3>1 DEF Next
  <2>2. CASE ~WorkerPush
    BY <2>2, OtherSteps
  <2> QED
    BY <2>1, <2>2
<1> QED
  BY <1>1, <1>2, ListenLInv, PTL DEF ListenSpec, Spec

(* The threads of the command are those of the pipeline, and keep its       *)
(* invariant: datagrams are pushed in order, accounted for and their        *)
(* batches printed.                                                         *)
THEOREM ListenRunsThePipeline ==
  ListenSpec => /\ PP!Init /\ [][PP!Next]_(PP!vars)
                /\ [](PP!TypeOK /\ PP!InOrder /\ PP!Balance /\ PP!SinkFlow)
<1>1. ListenInit => PP!Init
  BY DEF ListenInit, P!Init, PP!Init
<1>2. [ListenNext]_listenVars => [PP!Next]_(PP!vars)
  BY StepsPipeline
<1>3. LInv => PP!TypeOK /\ PP!InOrder /\ PP!Balance /\ PP!SinkFlow
  BY DEF LInv, PP!IInv, PP!InOrder, PP!Rising, PP!Flow
<1> QED
  BY <1>1, <1>2, <1>3, ListenLInv, PTL DEF ListenSpec

(* As many distinct runs were handed out as are counted.                    *)
RunsInv == IsFiniteSet(AllHanded) /\ Total("batches") = Cardinality(AllHanded)

(* A push hands out as many new runs as it counts.                          *)
LEMMA PushHands ==
  ASSUME IInv', ExactlyOnce', IsFiniteSet(AllHanded), IsFiniteSet(out'),
         NEW p \in Packet, Push(p)
  PROVE  /\ IsFiniteSet(AllHanded')
         /\ Cardinality(AllHanded') = Cardinality(AllHanded) + Cardinality(out')
<1>1. emitted' = AllHanded
  BY DEF Push, PushInvalid, PushWrongVersion, PushStale, PushPanics, PushShred, Ignore, Hand,
    AllHanded
<1>2. PICK new, raws : new = Handed(out') /\ raws = out'
  OBVIOUS
<1>3. AllHanded' = AllHanded \cup new
  BY <1>1, <1>2 DEF AllHanded, Handed
<1>4. \A b \in raws : /\ b.start \in Nat /\ b.end \in Nat /\ b.start <= b.end
                      /\ <<b.slot, b.start, b.end>> \in new
  <2> SUFFICES ASSUME NEW b \in raws
               PROVE  /\ b.start \in Nat /\ b.end \in Nat /\ b.start <= b.end
                      /\ <<b.slot, b.start, b.end>> \in new
    OBVIOUS
  <2>1. <<b.slot, b.start, b.end>> \in new
    BY <1>2 DEF Handed
  <2>2. PICK r : r = <<b.slot, b.start, b.end>>
    OBVIOUS
  <2>3. r \in SlotNumber \X Index \X Index /\ r[2] <= r[3]
    BY <1>3, <2>1, <2>2 DEF IInv, HandedInv
  <2>4. b.start \in Index /\ b.end \in Index /\ b.start <= b.end
    BY <2>2, <2>3
  <2> QED
    BY <2>1, <2>4 DEF Index
<1>5. \A b, c \in raws : b # c => b.end < c.start \/ c.end < b.start
  BY <1>2 DEF ExactlyOnce
<1>6. \A b \in raws, r \in AllHanded : b.slot = r[1] => b.end < r[2] \/ r[3] < b.start
  BY <1>1, <1>2 DEF ExactlyOnce
<1> DEFINE name == [b \in raws |-> <<b.slot, b.start, b.end>>]
<1>7. \A b, c \in raws : name[b] = name[c] => b = c
  <2> SUFFICES ASSUME NEW b \in raws, NEW c \in raws, name[b] = name[c], b # c PROVE FALSE
    OBVIOUS
  <2>1. b.start = c.start /\ b.end = c.end
    OBVIOUS
  <2> QED
    BY <1>4, <1>5, <2>1
<1>8. new = {name[b] : b \in raws}
  BY <1>2 DEF Handed
<1>9. name \in Surjection(raws, new) /\ name \in Injection(raws, new)
  BY <1>7, <1>8 DEF Surjection, Injection, IsInjective
<1>10. AllHanded \cap new = {}
  <2> SUFFICES ASSUME NEW b \in raws, NEW r \in AllHanded, r = <<b.slot, b.start, b.end>>
               PROVE  FALSE
    BY <1>2 DEF Handed
  <2>1. b.slot = r[1] /\ b.start = r[2] /\ b.end = r[3]
    OBVIOUS
  <2> QED
    BY <1>4, <1>6, <2>1
<1> HIDE DEF name
<1>11. IsFiniteSet(new) /\ Cardinality(new) = Cardinality(raws)
  BY <1>2, <1>9, FS_Surjection
<1>12. /\ IsFiniteSet(AllHanded \cup new)
       /\ Cardinality(AllHanded \cup new) =
            Cardinality(AllHanded) + Cardinality(new) - Cardinality(AllHanded \cap new)
  BY <1>11, FS_Union
<1>13. Cardinality(AllHanded \cap new) = 0 /\ Cardinality(AllHanded) \in Nat /\ Cardinality(new) \in Nat
  BY <1>10, <1>11, FS_EmptySet, FS_CardinalityType
<1> QED
  BY <1>2, <1>3, <1>11, <1>12, <1>13

(* Every step keeps the count.                                              *)
LEMMA StepRuns ==
  ASSUME LInv, IInv', ExactlyOnce', RunsInv, [ListenNext]_listenVars
  PROVE  RunsInv'
<1>1. Total("batches")' = Total("batches") + (IF WorkerPush THEN Cardinality(out') ELSE 0)
  BY StepCounter DEF LInv
<1>2. CASE WorkerPush
  <2>1. PICK p \in Packet : Push(p)
    BY <1>2, WorkerPushes DEF LInv
  <2>2. IsFiniteSet(out')
    BY <2>1, PushCounts DEF LInv, WorkerInv
  <2>3. /\ IsFiniteSet(AllHanded')
        /\ Cardinality(AllHanded') = Cardinality(AllHanded) + Cardinality(out')
    BY <2>1, <2>2, PushHands DEF RunsInv
  <2> QED
    BY <1>1, <1>2, <2>3 DEF RunsInv
<1>3. CASE ~WorkerPush
  <2>1. AllHanded' = AllHanded
    BY <1>3, OtherSteps DEF vars, AllHanded
  <2>2. Cardinality(AllHanded) \in Nat
    BY FS_CardinalityType DEF RunsInv
  <2> QED
    BY <1>1, <1>3, <2>1, <2>2 DEF RunsInv
<1> QED
  BY <1>2, <1>3

(* With a slot_lookback of at least one: once the counters show it, the     *)
(* runs handed out are those queued for printing, the markers and those     *)
(* that did not decode; at the end all that were queued have been printed.  *)
THEOREM ListenRunsAccounted ==
  ASSUME L >= 1
  PROVE  ListenSpec => []RunsAccounted
<1>1. LInv /\ RunsInv => RunsAccounted
  <2> SUFFICES ASSUME LInv, RunsInv PROVE RunsAccounted
    OBVIOUS
  <2>1. ASSUME adding = {}
        PROVE  Cardinality(AllHanded) =
                 Len(produced) + stats["block_markers"] + stats["decode_errors"]
    <3>1. \A c \in {"batches", "block_markers", "decode_errors"} :
            stats[c] \in Nat /\ Total(c) = stats[c]
      BY <2>1, NoneDue DEF LInv, CounterInv, ListenCounter, Counter, Total
    <3> QED
      BY <3>1 DEF LInv, CounterInv, RunsInv
  <2>2. ASSUME Exited PROVE sink = produced
    <3>1. worker = "done" /\ sink_open = TRUE /\ pulled = <<>>
      BY <2>2 DEF Exited, LInv, WorkerInv
    <3>2. queue = <<>> /\ pulled \o sink \o queue = produced
      BY <3>1 DEF LInv, PP!IInv, PP!Control, PP!SinkFlow
    <3>3. sink \in Seq((1 .. N) \X (1 .. MaxOut))
      BY DEF LInv, PP!IInv, PP!TypeOK
    <3>4. <<>> \o sink = sink /\ sink \o <<>> = sink
      BY <3>3, ConcatEmptySeq
    <3> QED
      BY <3>1, <3>2, <3>4, Zenon
  <2> QED
    BY <2>1, <2>2 DEF RunsAccounted
<1>2. ListenInit => RunsInv
  <2> SUFFICES ASSUME ListenInit PROVE RunsInv
    OBVIOUS
  <2>1. AllHanded = {}
    BY DEF ListenInit, Init, AllHanded, Handed
  <2>2. Total("batches") = 0
    BY NoneDue DEF ListenInit, Total, ListenCounter, Counter
  <2> QED
    BY <2>1, <2>2, FS_EmptySet DEF RunsInv
<1>3. ListenSpec => [](IInv /\ ExactlyOnce)
  BY ListenRunsTheCore, SpecIInv, PTL
<1>4. LInv /\ (IInv /\ ExactlyOnce)' /\ RunsInv /\ [ListenNext]_listenVars => RunsInv'
  BY StepRuns
<1> QED
  BY <1>1, <1>2, <1>3, <1>4, ListenLInv, PTL DEF ListenSpec

(* Whenever a snapshot has loaded its last counter, it misses at most the   *)
(* packet under way when it began and the pushes since, and counts no       *)
(* datagram that was dropped.                                               *)
THEOREM ListenSnapshotSkew == ListenSpec => []SnapshotSkew
<1>1. LInv => SnapshotSkew
  <2> SUFFICES ASSUME LInv, Len(snap) = Len(Fields) PROVE SnapshotSkew
    BY DEF SnapshotSkew
  <2> DEFINE at(c) == CHOOSE i \in 1 .. Len(Fields) : Fields[i] = c
             d == snap[at("duplicates")]
             k == snap[at("packets")]
  <2>1. \A c \in {"packets", "duplicates"} : at(c) \in 1 .. Len(Fields) /\ Fields[at(c)] = c
    BY ListenAssumption
  <2> HIDE DEF at
  <2>2. \A c \in {"packets", "duplicates"} : at(c) \in 1 .. Len(snap) /\ Fields[at(c)] = c
    BY <2>1
  <2>3. main = "stats" /\ snap \in Seq(Nat)
    BY <2>2, EmptySeq DEF LInv, SnapInv
  <2>4. d \in Nat /\ k \in Nat
    BY <2>2, <2>3, ElementOfSeq
  <2>5. /\ began \in Nat /\ began <= Len(pushed)
        /\ d <= stats["duplicates"] /\ k <= stats["packets"] /\ began <= k + 1
    BY <2>2, <2>3 DEF LInv, SnapInv
  <2> HIDE DEF d, k
  <2>6. /\ stats["duplicates"] \in Nat /\ stats["packets"] \in Nat
        /\ DueIn(adding, "duplicates") \in Nat /\ DueIn(adding, "packets") \in Nat
        /\ Len(pushed) \in Nat /\ taken \in Nat /\ dropped \in Nat
    BY DueOf, PipelineFacts, LenProperties DEF LInv, CounterInv, ListenCounter, Counter
  <2>7. stats["duplicates"] = 0 \/ stats["duplicates"] < Len(pushed)
    BY <2>6 DEF LInv, CounterInv, Total
  <2>8. d <= k + (Len(pushed) - began)
    BY <2>4, <2>5, <2>6, <2>7
  <2>9. k + dropped <= taken
    <3>1. k <= Len(pushed) + (IF panicked THEN 1 ELSE 0)
      BY <2>4, <2>5, <2>6 DEF LInv, CounterInv, Total
    <3>2. CASE panicked
      BY <2>4, <2>6, <3>1, <3>2 DEF LInv, WorkerInv
    <3>3. CASE ~panicked
      <4>1. worker \notin {"panicked", "never"}
        BY <3>3 DEF LInv, WorkerInv
      <4>2. Len(pushed) + Len(hand) + dropped <= taken /\ Len(hand) \in Nat
        BY <4>1, PipelineFacts, LenProperties DEF LInv
      <4> QED
        BY <2>4, <2>6, <3>1, <3>3, <4>2
    <3> QED
      BY <3>2, <3>3
  <2> QED
    BY <2>8, <2>9 DEF SnapshotSkew, at, d, k
<1> QED
  BY <1>1, ListenLInv, PTL

-----------------------------------------------------------------------------
(* What is built of one block *)

(* The core knows no other slot and has told of no other, and its slot is   *)
(* coupled with the shreds of the datagrams pushed.                         *)
BlockInv(s) ==
  /\ DOMAIN slots \subseteq {s}
  /\ \A r \in AllHanded : r[1] = s
  /\ Coupled(Sound, SlotAt(s), Heard(Pushed))
  /\ SetsSound(SlotAt(s), Recovery)

(* The command's RunDelivery promises what RunDelivery promises.            *)
LEMMA SameDeliverable ==
  ASSUME NEW h
  PROVE  Block!Deliverable(h) = Ideal(Ends)!Deliverable(h)
BY DEF Block!Deliverable, Block!Runs, Block!Available, Block!DataIndex, Block!Cardinality,
       Ideal!Deliverable, Ideal!Runs, Ideal!Available, Ideal!DataIndex, Ideal!Cardinality

(* Neither the window nor the memory bound costs the only slot.             *)
LEMMA OnlySlotStays ==
  ASSUME L >= 1, NEW s \in Nat, s + L < W, NEW map, DOMAIN map = {s}, NEW moved \in BOOLEAN
  PROVE  LET end == Evict(map, moved, s)
         IN  DOMAIN end = {s} /\ end[s] = map[s]
<1>0. L \in Nat /\ s \in SlotNumber /\ W \in Nat
  BY ConfigAssumption DEF SlotNumber
<1> DEFINE mid == IF moved THEN PopOld(map, s) ELSE map
<1>1. DOMAIN mid = {s} /\ mid[s] = map[s]
  <2>1. Add(s, L) >= s /\ s <= s
    <3>1. Add(s, L) = s + L
      BY <1>0, AddBound
    <3> QED
      BY <3>1, <1>0
  <2>2. s \in {x \in DOMAIN map : \E y \in DOMAIN map : y <= x /\ Add(y, L) >= s}
    BY <2>1
  <2> QED
    BY <2>2 DEF PopOld, Keep
<1> HIDE DEF mid
<1>2. s \in {x \in DOMAIN mid : Cardinality({y \in DOMAIN mid : y < x}) < 4 * L}
  <2>1. {y \in DOMAIN mid : y < s} = {}
    BY <1>1
  <2>2. Cardinality({y \in DOMAIN mid : y < s}) = 0
    BY <2>1, FS_EmptySet
  <2> QED
    BY <2>2, <1>0, <1>1
<1>3. DOMAIN PopFar(mid) = {s} /\ PopFar(mid)[s] = mid[s]
  BY <1>1, <1>2 DEF PopFar, Keep
<1>4. Evict(map, moved, s) = PopFar(mid)
  BY DEF Evict, mid
<1> QED
  BY <1>1, <1>3, <1>4

(* The only slot is never stale.                                            *)
LEMMA OnlySlotIsLive ==
  ASSUME L >= 1, NEW s \in Nat, s + L < W, IInv, \A r \in AllHanded : r[1] = s
  PROVE  s \in SlotNumber /\ ~Stale(s, highest_slot)
<1>1. L \in Nat /\ s \in SlotNumber /\ W \in Nat
  BY ConfigAssumption DEF SlotNumber
<1>2. highest_slot = 0 \/ highest_slot = s
  BY DEF IInv, HandedInv
<1>3. Add(s, L) = s + L
  BY <1>1, AddBound
<1> QED
  BY <1>1, <1>2, <1>3 DEF Stale

(* What a datagram more makes heard.                                        *)
LEMMA HeardMore ==
  ASSUME NEW ds, NEW d
  PROVE  Heard(ds \cup {d}) = IF Accepted(content[d])
                              THEN HeardWith(Heard(ds), Parse(content[d])) ELSE Heard(ds)
<1> DEFINE Name(sh) == <<sh.kind, sh.fec, sh.pos>>
           Good(e) == Accepted(content[e]) /\ MerkleRoot(content[e]) # None
<1>1. \A es : Heard(es) = {Name(Parse(content[e])) : e \in {x \in es : Good(x)}}
  BY DEF Heard, ShredsOf, Accepted
<1>2. Parse(content[d]).root = MerkleRoot(content[d])
  BY DEF Parse
<1>3. HeardWith(Heard(ds), Parse(content[d])) =
        Heard(ds) \cup {x \in {Name(Parse(content[d]))} : MerkleRoot(content[d]) # None}
  BY <1>2 DEF HeardWith
<1> HIDE DEF Name
<1> QED
  BY <1>1, <1>3

(* The datagrams pushed arrived.                                            *)
LEMMA PushedArrived ==
  ASSUME PP!IInv, WorkerInv
  PROVE  /\ Pushed \subseteq 1 .. arrived /\ arrived \in Nat
         /\ \A i, j \in 1 .. Len(pushed) : i < j => pushed[i] < pushed[j]
<1>1. pushed \in Seq(1 .. N) /\ arrived \in Nat
  BY PipelineFacts
<1>2. /\ \A i, j \in 1 .. Len(pushed) : i < j => pushed[i] < pushed[j]
      /\ \A i \in 1 .. Len(pushed) : pushed[i] <= arrived
  BY PP!PushedRises, PipelineConstants DEF PP!Rising
<1>3. \A i \in 1 .. Len(pushed) : pushed[i] \in 1 .. N
  BY <1>1, ElementOfSeq
<1> QED
  BY <1>1, <1>2, <1>3 DEF Pushed

(* A push adds its datagram to those pushed.                                *)
LEMMA PushedMore ==
  ASSUME PP!IInv, worker = "push", pushed' = pushed \o hand
  PROVE  Pushed' = Pushed \cup {hand[1]}
<1>1. /\ pushed \in Seq(1 .. N) /\ hand \in Seq(1 .. N)
      /\ Len(hand) = 1 /\ Len(pushed) \in Nat
  BY PipelineFacts, LenProperties
<1> DEFINE more == pushed \o hand
           n == Len(pushed)
<1>2. /\ Len(more) = n + 1
      /\ \A i \in 1 .. n + 1 : more[i] = IF i <= n THEN pushed[i] ELSE hand[i - n]
  <2>1. /\ Len(more) = Len(pushed) + Len(hand)
        /\ \A i \in 1 .. Len(more) :
             more[i] = IF i <= Len(pushed) THEN pushed[i] ELSE hand[i - Len(pushed)]
    BY <1>1, ConcatProperties
  <2> HIDE DEF more
  <2> QED
    BY <1>1, <2>1
<1>3. pushed' = more
  OBVIOUS
<1> HIDE DEF more
<1>4. more[n + 1] = hand[1] /\ \A i \in 1 .. n : more[i] = pushed[i]
  <2>1. n + 1 \in 1 .. n + 1 /\ ~(n + 1 <= n) /\ (n + 1) - n = 1
    BY <1>1
  <2>2. \A i \in 1 .. n : i \in 1 .. n + 1 /\ i <= n
    BY <1>1
  <2> QED
    BY <1>2, <2>1, <2>2
<1>5. \A i : i \in 1 .. n + 1 <=> i \in 1 .. n \/ i = n + 1
  BY <1>1
<1> HIDE DEF n
<1>6. Pushed' = {more[i] : i \in 1 .. n + 1}
  BY <1>2, <1>3 DEF Pushed
<1>7. Pushed = {pushed[i] : i \in 1 .. n}
  BY DEF Pushed, n
<1> QED
  BY <1>4, <1>5, <1>6, <1>7

(* Outside Deshredder::push the datagrams known stay what they are.         *)
LEMMA ContentGrows ==
  ASSUME PP!IInv, WorkerInv, [ListenNext]_listenVars
  PROVE  \A d \in 1 .. arrived : content'[d] = content[d]
<1>1. content' = content \/ \E p \in Packet : content' = Append(content, p)
  BY DEF ListenNext, Work, MainStep, Datagrams, Receive, WorkerPush, UpdateCounter,
    WorkerLoop, Spawn, StartStats, Load, PrintStats, Exit, listenVars
<1>2. content \in Seq(Packet) /\ Len(content) = arrived
  BY DEF WorkerInv
<1>3. \A p \in Packet : \A d \in 1 .. Len(content) : Append(content, p)[d] = content[d]
  BY <1>2, AppendProperties
<1> QED
  BY <1>1, <1>2, <1>3

(* What push_raw does for the only slot of a block.                         *)
LEMMA PushBlock ==
  ASSUME L >= 1, NEW s, OneBlock(s), IInv, DOMAIN slots \subseteq {s},
         \A r \in AllHanded : r[1] = s, NEW p \in Packet, Push(p), panicked = FALSE
  PROVE  /\ DOMAIN slots' \subseteq {s}
         /\ \A r \in AllHanded' : r[1] = s
         /\ panicked' \/ ~Accepted(p) => SlotAt(s)' = SlotAt(s)
         /\ ~panicked' /\ Accepted(p) =>
              /\ SlotAt(s)' = SlotInsert(SlotAt(s), Parse(p), Recovery)
              /\ ~Panics(Parse(p))
<1>1. /\ s \in Nat /\ s + L < W /\ s \in SlotNumber /\ ~Stale(s, highest_slot)
      /\ Accepted(p) => p.slot = s /\ Parse(p).slot = s
  BY OnlySlotIsLive DEF OneBlock, Parse
<1>2. Handed({}) = {} /\ AllHanded = emitted \cup Handed(out)
  BY DEF Handed, AllHanded
<1>3. CASE PushInvalid(p) \/ PushWrongVersion(p) \/ PushStale(p)
  <2>1. ~Accepted(p) /\ slots' = slots /\ out' = {} /\ emitted' = emitted \cup Handed(out)
    BY <1>1, <1>3 DEF PushInvalid, PushWrongVersion, PushStale, Accepted, Ignore, Hand
  <2>2. AllHanded' = AllHanded
    BY <1>2, <2>1 DEF AllHanded
  <2> QED
    BY <2>1, <2>2 DEF SlotAt
<1>4. CASE PushPanics(p)
  <2>1. /\ slots' = With(slots, s, SlotAt(s)) /\ panicked' = TRUE
        /\ out' = {} /\ emitted' = emitted \cup Handed(out)
    BY <1>1, <1>4 DEF PushPanics, Hand
  <2>2. AllHanded' = AllHanded
    BY <1>2, <2>1 DEF AllHanded
  <2>3. DOMAIN slots' = {s} /\ slots'[s] = SlotAt(s)
    BY <2>1 DEF With
  <2>4. SlotAt(s)' = SlotAt(s)
    <3>1. SlotAt(s)' = slots'[s]
      BY <2>3 DEF SlotAt
    <3> QED
      BY <2>3, <3>1
  <2> QED
    BY <2>1, <2>2, <2>3, <2>4
<1>5. CASE PushShred(p)
  <2> DEFINE sh == Parse(p)
             segs == Segments(SlotAt(s), sh, Recovery)
             ins == SlotInsert(SlotAt(s), sh, Recovery)
             map == With(slots, s, ins)
             moved == Moves(segs, s)
  <2>1. /\ Accepted(p) /\ slots' = Evict(map, moved, s)
        /\ out' = {RawBatch(s, g) : g \in segs} /\ emitted' = emitted \cup Handed(out)
        /\ panicked' = FALSE /\ ~Panics(sh)
    BY <1>1, <1>5 DEF PushShred, Hand
  <2>2. moved \in BOOLEAN
    BY DEF Moves
  <2> HIDE DEF ins, segs, moved, sh
  <2>3. DOMAIN map = {s} /\ map[s] = ins
    BY DEF With
  <2> HIDE DEF map
  <2>4. DOMAIN slots' = {s} /\ slots'[s] = ins
    BY <1>1, <2>1, <2>2, <2>3, OnlySlotStays
  <2>5. SlotAt(s)' = ins
    <3>1. SlotAt(s)' = slots'[s]
      BY <2>4 DEF SlotAt
    <3> QED
      BY <2>4, <3>1
  <2>6. \A r \in Handed(out') : r[1] = s
    <3>1. \A g : RawBatch(s, g).slot = s
      BY DEF RawBatch
    <3> QED
      BY <2>1, <3>1 DEF Handed
  <2>7. \A r \in AllHanded' : r[1] = s
    BY <1>2, <2>1, <2>6 DEF AllHanded
  <2> QED
    BY <2>1, <2>4, <2>5, <2>7 DEF ins, sh
<1> QED
  BY <1>3, <1>4, <1>5 DEF Push

(* Every step of the command keeps the slot coupled with what was pushed.   *)
LEMMA StepBlock ==
  ASSUME L >= 1, NEW s, OneBlock(s), IInv, PP!IInv, WorkerInv, BlockInv(s),
         [ListenNext]_listenVars
  PROVE  BlockInv(s)'
<1>1. /\ s \in Nat /\ s + L < W /\ DOMAIN slots \subseteq {s}
      /\ \A r \in AllHanded : r[1] = s
      /\ Coupled(Sound, SlotAt(s), Heard(Pushed)) /\ SetsSound(SlotAt(s), Recovery)
      /\ Consistent(Sound)
  BY DEF BlockInv, OneBlock
<1>2. SlotInv(SlotAt(s))
  BY SlotDefaultInv DEF WorkerInv, SlotsSound, SlotAt
<1>3. Pushed \subseteq 1 .. arrived /\ \A d \in 1 .. arrived : content'[d] = content[d]
  BY PushedArrived, ContentGrows
<1>4. CASE ~WorkerPush
  <2>1. /\ Pushed' = Pushed /\ AllHanded' = AllHanded /\ SlotAt(s)' = SlotAt(s)
        /\ slots' = slots
    BY <1>4, OtherSteps DEF Pushed, AllHanded, SlotAt, vars
  <2>2. Heard(Pushed)' = Heard(Pushed)
    <3>1. {content'[d] : d \in {x \in Pushed' : Accepted(content'[x])}}
            = {content[d] : d \in {x \in Pushed : Accepted(content[x])}}
      BY <1>3, <2>1
    <3> QED
      BY <3>1 DEF Heard
  <2> QED
    BY <1>1, <2>1, <2>2 DEF BlockInv
<1>5. CASE WorkerPush
  <2> DEFINE p == content[hand[1]]
             sh == Parse(p)
  <2>1. /\ p \in Packet /\ Push(p) /\ panicked = FALSE /\ content' = content
        /\ worker = "push"
        /\ panicked' => pushed' = pushed
        /\ ~panicked' => pushed' = pushed \o hand
    BY <1>5, WorkerPushes DEF WorkerPush
  <2>2. /\ DOMAIN slots' \subseteq {s}
        /\ \A r \in AllHanded' : r[1] = s
        /\ panicked' \/ ~Accepted(p) => SlotAt(s)' = SlotAt(s)
        /\ ~panicked' /\ Accepted(p) =>
             SlotAt(s)' = SlotInsert(SlotAt(s), sh, Recovery) /\ ~Panics(sh)
    BY <1>1, <2>1, PushBlock
  <2>3. Heard(Pushed)' = Heard(Pushed')
    BY <2>1 DEF Heard
  <2>4. CASE panicked'
    <3>1. Pushed' = Pushed
      BY <2>1, <2>4 DEF Pushed
    <3> QED
      BY <1>1, <2>2, <2>3, <2>4, <3>1 DEF BlockInv
  <2>5. CASE ~panicked'
    <3>1. Heard(Pushed)' = IF Accepted(p) THEN HeardWith(Heard(Pushed), sh) ELSE Heard(Pushed)
      BY <2>1, <2>3, <2>5, PushedMore, HeardMore
    <3>2. CASE ~Accepted(p)
      BY <1>1, <2>2, <3>1, <3>2 DEF BlockInv
    <3>3. CASE Accepted(p)
      <4>1. IsShred(sh) /\ Recovery \in BOOLEAN
        BY <2>1, <2>2, <2>5, <3>3, ParseIsShred, PacketAssumption DEF Accepted
      <4>2. sh.root # None => sh \in Sound
        <5>1. sh.root = MerkleRoot(p)
          BY DEF Parse
        <5> QED
          BY <2>1, <3>3, <5>1 DEF Sound, ShredsOf, Accepted
      <4> HIDE DEF sh, p
      <4>3. Coupled(Sound, SlotInsert(SlotAt(s), sh, Recovery), HeardWith(Heard(Pushed), sh))
        BY <1>1, <1>2, <4>1, <4>2, InsertCoupled
      <4>4. SetsSound(SlotInsert(SlotAt(s), sh, Recovery), Recovery)
        BY <1>1, <1>2, <4>1, SlotInsertSound
      <4> QED
        BY <2>2, <2>5, <3>1, <3>3, <4>3, <4>4 DEF BlockInv
    <3> QED
      BY <3>2, <3>3
  <2> QED
    BY <2>4, <2>5
<1> QED
  BY <1>4, <1>5

(* The command starts with no slot and nothing pushed.                      *)
LEMMA InitBlock ==
  ASSUME NEW s
  PROVE  ListenInit => BlockInv(s)
<1> SUFFICES ASSUME ListenInit PROVE BlockInv(s)
  OBVIOUS
<1>1. slots = [x \in {} |-> SlotDefault] /\ out = {} /\ emitted = {} /\ pushed = <<>>
  BY DEF ListenInit, Init, P!Init
<1>2. DOMAIN slots = {} /\ SlotAt(s) = SlotDefault
  BY <1>1 DEF SlotAt
<1>3. AllHanded = {}
  BY <1>1 DEF AllHanded, Handed
<1>4. Pushed = {}
  BY <1>1, EmptySeq DEF Pushed
<1>5. Heard(Pushed) = {}
  BY <1>4 DEF Heard, ShredsOf
<1> QED
  BY <1>2, <1>3, <1>5, DefaultCoupled DEF BlockInv

(* The invariant is one of the command.                                     *)
LEMMA ListenBlockInv ==
  ASSUME L >= 1, NEW s, OneBlock(s)
  PROVE  ListenSpec => [](IInv /\ LInv /\ BlockInv(s))
<1>1. ListenInit => BlockInv(s)
  BY InitBlock
<1>2. IInv /\ LInv /\ BlockInv(s) /\ [ListenNext]_listenVars => BlockInv(s)'
  BY StepBlock DEF LInv
<1>3. ListenSpec => [](IInv /\ ExactlyOnce)
  BY ListenRunsTheCore, SpecIInv, PTL
<1> QED
  BY <1>1, <1>2, <1>3, ListenLInv, PTL DEF ListenSpec

(* When all that arrived was taken and nothing was dropped, all was pushed. *)
LEMMA AllPushed ==
  ASSUME PP!IInv, WorkerInv, Exited, dropped = 0, taken = arrived
  PROVE  Pushed = 1 .. arrived
<1>1. /\ Pushed \subseteq 1 .. arrived /\ arrived \in Nat
      /\ \A i, j \in 1 .. Len(pushed) : i < j => pushed[i] < pushed[j]
  BY PushedArrived
<1>2. pushed \in Seq(1 .. N) /\ Len(pushed) \in Nat
      /\ \A i \in 1 .. Len(pushed) : pushed[i] \in Nat
  <2>1. pushed \in Seq(1 .. N) /\ Len(pushed) \in Nat
    BY PipelineFacts, LenProperties
  <2>2. \A i \in 1 .. Len(pushed) : pushed[i] \in 1 .. arrived
    BY <1>1 DEF Pushed
  <2> QED
    BY <1>1, <2>1, <2>2
<1>3. Len(pushed) = arrived
  <2>1. PP!Balance /\ PP!Control /\ PP!TypeOK /\ worker = "done"
    BY DEF PP!IInv, Exited
  <2>2. taken = Len(pushed) + Len(hand) + Len(channel) + Len(batch) + dropped
    BY <2>1 DEF PP!Balance, PP!Connected
  <2>3. Len(hand) = 0 /\ Len(channel) = 0 /\ Len(batch) = 0
    BY <2>1, EmptySeq DEF PP!Control, PP!TypeOK
  <2> QED
    BY <1>2, <2>2, <2>3
<1> DEFINE S == 1 .. arrived
<1>4. pushed \in Injection(S, S)
  <2>1. pushed \in [S -> S]
    <3>1. DOMAIN pushed = S /\ pushed = [i \in DOMAIN pushed |-> pushed[i]]
      BY <1>2, <1>3, LenProperties
    <3>2. \A i \in S : pushed[i] \in S
      BY <1>1, <1>3 DEF Pushed
    <3> QED
      BY <3>1, <3>2
  <2>2. \A i, j \in S : pushed[i] = pushed[j] => i = j
    <3> SUFFICES ASSUME NEW i \in S, NEW j \in S, pushed[i] = pushed[j] PROVE i = j
      OBVIOUS
    <3>1. i \in Int /\ j \in Int /\ pushed[i] \in Nat /\ pushed[j] \in Nat
      BY <1>2, <1>3
    <3>2. ~(i < j) /\ ~(j < i)
      BY <1>1, <1>3, <3>1
    <3> QED
      BY <3>1, <3>2
  <2> QED
    BY <2>1, <2>2 DEF Injection, IsInjective
<1>5. IsFiniteSet(S)
  BY <1>1, FS_Interval
<1>6. pushed \in Surjection(S, S)
  BY <1>4, <1>5, FS_Injection
<1> QED
  BY <1>1, <1>3, <1>6 DEF Surjection, Pushed

(* Of a block that a leader shredded consistently, the command builds the   *)
(* runs that can be built from the datagrams pushed, whatever else arrives  *)
(* that push refuses, in whatever order shreds come, how often, and which   *)
(* the full channel costs; and, when nothing was dropped and the socket     *)
(* buffer is empty, from all that arrived.                                  *)
THEOREM ListenBuildsWhatArrived ==
  ASSUME L >= 1, NEW s, OneBlock(s)
  PROVE  ListenSpec => []BuildsWhatArrived
<1> DEFINE built == {<<r[2], r[3]>> : r \in AllHanded}
<1>1. ASSUME IInv, BlockInv(s) PROVE built = Block!Deliverable(Heard(Pushed))
  <2>1. /\ s \in Nat /\ s + L < W /\ Consistent(Sound)
        /\ \A r \in AllHanded : r[1] = s
        /\ Coupled(Sound, SlotAt(s), Heard(Pushed)) /\ SetsSound(SlotAt(s), Recovery)
    BY <1>1 DEF OneBlock, BlockInv
  <2>2. s \in SlotNumber /\ ~Stale(s, highest_slot)
    BY <1>1, <2>1, OnlySlotIsLive
  <2>3. /\ SlotInv(SlotAt(s))
        /\ \A r \in AllHanded : IsRun(SlotAt(s), r[2], r[3])
        /\ \A i \in SlotAt(s).consumed : \E r \in AllHanded : i \in r[2] .. r[3]
    BY <1>1, <2>1, <2>2, NewSlotIsFresh
  <2>4. \A r \in AllHanded : r[2] \in Index /\ r[3] \in Index /\ r[2] <= r[3]
    BY <1>1 DEF IInv, HandedInv
  <2>5. \A r \in built : /\ r \in Index \X Index /\ r[1] <= r[2]
                         /\ IsRun(SlotAt(s), r[1], r[2])
    BY <2>3, <2>4
  <2>6. \A i \in SlotAt(s).consumed : \E r \in built : i \in r[1] .. r[2]
    <3> TAKE i \in SlotAt(s).consumed
    <3>1. PICK r \in AllHanded : i \in r[2] .. r[3]
      BY <2>3
    <3> WITNESS <<r[2], r[3]>> \in built
    <3> QED
      BY <3>1
  <2> HIDE DEF built
  <2>7. \A a, b \in Index : a <= b /\ IsRun(SlotAt(s), a, b) => <<a, b>> \in built
    BY <2>3, <2>5, <2>6, ReadyRunsPushed
  <2>8. built = Ideal(Ends)!Deliverable(Heard(Pushed))
    <3> DEFINE st == SlotAt(s)
               h == Heard(Pushed)
    <3>1. /\ SlotInv(st) /\ SetsSound(st, Recovery) /\ Coupled(Sound, st, h)
          /\ \A r \in built : /\ r \in Index \X Index /\ r[1] <= r[2]
                             /\ IsRun(st, r[1], r[2])
          /\ \A a, b \in Index : a <= b /\ IsRun(st, a, b) => <<a, b>> \in built
      BY <2>1, <2>3, <2>5, <2>7
    <3> HIDE DEF st, h
    <3>2. built = Ideal(Ends)!Deliverable(h)
      BY <2>1, <3>1, ReadyIsDeliverable DEF Ends
    <3> QED
      BY <3>2 DEF h
  <2> QED
    BY <2>8, SameDeliverable
<1> HIDE DEF built
<1>2. IInv /\ LInv /\ BlockInv(s) => BuildsWhatArrived
  <2> SUFFICES ASSUME IInv, LInv, BlockInv(s), Exited
               PROVE  /\ built = Block!Deliverable(Heard(Pushed))
                      /\ dropped = 0 /\ taken = arrived =>
                           built = Block!Deliverable(Heard(1 .. arrived))
    BY DEF BuildsWhatArrived, built
  <2>1. built = Block!Deliverable(Heard(Pushed))
    BY <1>1
  <2>2. dropped = 0 /\ taken = arrived => Pushed = 1 .. arrived
    BY AllPushed DEF LInv
  <2> QED
    BY <2>1, <2>2
<1> QED
  BY <1>2, ListenBlockInv, PTL

=============================================================================
