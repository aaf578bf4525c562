----------------------------- MODULE SlotProofs -----------------------------
(***************************************************************************)
(* Proofs about SlotAssembly, for every geometry, every set of datagrams   *)
(* and with or without recovery.                                           *)
(***************************************************************************)
EXTENDS SlotAssembly, SlotLemmas

Pushed == delivered \cup Bounds(out)

(* The inductive invariant: the slot is sound, what was pushed is made of   *)
(* runs of the slot, and covers exactly the consumed indexes.               *)
IInv ==
  /\ SlotInv(slot)
  /\ \A r \in Pushed : /\ r \in Index \X Index
                       /\ r[1] <= r[2]
                       /\ IsRun(slot, r[1], r[2])
                       /\ r[1] .. r[2] \subseteq slot.consumed
  /\ \A i \in slot.consumed : \E r \in Pushed : i \in r[1] .. r[2]
  /\ ExactlyOnce

(* The initial state satisfies the invariant.                               *)
LEMMA InitIInv == Init => IInv
<1> SUFFICES ASSUME Init PROVE IInv
  OBVIOUS
<1>1. slot = SlotDefault /\ out = {} /\ delivered = {} /\ Pushed = {}
  BY DEF Init, Pushed, Bounds
<1>2. SlotDefault.consumed = {}
  BY DEF SlotDefault
<1> QED
  BY <1>1, <1>2, SlotDefaultInv DEF IInv, ExactlyOnce

(* SlotState::insert preserves the invariant.                               *)
LEMMA InsertIInv ==
  ASSUME IInv, NEW sh, IsShred(sh), Insert(sh)
  PROVE  IInv'
<1> DEFINE new == SlotInsert(slot, sh, Recovery)
           segs == Segments(slot, sh, Recovery)
<1>1. /\ slot' = new /\ out' = segs /\ delivered' = Pushed
      /\ Recovery \in BOOLEAN /\ SlotInv(slot)
  BY PacketAssumption DEF Insert, Pushed, IInv
<1>2. /\ SlotInv(new)
      /\ \A g \in segs : /\ g.start \in Index /\ g.end \in Index
                         /\ g.start <= g.end
                         /\ IsRun(new, g.start, g.end)
                         /\ \A i \in g.start .. g.end : i \notin slot.consumed
      /\ \A i : i \in new.consumed <=>
                  i \in slot.consumed \/ \E g \in segs : i \in g.start .. g.end
      /\ \A s, e \in Index : IsRun(slot, s, e) => IsRun(new, s, e)
      /\ \A g, h \in segs : g.start = h.start /\ g.end = h.end => g = h
  BY <1>1, SlotInsertInv
<1> HIDE DEF new, segs
<1>3. Pushed' = Pushed \cup {<<g.start, g.end>> : g \in segs}
  BY <1>1 DEF Pushed, Bounds
<1>4. \A r \in Pushed : /\ r \in Index \X Index
                        /\ r[1] <= r[2]
                        /\ IsRun(slot, r[1], r[2])
                        /\ r[1] .. r[2] \subseteq slot.consumed
  BY DEF IInv
<1>5. \A r \in Pushed' : /\ r \in Index \X Index
                         /\ r[1] <= r[2]
                         /\ IsRun(new, r[1], r[2])
                         /\ r[1] .. r[2] \subseteq new.consumed
  <2> SUFFICES ASSUME NEW r \in Pushed'
               PROVE  /\ r \in Index \X Index
                      /\ r[1] <= r[2]
                      /\ IsRun(new, r[1], r[2])
                      /\ r[1] .. r[2] \subseteq new.consumed
    OBVIOUS
  <2>1. CASE r \in Pushed
    BY <2>1, <1>2, <1>4
  <2>2. CASE \E g \in segs : r = <<g.start, g.end>>
    BY <2>2, <1>2
  <2> QED
    BY <2>1, <2>2, <1>3
<1>6. \A i \in new.consumed : \E r \in Pushed' : i \in r[1] .. r[2]
  <2> SUFFICES ASSUME NEW i \in new.consumed
               PROVE  \E r \in Pushed' : i \in r[1] .. r[2]
    OBVIOUS
  <2>1. CASE i \in slot.consumed
    BY <2>1, <1>3 DEF IInv
  <2>2. CASE \E g \in segs : i \in g.start .. g.end
    <3>1. PICK g \in segs : i \in g.start .. g.end
      BY <2>2
    <3>2. <<g.start, g.end>> \in Pushed'
      BY <1>3
    <3> QED
      BY <3>1, <3>2
  <2> QED
    BY <2>1, <2>2, <1>2
<1>7. \A g \in segs, r \in Pushed : g.end < r[1] \/ r[2] < g.start
  <2> SUFFICES ASSUME NEW g \in segs, NEW r \in Pushed
               PROVE  g.end < r[1] \/ r[2] < g.start
    OBVIOUS
  <2>1. /\ r[1] \in Index /\ r[2] \in Index /\ r[1] <= r[2]
        /\ r[1] .. r[2] \subseteq slot.consumed
    BY <1>4
  <2> QED
    BY <2>1, <1>1, SegmentsApart DEF segs
<1>8. \A g, h \in segs : g # h => g.end < h.start \/ h.end < g.start
  BY <1>1, SegmentsApart DEF segs
<1>9. ExactlyOnce'
  BY <1>1, <1>7, <1>8 DEF ExactlyOnce
<1> QED
  BY <1>1, <1>2, <1>5, <1>6, <1>9 DEF IInv

(* The invariant is inductive.                                              *)
LEMMA NextIInv == IInv /\ [Next]_vars => IInv'
<1> SUFFICES ASSUME IInv, [Next]_vars PROVE IInv'
  OBVIOUS
<1>1. CASE Next
  <2>1. PICK p \in Packet : WellFormed(p) /\ Insert(Parse(p))
    BY <1>1 DEF Next
  <2>2. p \in Datagram /\ ~Panics(Parse(p))
    BY <2>1, PacketAssumption DEF Insert
  <2>3. IsShred(Parse(p))
    BY <2>1, <2>2, ParseIsShred
  <2> QED
    BY <2>1, <2>3, InsertIInv
<1>2. CASE UNCHANGED vars
  BY <1>2 DEF vars, IInv, Pushed, Bounds, ExactlyOnce
<1> QED
  BY <1>1, <1>2

(* The inductive invariant holds in every reachable state.                  *)
LEMMA SpecIInv == Spec => []IInv
BY InitIInv, NextIInv, PTL DEF Spec

(* No data shred is used by two segments.                                   *)
THEOREM SlotExactlyOnce == Spec => []ExactlyOnce
<1>1. IInv => ExactlyOnce
  BY DEF IInv
<1> QED
  BY <1>1, SpecIInv, PTL

(* An insert pushes every run that is ready, also those that only waited    *)
(* for the boundary before them.                                            *)
THEOREM SlotNoReadyRunLeft == Spec => []NoReadyRunLeft
<1>1. IInv => NoReadyRunLeft
  <2> SUFFICES ASSUME IInv, NEW s \in Index, NEW e \in Index,
                      s <= e, IsRun(slot, s, e)
               PROVE  <<s, e>> \in Pushed
    BY DEF NoReadyRunLeft, Pushed
  <2> QED
    BY ReadyRunsPushed DEF IInv
<1> QED
  BY <1>1, SpecIInv, PTL

(* SlotState::data never fails.                                             *)
THEOREM SlotReadable == Spec => []ReadableUntilConsumed
<1>1. IInv => ReadableUntilConsumed
  <2> SUFFICES ASSUME IInv, NEW f \in SetIndex, NEW p \in Position,
                      f + p \in slot.received \ slot.consumed
               PROVE  slot.sets[f] # None /\ slot.sets[f].data[p] # None
    BY DEF ReadableUntilConsumed
  <2>1. f + p \in SetRange(f)
    BY SetInIndex, GeometryAssumption DEF SetRange, Position
  <2>2. ~SetIsConsumed(slot.consumed, f)
    BY <2>1 DEF SetIsConsumed
  <2> QED
    BY <2>2 DEF IInv, SlotInv, Readable
<1> QED
  BY <1>1, SpecIInv, PTL

(* A used-up set is freed and never allocated again.                        *)
THEOREM SlotConsumedIsFreed == Spec => []ConsumedIsFreed
<1>1. IInv => ConsumedIsFreed
  BY DEF IInv, SlotInv, UsedUpFreed, ConsumedIsFreed
<1> QED
  BY <1>1, SpecIInv, PTL

(* The well-typedness of everything but the slot and the pushed runs, which *)
(* the invariant already covers.                                            *)
HistoryOK ==
  /\ \A g \in out : IsSegment(g)
  /\ heard \subseteq {"data", "code"} \X SetIndex \X (0 .. (K + M - 1))

(* Each step pushes well-formed segments, each from one origin per set.     *)
LEMMA StepPushes ==
  ASSUME IInv, [Next]_vars, HistoryOK, SingleOrigin
  PROVE  HistoryOK' /\ SingleOrigin'
<1>1. CASE Next
  <2>1. PICK p \in Packet : WellFormed(p) /\ Insert(Parse(p))
    BY <1>1 DEF Next
  <2> DEFINE sh == Parse(p)
  <2>2. p \in Datagram /\ ~Panics(sh)
    BY <2>1, PacketAssumption DEF Insert
  <2>3. IsShred(sh)
    BY <2>1, <2>2, ParseIsShred
  <2> HIDE DEF sh
  <2>4. /\ out' = Segments(slot, sh, Recovery) /\ SlotInv(slot)
        /\ Recovery \in BOOLEAN
        /\ heard' \subseteq heard \cup {<<sh.kind, sh.fec, sh.pos>>}
    BY <2>1, PacketAssumption DEF Insert, IInv, sh
  <2>5. \A g \in out' :
          /\ IsSegment(g)
          /\ \A i, j \in g.start .. g.end :
               i - (i % K) = j - (j % K) =>
                 g.bytes[i].root = g.bytes[j].root /\ g.bytes[i].sig = g.bytes[j].sig
    BY <2>3, <2>4, SegmentsSound
  <2>6. <<sh.kind, sh.fec, sh.pos>> \in {"data", "code"} \X SetIndex \X (0 .. (K + M - 1))
    BY <2>3 DEF IsShred
  <2> QED
    BY <2>4, <2>5, <2>6 DEF HistoryOK, SingleOrigin
<1>2. CASE UNCHANGED vars
  BY <1>2 DEF vars, HistoryOK, SingleOrigin
<1> QED
  BY <1>1, <1>2

(* The slot's state and all it pushes keep their types, so no bit set,      *)
(* array or map of slot.rs is ever indexed out of range.                    *)
THEOREM SlotTypeOK == Spec => []TypeOK
<1>1. Init => HistoryOK /\ SingleOrigin
  BY DEF Init, HistoryOK, SingleOrigin
<1>2. IInv /\ [Next]_vars /\ HistoryOK /\ SingleOrigin => HistoryOK' /\ SingleOrigin'
  BY StepPushes
<1>3. IInv /\ HistoryOK => TypeOK
  BY DEF IInv, SlotInv, HistoryOK, TypeOK, Pushed
<1> QED
  BY <1>1, <1>2, <1>3, SpecIInv, PTL DEF Spec

(* No segment mixes two origins within one FEC set.                         *)
THEOREM SlotSingleOrigin == Spec => []SingleOrigin
<1>1. Init => HistoryOK /\ SingleOrigin
  BY DEF Init, HistoryOK, SingleOrigin
<1>2. IInv /\ [Next]_vars /\ HistoryOK /\ SingleOrigin => HistoryOK' /\ SingleOrigin'
  BY StepPushes
<1> QED
  BY <1>1, <1>2, SpecIInv, PTL DEF Spec

-----------------------------------------------------------------------------
(* FEC sets *)

(* The sets of the slot are sound in every reachable state.                 *)
LEMMA SpecSetsSound == Spec => []SetsSound(slot, Recovery)
<1>1. Init => SetsSound(slot, Recovery)
  BY DEF Init, SlotDefault, SetsSound
<1>2. IInv /\ SetsSound(slot, Recovery) /\ [Next]_vars => SetsSound(slot, Recovery)'
  <2> SUFFICES ASSUME IInv, SetsSound(slot, Recovery), [Next]_vars
               PROVE  SetsSound(slot, Recovery)'
    OBVIOUS
  <2>1. CASE Next
    <3>1. PICK p \in Packet : WellFormed(p) /\ Insert(Parse(p))
      BY <2>1 DEF Next
    <3>2. p \in Datagram /\ ~Panics(Parse(p))
      BY <3>1, PacketAssumption DEF Insert
    <3>3. IsShred(Parse(p)) /\ slot' = SlotInsert(slot, Parse(p), Recovery)
      BY <3>1, <3>2, ParseIsShred DEF Insert
    <3>4. SetsSound(slot', Recovery)
      BY <3>3, SlotInsertSound, PacketAssumption DEF IInv
    <3> QED
      BY <3>4 DEF SetsSound
  <2>2. CASE UNCHANGED vars
    BY <2>2 DEF vars, SetsSound
  <2> QED
    BY <2>1, <2>2
<1> QED
  BY <1>1, <1>2, SpecIInv, PTL DEF Spec

(* The counters can_recover and is_complete rely on count the stored        *)
(* shreds, a complete set keeps no code shred and all that a set stores     *)
(* agrees with its pinned root and signature.                               *)
THEOREM SlotFecSetSound == Spec => []FecSetSound
<1>1. ASSUME IInv, SetsSound(slot, Recovery) PROVE FecSetSound
  <2> SUFFICES ASSUME NEW f \in SetIndex, slot.sets[f] # None
               PROVE  LET set == slot.sets[f]
                      IN  /\ set.num_data = K - Cardinality(Missing(set))
                          /\ set.num_code = Cardinality(CodeHeld(set))
                          /\ IsComplete(set) => set.num_code = 0
                          /\ \A x \in Stored(set) : x.root = set.root /\ x.sig = set.sig
    BY DEF FecSetSound, CodeHeld
  <2>1. Counted(slot.sets[f]) /\ FecInv(slot.sets[f])
    BY <1>1 DEF SetsSound, IInv, SlotInv
  <2>2. \A x \in Stored(slot.sets[f]) :
          x.root = slot.sets[f].root /\ x.sig = slot.sets[f].sig
    BY <2>1 DEF FecInv, Stored
  <2> QED
    BY <2>1, <2>2 DEF Counted
<1> QED
  BY <1>1, SpecIInv, SpecSetsSound, PTL

(* With recovery on, an insert never leaves a set that holds K shreds and   *)
(* lacks data, unless rebuilding it fails.                                  *)
THEOREM SlotNoRecoveryLeft == Spec => []NoRecoveryLeft
<1>1. SetsSound(slot, Recovery) => NoRecoveryLeft
  BY DEF SetsSound, Tried, NoRecoveryLeft
<1> QED
  BY <1>1, SpecSetsSound, PTL

-----------------------------------------------------------------------------
(* RunDelivery *)

(* A shred an insert gets is one that was sent.                             *)
LEMMA InsertedIsSent ==
  ASSUME NEW p \in Packet, WellFormed(p), Parse(p).root # None
  PROVE  Parse(p) \in Sent
<1>1. Parse(p).root = MerkleRoot(p)
  BY DEF Parse
<1> QED
  BY <1>1 DEF Sent, ShredsOf

(* The slot is coupled with RunDelivery in every reachable state.           *)
LEMMA SpecCoupled ==
  ASSUME Consistent(Sent)
  PROVE  Spec => []Coupled(Sent, slot, heard)
<1>1. Init => Coupled(Sent, slot, heard)
  BY DefaultCoupled DEF Init
<1>2. /\ IInv /\ SetsSound(slot, Recovery) /\ Coupled(Sent, slot, heard) /\ [Next]_vars
      => Coupled(Sent, slot, heard)'
  <2> SUFFICES ASSUME IInv, SetsSound(slot, Recovery), Coupled(Sent, slot, heard), [Next]_vars
               PROVE  Coupled(Sent, slot', heard')
    OBVIOUS
  <2>1. CASE Next
    <3>1. PICK p \in Packet : WellFormed(p) /\ Insert(Parse(p))
      BY <2>1 DEF Next
    <3>2. p \in Datagram /\ ~Panics(Parse(p))
      BY <3>1, PacketAssumption DEF Insert
    <3>3. IsShred(Parse(p))
      BY <3>1, <3>2, ParseIsShred
    <3>4. /\ slot' = SlotInsert(slot, Parse(p), Recovery)
          /\ heard' = HeardWith(heard, Parse(p))
      BY <3>1 DEF Insert, HeardWith
    <3>5. Parse(p).root # None => Parse(p) \in Sent
      BY <3>1, InsertedIsSent
    <3> QED
      BY <3>3, <3>4, <3>5, InsertCoupled DEF IInv
  <2>2. CASE UNCHANGED vars
    BY <2>2 DEF vars
  <2> QED
    BY <2>1, <2>2
<1> QED
  BY <1>1, <1>2, SpecIInv, SpecSetsSound, PTL DEF Spec

(* The slot's RunDelivery promises what RunDelivery promises.               *)
LEMMA SameDeliverable ==
  ASSUME NEW h
  PROVE  Block!Deliverable(h) = Ideal(Ends)!Deliverable(h)
BY DEF Block!Deliverable, Block!Runs, Block!Available, Block!DataIndex, Block!Cardinality,
       Ideal!Deliverable, Ideal!Runs, Ideal!Available, Ideal!DataIndex, Ideal!Cardinality

(* For a consistently shredded block, one slot implements RunDelivery: the  *)
(* runs pushed are a function of the set of shreds heard, whatever the      *)
(* order in which SlotState::insert gets them and however often.            *)
THEOREM SlotOrderIndependent ==
  ASSUME Consistent(Sent)
  PROVE  Spec => OrderIndependent
<1> DEFINE Done == Pushed = Block!Deliverable(heard)
<1>1. Init => Block!BlockInit
  BY DEF Init, Block!BlockInit, Bounds
<1>2. IInv /\ NoReadyRunLeft /\ SetsSound(slot, Recovery) /\ Coupled(Sent, slot, heard) => Done
  <2> SUFFICES ASSUME IInv, NoReadyRunLeft, SetsSound(slot, Recovery),
                      Coupled(Sent, slot, heard)
               PROVE  Done
    OBVIOUS
  <2>1. /\ SlotInv(slot)
        /\ \A r \in Pushed : /\ r \in Index \X Index /\ r[1] <= r[2]
                             /\ IsRun(slot, r[1], r[2])
        /\ \A a, b \in Index : a <= b /\ IsRun(slot, a, b) => <<a, b>> \in Pushed
    BY DEF IInv, NoReadyRunLeft, Pushed
  <2>2. Pushed = Ideal(EndsOf(Sent))!Deliverable(heard)
    BY <2>1, ReadyIsDeliverable
  <2> QED
    BY <2>2, SameDeliverable DEF Ends
<1>3. Done /\ Done' /\ [Next]_vars => [Block!BlockNext]_(Block!blockVars)
  <2> SUFFICES ASSUME Done, Done', [Next]_vars
               PROVE  [Block!BlockNext]_(Block!blockVars)
    OBVIOUS
  <2>1. CASE Next
    <3>1. PICK p \in Packet : WellFormed(p) /\ Insert(Parse(p))
      BY <2>1 DEF Next
    <3> DEFINE sh == Parse(p)
               x == <<sh.kind, sh.fec, sh.pos>>
    <3>2. IsShred(sh)
      BY <3>1, ParseIsShred, PacketAssumption DEF Insert
    <3>3. x \in Block!BlockShred
      BY <3>2, ShredInBlock DEF Ideal!BlockShred, Block!BlockShred
    <3>4. heard' = heard \cup {y \in {x} : sh.root # None}
      BY <3>1 DEF Insert
    <3> HIDE DEF sh
    <3>5. CASE sh.root # None
      <4>1. heard' = heard \cup {x}
        BY <3>4, <3>5
      <4>2. Block!Hear(x)
        BY <4>1 DEF Block!Hear, Pushed
      <4> QED
        BY <4>2, <3>3 DEF Block!BlockNext
    <3>6. CASE sh.root = None
      <4>1. heard' = heard
        BY <3>4, <3>6
      <4>2. Pushed' = Pushed
        BY <4>1
      <4> QED
        BY <4>1, <4>2 DEF Block!blockVars, Pushed
    <3> QED
      BY <3>5, <3>6
  <2>2. CASE UNCHANGED vars
    BY <2>2 DEF vars, Block!blockVars, Bounds
  <2> QED
    BY <2>1, <2>2
<1> HIDE DEF Done
<1> QED
  BY <1>1, <1>2, <1>3, SpecIInv, SpecSetsSound, SpecCoupled, SlotNoReadyRunLeft, PTL
  DEF Spec, OrderIndependent, Block!BlockSpec

=============================================================================
