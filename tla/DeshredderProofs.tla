-------------------------- MODULE DeshredderProofs --------------------------
(***************************************************************************)
(* Proofs about Deshredder, for every geometry, every set of datagrams,    *)
(* every slot_lookback of at least one and every width of slot numbers.    *)
(***************************************************************************)
EXTENDS Deshredder, SlotLemmas

SlotNumber == 0 .. (W - 1)

(* Every kept slot is sound and its number lies in the window or past it.   *)
MapInv ==
  /\ DOMAIN slots \subseteq SlotNumber
  /\ \A s \in DOMAIN slots : SlotInv(slots[s])
  /\ \A s \in DOMAIN slots : s + L >= highest_slot
  /\ highest_slot \in SlotNumber

(* What was handed out for a kept slot is made of runs of that slot and     *)
(* covers its consumed indexes; a slot that is gone has become stale.       *)
HandedInv ==
  /\ \A r \in AllHanded : /\ r \in SlotNumber \X Index \X Index
                          /\ r[2] <= r[3]
                          /\ r[1] <= highest_slot
                          /\ r[1] \in DOMAIN slots \/ Stale(r[1], highest_slot)
  /\ \A r \in AllHanded : r[1] \in DOMAIN slots =>
       /\ r[2] .. r[3] \subseteq slots[r[1]].consumed
       /\ IsRun(slots[r[1]], r[2], r[3])
  /\ \A s \in DOMAIN slots : \A i \in slots[s].consumed :
       \E r \in AllHanded : r[1] = s /\ i \in r[2] .. r[3]
  /\ highest_slot # 0 => \E r \in AllHanded : r[1] = highest_slot

IInv == MapInv /\ HandedInv

-----------------------------------------------------------------------------
(* Wrapping addition never exceeds the true sum.                            *)
LEMMA AddBound ==
  ASSUME NEW s \in SlotNumber
  PROVE  Add(s, L) \in Nat /\ Add(s, L) <= s + L
         /\ (s + L < W => Add(s, L) = s + L)
<1>1. s + L \in Nat /\ W \in Nat \ {0}
  BY ConfigAssumption DEF SlotNumber
<1> DEFINE x == s + L
<1> HIDE DEF x
<1>2. \A y \in Nat : /\ y % W \in Nat /\ y % W <= y
                     /\ y < W => y % W = y
  <2> SUFFICES ASSUME NEW y \in Nat
               PROVE  y % W \in Nat /\ y % W <= y /\ (y < W => y % W = y)
    OBVIOUS
  <2>1. /\ y % W \in 0 .. (W - 1) /\ y \div W \in Nat
        /\ y = W * (y \div W) + (y % W)
    BY <1>1
  <2>2. W * (y \div W) \in Nat
    BY <2>1, <1>1
  <2>3. y \div W # 0 => W * (y \div W) >= W
    BY <2>1, <1>1
  <2> QED
    BY <2>1, <2>2, <2>3, <1>1
<1> QED
  BY <1>1, <1>2 DEF Add

(* A finite interval bounds the number of its members below a slot.         *)
LEMMA FewBelow ==
  ASSUME NEW D, NEW a \in Int, NEW s \in Int, a <= s,
         \A x \in D : x \in Int /\ x >= a
  PROVE  Cardinality({x \in D : x < s}) \in Nat
         /\ Cardinality({x \in D : x < s}) <= s - a
<1>1. {x \in D : x < s} \subseteq a .. (s - 1)
  OBVIOUS
<1>2. IsFiniteSet(a .. (s - 1)) /\ Cardinality(a .. (s - 1)) = s - a
  <2>1. s - 1 \in Int
    OBVIOUS
  <2>2. /\ IsFiniteSet(a .. (s - 1))
        /\ Cardinality(a .. (s - 1)) = IF a > s - 1 THEN 0 ELSE (s - 1) - a + 1
    BY <2>1, FS_Interval, Zenon
  <2> QED
    BY <2>2
<1>3. /\ IsFiniteSet({x \in D : x < s})
      /\ Cardinality({x \in D : x < s}) <= Cardinality(a .. (s - 1))
  BY <1>1, <1>2, FS_Subset
<1> QED
  BY <1>2, <1>3, FS_CardinalityType

(* What eviction keeps is unchanged and in the window; what it drops is     *)
(* stale or at least 3 * slot_lookback past the window.                     *)
LEMMA EvictFacts ==
  ASSUME NEW map, DOMAIN map \subseteq SlotNumber, NEW moved \in BOOLEAN,
         NEW n \in SlotNumber, NEW h \in SlotNumber,
         moved => h = n,
         ~moved => \A s \in DOMAIN map : s + L >= h
  PROVE  LET end == Evict(map, moved, n)
         IN  /\ DOMAIN end \subseteq DOMAIN map
             /\ \A s \in DOMAIN end : end[s] = map[s] /\ s + L >= h
             /\ \A s \in DOMAIN map \ DOMAIN end :
                  (moved /\ Stale(s, h)) \/ s >= h + 3 * L
<1> DEFINE mid == IF moved THEN PopOld(map, n) ELSE map
           end == Evict(map, moved, n)
<1>1. \A s \in SlotNumber : s \in Nat
  BY ConfigAssumption DEF SlotNumber
<1>2. /\ DOMAIN mid \subseteq DOMAIN map
      /\ \A s \in DOMAIN mid : mid[s] = map[s] /\ s + L >= h
      /\ \A s \in DOMAIN map \ DOMAIN mid : moved /\ Stale(s, h)
  <2>1. CASE moved
    <3> DEFINE S == {s \in DOMAIN map : \E x \in DOMAIN map : x <= s /\ Add(x, L) >= n}
    <3>1. mid = [s \in DOMAIN map \cap S |-> map[s]]
      BY <2>1 DEF PopOld, Keep
    <3>2. ASSUME NEW s \in S PROVE s + L >= h
      <4>1. PICK x \in DOMAIN map : x <= s /\ Add(x, L) >= n
        OBVIOUS
      <4>2. Add(x, L) \in Nat /\ Add(x, L) <= x + L
        BY AddBound
      <4>3. x \in Nat /\ s \in Nat /\ n \in Nat /\ L \in Nat
        BY <1>1, ConfigAssumption
      <4> QED
        BY <2>1, <4>1, <4>2, <4>3
    <3>3. ASSUME NEW s \in DOMAIN map \ S PROVE Stale(s, h)
      <4>1. s <= s /\ Add(s, L) \in Nat /\ n \in Nat
        BY <1>1, AddBound
      <4>2. ~(Add(s, L) >= n)
        BY <4>1
      <4> QED
        BY <2>1, <4>1, <4>2 DEF Stale
    <3> QED
      BY <2>1, <3>1, <3>2, <3>3
  <2>2. CASE ~moved
    BY <2>2
  <2> QED
    BY <2>1, <2>2
<1> HIDE DEF mid
<1> DEFINE F == {s \in DOMAIN mid : Cardinality({x \in DOMAIN mid : x < s}) < 4 * L}
<1>3. end = [s \in DOMAIN mid \cap F |-> mid[s]]
  BY DEF Evict, PopFar, Keep, mid
<1>4. ASSUME NEW s \in DOMAIN mid \ F PROVE s >= h + 3 * L
  <2>1. s \in Int /\ h \in Int /\ L \in Nat
    BY <1>1, <1>2, ConfigAssumption
  <2>2. \A x \in DOMAIN mid : x \in Int /\ x >= h - L
    <3>1. \A x \in DOMAIN mid : x \in Int /\ x + L >= h
      BY <1>1, <1>2
    <3> QED
      BY <3>1, <2>1
  <2>3. h - L <= s /\ h - L \in Int
    BY <2>1, <2>2
  <2>4. /\ Cardinality({x \in DOMAIN mid : x < s}) \in Nat
        /\ Cardinality({x \in DOMAIN mid : x < s}) <= s - (h - L)
    BY <2>1, <2>2, <2>3, FewBelow
  <2>5. ~(Cardinality({x \in DOMAIN mid : x < s}) < 4 * L)
    OBVIOUS
  <2> QED
    BY <2>1, <2>4, <2>5
<1> QED
  BY <1>2, <1>3, <1>4

-----------------------------------------------------------------------------
(* The initial state satisfies the invariant.                               *)
LEMMA InitIInv == Init => IInv
<1> SUFFICES ASSUME Init PROVE IInv
  OBVIOUS
<1>1. DOMAIN slots = {} /\ highest_slot = 0 /\ AllHanded = {}
  BY DEF Init, AllHanded, Handed
<1>2. 0 \in SlotNumber
  BY ConfigAssumption DEF SlotNumber
<1> QED
  BY <1>1, <1>2 DEF IInv, MapInv, HandedInv

(* A slot that is accepted and not in the map has handed nothing out.       *)
LEMMA NewSlotIsFresh ==
  ASSUME IInv, NEW n \in SlotNumber, ~Stale(n, highest_slot)
  PROVE  /\ SlotInv(SlotAt(n))
         /\ n + L >= highest_slot
         /\ \A r \in AllHanded : r[1] = n =>
              /\ r[2] .. r[3] \subseteq SlotAt(n).consumed
              /\ IsRun(SlotAt(n), r[2], r[3])
         /\ \A i \in SlotAt(n).consumed : \E r \in AllHanded : r[1] = n /\ i \in r[2] .. r[3]
<1>1. CASE n \in DOMAIN slots
  BY <1>1 DEF IInv, MapInv, HandedInv, SlotAt
<1>2. CASE n \notin DOMAIN slots
  <2>1. SlotAt(n) = SlotDefault /\ SlotDefault.consumed = {}
    BY <1>2 DEF SlotAt, SlotDefault
  <2>2. \A r \in AllHanded : r[1] # n
    BY <1>2 DEF IInv, HandedInv
  <2>3. Add(n, L) \in Nat /\ Add(n, L) <= n + L /\ highest_slot \in Nat /\ n \in Nat /\ L \in Nat
    BY AddBound, ConfigAssumption DEF IInv, MapInv, SlotNumber
  <2>4. n + L >= highest_slot
    BY <2>3 DEF Stale
  <2> QED
    BY <2>1, <2>2, <2>4, SlotDefaultInv
<1> QED
  BY <1>1, <1>2

(* push_raw of a shred that reaches its slot preserves the invariant, hands *)
(* out nothing twice and evicts only far slots.                             *)
LEMMA PushShredStep ==
  ASSUME L >= 1, IInv, NEW p \in Packet, PushShred(p)
  PROVE  /\ IInv'
         /\ ExactlyOnce'
         /\ \A s \in DOMAIN slots \ DOMAIN slots' :
              Stale(s, highest_slot') \/ s >= highest_slot' + 3 * L
<1> DEFINE sh == Parse(p)
           n == sh.slot
           st == SlotAt(n)
           ins == SlotInsert(st, sh, Recovery)
           segs == Segments(st, sh, Recovery)
           moved == segs # {} /\ n > highest_slot
           map == With(slots, n, ins)
           hi == IF moved THEN n ELSE highest_slot
<1>1. /\ WellFormed(p) /\ ~Panics(sh) /\ ~Stale(n, highest_slot)
      /\ slots' = Evict(map, moved, n)
      /\ highest_slot' = hi
      /\ out' = {RawBatch(n, g) : g \in segs}
      /\ emitted' = AllHanded
  BY DEF PushShred, Moves, Accepted, Hand, AllHanded
<1>2. p \in Datagram /\ p.slot < W /\ Recovery \in BOOLEAN
  BY ConfigAssumption, PacketAssumption
<1>3. IsShred(sh) /\ n = p.slot
  BY <1>1, <1>2, ParseIsShred
<1>4. n \in SlotNumber
  BY <1>2, <1>3, ConfigAssumption DEF SlotNumber, IsShred
<1>5. /\ SlotInv(st)
      /\ n + L >= highest_slot
      /\ \A r \in AllHanded : r[1] = n =>
           r[2] .. r[3] \subseteq st.consumed /\ IsRun(st, r[2], r[3])
      /\ \A i \in st.consumed : \E r \in AllHanded : r[1] = n /\ i \in r[2] .. r[3]
  BY <1>1, <1>4, NewSlotIsFresh
<1> HIDE DEF sh, n, st
<1>6. /\ SlotInv(ins)
      /\ \A g \in segs : /\ g.start \in Index /\ g.end \in Index /\ g.start <= g.end
                         /\ IsRun(ins, g.start, g.end)
      /\ \A i : i \in ins.consumed <=>
                  i \in st.consumed \/ \E g \in segs : i \in g.start .. g.end
      /\ \A s, e \in Index : IsRun(st, s, e) => IsRun(ins, s, e)
  BY <1>2, <1>3, <1>5, SlotInsertInv
<1>7. \A g \in segs :
        /\ \A h \in segs : g # h => g.end < h.start \/ h.end < g.start
        /\ \A s, e \in Index :
             s <= e /\ s .. e \subseteq st.consumed => g.end < s \/ e < g.start
  BY <1>2, <1>3, <1>5, SegmentsApart
<1> HIDE DEF ins, segs
<1>8. highest_slot \in SlotNumber /\ hi \in SlotNumber /\ highest_slot <= hi
      /\ \A s \in SlotNumber : s \in Nat
  BY <1>4, ConfigAssumption DEF IInv, MapInv, SlotNumber
<1>9. /\ DOMAIN map = DOMAIN slots \cup {n}
      /\ \A s \in DOMAIN map : map[s] = IF s = n THEN ins ELSE slots[s]
  BY DEF With
<1>10. DOMAIN map \subseteq SlotNumber
  BY <1>4, <1>9 DEF IInv, MapInv
<1>11. ~moved => \A s \in DOMAIN map : s + L >= hi
  BY <1>5, <1>9 DEF IInv, MapInv
<1>12. moved \in BOOLEAN /\ (moved => hi = n)
  OBVIOUS
<1> HIDE DEF map, moved
<1>13. /\ DOMAIN slots' \subseteq DOMAIN map
       /\ \A s \in DOMAIN slots' : slots'[s] = map[s] /\ s + L >= hi
       /\ \A s \in DOMAIN map \ DOMAIN slots' :
            (moved /\ Stale(s, hi)) \/ s >= hi + 3 * L
  BY <1>1, <1>4, <1>8, <1>10, <1>11, <1>12, EvictFacts
<1>14. segs # {} => n <= hi
  BY <1>4, <1>8 DEF moved
<1> HIDE DEF hi
<1>15. \A r : r \in Handed(out)' <=> \E g \in segs : r = <<n, g.start, g.end>>
  <2>1. \A g : <<RawBatch(n, g).slot, RawBatch(n, g).start, RawBatch(n, g).end>>
                 = <<n, g.start, g.end>>
    BY DEF RawBatch
  <2>2. \A r : r \in Handed(out)' <=>
                 \E b \in out' : r = <<b.slot, b.start, b.end>>
    BY DEF Handed
  <2>3. ASSUME NEW b \in out'
        PROVE  \E g \in segs : <<b.slot, b.start, b.end>> = <<n, g.start, g.end>>
    <3>1. PICK g \in segs : b = RawBatch(n, g)
      BY <1>1
    <3> QED
      BY <3>1, <2>1
  <2>4. ASSUME NEW g \in segs
        PROVE  \E b \in out' : <<n, g.start, g.end>> = <<b.slot, b.start, b.end>>
    <3>1. RawBatch(n, g) \in out'
      BY <1>1
    <3> QED
      BY <3>1, <2>1
  <2> QED
    BY <2>2, <2>3, <2>4
<1>16. \A r : r \in AllHanded' <=>
          r \in AllHanded \/ \E g \in segs : r = <<n, g.start, g.end>>
  BY <1>1, <1>15 DEF AllHanded
<1>17. MapInv'
  <2>1. \A s \in DOMAIN slots' : SlotInv(slots'[s])
    BY <1>6, <1>9, <1>13 DEF IInv, MapInv
  <2> QED
    BY <2>1, <1>1, <1>8, <1>10, <1>13 DEF MapInv
<1>18. ASSUME NEW r \in AllHanded'
       PROVE  /\ r \in SlotNumber \X Index \X Index
              /\ r[2] <= r[3]
              /\ r[1] <= hi
              /\ r[1] \in DOMAIN slots' \/ Stale(r[1], hi)
              /\ r[1] \in DOMAIN slots' =>
                   /\ r[2] .. r[3] \subseteq slots'[r[1]].consumed
                   /\ IsRun(slots'[r[1]], r[2], r[3])
  <2>1. /\ r \in SlotNumber \X Index \X Index
        /\ r[2] <= r[3]
        /\ r[1] <= hi
        /\ r[1] \in DOMAIN map \/ Stale(r[1], hi)
        /\ r[1] \in DOMAIN map =>
             r[2] .. r[3] \subseteq map[r[1]].consumed /\ IsRun(map[r[1]], r[2], r[3])
    <3>1. CASE r \in AllHanded
      <4>1. /\ r \in SlotNumber \X Index \X Index /\ r[1] \in SlotNumber
            /\ r[2] <= r[3] /\ r[1] <= highest_slot
            /\ r[1] \in DOMAIN slots \/ Stale(r[1], highest_slot)
            /\ r[1] \in DOMAIN slots =>
                 /\ r[2] .. r[3] \subseteq slots[r[1]].consumed
                 /\ IsRun(slots[r[1]], r[2], r[3])
        BY <3>1 DEF IInv, HandedInv
      <4>2. r[1] <= hi
        BY <4>1, <1>8
      <4>3. Stale(r[1], highest_slot) => Stale(r[1], hi)
        <5>1. Add(r[1], L) \in Nat
          BY <4>1, AddBound
        <5> QED
          BY <5>1, <1>8 DEF Stale
      <4>4. r[1] = n => r[2] .. r[3] \subseteq ins.consumed /\ IsRun(ins, r[2], r[3])
        <5>1. r[2] \in Index /\ r[3] \in Index
          BY <4>1
        <5> QED
          BY <3>1, <5>1, <1>5, <1>6
      <4> QED
        BY <4>1, <4>2, <4>3, <4>4, <1>9
    <3>2. CASE \E g \in segs : r = <<n, g.start, g.end>>
      BY <3>2, <1>4, <1>6, <1>9, <1>14
    <3> QED
      BY <3>1, <3>2, <1>16
  <2>2. r[1] \in DOMAIN map \ DOMAIN slots' => Stale(r[1], hi)
    <3>1. r[1] \in Nat /\ hi \in Nat /\ L \in Nat
      BY <2>1, <1>8, ConfigAssumption
    <3>2. ~(r[1] >= hi + 3 * L)
      BY <2>1, <3>1
    <3> QED
      BY <3>2, <1>13
  <2> QED
    BY <2>1, <2>2, <1>13
<1>19. ASSUME NEW s \in DOMAIN slots', NEW i \in slots'[s].consumed
       PROVE  \E r \in AllHanded' : r[1] = s /\ i \in r[2] .. r[3]
  <2>1. s \in DOMAIN map /\ slots'[s] = map[s]
    BY <1>13
  <2>2. CASE s # n
    BY <2>1, <2>2, <1>9, <1>16 DEF IInv, HandedInv
  <2>3. CASE s = n /\ i \in st.consumed
    BY <2>3, <1>5, <1>16
  <2>4. CASE s = n /\ \E g \in segs : i \in g.start .. g.end
    <3>1. PICK g \in segs : i \in g.start .. g.end
      BY <2>4
    <3>2. <<n, g.start, g.end>> \in AllHanded'
      BY <1>16
    <3> QED
      BY <2>4, <3>1, <3>2
  <2> QED
    BY <2>1, <2>2, <2>3, <2>4, <1>6, <1>9
<1>20. hi # 0 => \E r \in AllHanded' : r[1] = hi
  <2>1. CASE moved
    <3>1. PICK g \in segs : TRUE
      BY <2>1 DEF moved
    <3>2. <<n, g.start, g.end>> \in AllHanded'
      BY <1>16
    <3> QED
      BY <2>1, <3>2, <1>12
  <2>2. CASE ~moved
    <3>1. hi = highest_slot
      BY <2>2 DEF hi
    <3> QED
      BY <3>1, <1>16 DEF IInv, HandedInv
  <2> QED
    BY <2>1, <2>2
<1>21. IInv'
  BY <1>1, <1>17, <1>18, <1>19, <1>20 DEF IInv, HandedInv
<1>22. ExactlyOnce'
  <2>1. \A b \in out' : \E g \in segs : b = RawBatch(n, g)
    BY <1>1
  <2>2. \A g : /\ RawBatch(n, g).start = g.start /\ RawBatch(n, g).end = g.end
               /\ RawBatch(n, g).slot = n
    BY DEF RawBatch
  <2>3. \A b, c \in out' : b # c => b.end < c.start \/ c.end < b.start
    <3> SUFFICES ASSUME NEW b \in out', NEW c \in out', b # c
                 PROVE  b.end < c.start \/ c.end < b.start
      OBVIOUS
    <3>1. PICK g \in segs : b = RawBatch(n, g)
      BY <2>1
    <3>2. PICK h \in segs : c = RawBatch(n, h)
      BY <2>1
    <3>3. g # h
      BY <3>1, <3>2
    <3> QED
      BY <3>1, <3>2, <3>3, <2>2, <1>7
  <2>4. \A b \in out', r \in AllHanded : b.slot = r[1] => b.end < r[2] \/ r[3] < b.start
    <3> SUFFICES ASSUME NEW b \in out', NEW r \in AllHanded, b.slot = r[1]
                 PROVE  b.end < r[2] \/ r[3] < b.start
      OBVIOUS
    <3>1. PICK g \in segs : b = RawBatch(n, g)
      BY <2>1
    <3>2. r[1] = n /\ b.start = g.start /\ b.end = g.end
      BY <3>1, <2>2
    <3>3. r[2] \in Index /\ r[3] \in Index /\ r[2] <= r[3]
      BY DEF IInv, HandedInv
    <3>4. r[2] .. r[3] \subseteq st.consumed
      BY <3>2, <1>5
    <3> QED
      BY <3>2, <3>3, <3>4, <1>7
  <2> QED
    BY <2>3, <2>4, <1>1 DEF ExactlyOnce
<1>23. \A s \in DOMAIN slots \ DOMAIN slots' :
         Stale(s, highest_slot') \/ s >= highest_slot' + 3 * L
  BY <1>1, <1>9, <1>13
<1> QED
  BY <1>21, <1>22, <1>23

(* The ways through push_raw that hand nothing out preserve the invariant.  *)
LEMMA QuietStep ==
  ASSUME IInv, out' = {}, emitted' = emitted \cup Handed(out),
         UNCHANGED highest_slot,
         \/ UNCHANGED slots
         \/ \E n \in SlotNumber : /\ ~Stale(n, highest_slot)
                                  /\ slots' = With(slots, n, SlotAt(n))
  PROVE  /\ IInv'
         /\ ExactlyOnce'
         /\ DOMAIN slots \subseteq DOMAIN slots'
<1>1. AllHanded' = AllHanded
  BY DEF AllHanded, Handed
<1>2. ExactlyOnce'
  BY DEF ExactlyOnce
<1>3. CASE UNCHANGED slots
  BY <1>1, <1>2, <1>3 DEF IInv, MapInv, HandedInv
<1>4. ASSUME NEW n \in SlotNumber, ~Stale(n, highest_slot),
             slots' = With(slots, n, SlotAt(n))
      PROVE  IInv' /\ DOMAIN slots \subseteq DOMAIN slots'
  <2>1. /\ SlotInv(SlotAt(n))
        /\ n + L >= highest_slot
        /\ \A r \in AllHanded : r[1] = n =>
             /\ r[2] .. r[3] \subseteq SlotAt(n).consumed
             /\ IsRun(SlotAt(n), r[2], r[3])
        /\ \A i \in SlotAt(n).consumed : \E r \in AllHanded : r[1] = n /\ i \in r[2] .. r[3]
    BY <1>4, NewSlotIsFresh
  <2>2. /\ DOMAIN slots' = DOMAIN slots \cup {n}
        /\ \A s \in DOMAIN slots' : slots'[s] = IF s = n THEN SlotAt(n) ELSE slots[s]
    BY <1>4 DEF With
  <2>3. MapInv'
    BY <2>1, <2>2 DEF IInv, MapInv
  <2>4. HandedInv'
    <3>1. \A r \in AllHanded : /\ r \in SlotNumber \X Index \X Index
                               /\ r[2] <= r[3]
                               /\ r[1] <= highest_slot
                               /\ r[1] \in DOMAIN slots' \/ Stale(r[1], highest_slot)
      BY <2>2 DEF IInv, HandedInv
    <3>2. \A r \in AllHanded : r[1] \in DOMAIN slots' =>
            r[2] .. r[3] \subseteq slots'[r[1]].consumed /\ IsRun(slots'[r[1]], r[2], r[3])
      BY <2>1, <2>2 DEF IInv, HandedInv
    <3>3. \A s \in DOMAIN slots' : \A i \in slots'[s].consumed :
            \E r \in AllHanded : r[1] = s /\ i \in r[2] .. r[3]
      BY <2>1, <2>2 DEF IInv, HandedInv
    <3>4. highest_slot # 0 => \E r \in AllHanded : r[1] = highest_slot
      BY DEF IInv, HandedInv
    <3> QED
      BY <3>1, <3>2, <3>3, <3>4, <1>1 DEF HandedInv
  <2> QED
    BY <2>2, <2>3, <2>4 DEF IInv
<1> QED
  BY <1>2, <1>3, <1>4

(* Every step preserves the invariant, hands out nothing twice and evicts   *)
(* only stale or far slots.                                                 *)
LEMMA StepIInv ==
  ASSUME L >= 1, IInv, ExactlyOnce, [Next]_vars
  PROVE  /\ IInv'
         /\ ExactlyOnce'
         /\ \A s \in DOMAIN slots \ DOMAIN slots' :
              Stale(s, highest_slot') \/ s >= highest_slot' + 3 * L
<1>1. CASE Next
  <2>1. PICK p \in Packet : Push(p)
    BY <1>1 DEF Next
  <2>2. CASE PushInvalid(p) \/ PushWrongVersion(p) \/ PushStale(p)
    <3>1. /\ out' = {} /\ emitted' = emitted \cup Handed(out)
          /\ UNCHANGED highest_slot /\ UNCHANGED slots
      BY <2>2 DEF PushInvalid, PushWrongVersion, PushStale, Ignore, Hand
    <3> QED
      BY <3>1, QuietStep
  <2>3. CASE PushPanics(p)
    <3>1. /\ out' = {} /\ emitted' = emitted \cup Handed(out)
          /\ UNCHANGED highest_slot
          /\ ~Stale(Parse(p).slot, highest_slot)
          /\ slots' = With(slots, Parse(p).slot, SlotAt(Parse(p).slot))
      BY <2>3 DEF PushPanics, Hand
    <3>2. Parse(p).slot \in SlotNumber
      <4>1. Parse(p).slot = p.slot /\ p \in Datagram /\ p.slot < W
        BY ConfigAssumption, PacketAssumption DEF Parse
      <4> QED
        BY <4>1, ConfigAssumption DEF SlotNumber, Datagram
    <3>3. IInv' /\ ExactlyOnce' /\ DOMAIN slots \subseteq DOMAIN slots'
      BY <3>1, <3>2, QuietStep
    <3> QED
      BY <3>3
  <2>4. CASE PushShred(p)
    BY <2>4, PushShredStep
  <2> QED
    BY <2>1, <2>2, <2>3, <2>4 DEF Push
<1>2. CASE UNCHANGED vars
  BY <1>2 DEF vars, IInv, MapInv, HandedInv, AllHanded, Handed, ExactlyOnce
<1> QED
  BY <1>1, <1>2

(* The invariant and exactly-once hold in every reachable state.            *)
LEMMA SpecIInv ==
  ASSUME L >= 1
  PROVE  Spec => [](IInv /\ ExactlyOnce)
<1>1. Init => IInv /\ ExactlyOnce
  BY InitIInv DEF Init, ExactlyOnce
<1>2. IInv /\ ExactlyOnce /\ [Next]_vars => (IInv /\ ExactlyOnce)'
  BY StepIInv
<1> QED
  BY <1>1, <1>2, PTL DEF Spec

(* With a slot_lookback of at least one, no data shred of a slot is handed  *)
(* out twice, although eviction forgets what a slot has handed out.         *)
THEOREM DeshredderExactlyOnce ==
  ASSUME L >= 1
  PROVE  Spec => []ExactlyOnce
BY SpecIInv, PTL

(* The consumed bits of a kept slot are what it handed out, and a slot that *)
(* handed something out and was evicted is stale.                           *)
THEOREM DeshredderRemembers ==
  ASSUME L >= 1
  PROVE  Spec => []HandedIsRemembered
<1>1. IInv => HandedIsRemembered
  <2> SUFFICES ASSUME IInv PROVE HandedIsRemembered
    OBVIOUS
  <2>1. ASSUME NEW s \in DOMAIN slots
        PROVE  slots[s].consumed = UNION {r[2] .. r[3] : r \in {x \in AllHanded : x[1] = s}}
    <3>1. \A i : i \in slots[s].consumed <=>
                   \E r \in AllHanded : r[1] = s /\ i \in r[2] .. r[3]
      BY DEF IInv, HandedInv
    <3>2. \A i : i \in UNION {r[2] .. r[3] : r \in {x \in AllHanded : x[1] = s}} <=>
                   \E r \in AllHanded : r[1] = s /\ i \in r[2] .. r[3]
      OBVIOUS
    <3> QED
      BY <3>1, <3>2
  <2>2. \A r \in AllHanded : r[1] \in DOMAIN slots \/ Stale(r[1], highest_slot)
    BY DEF IInv, HandedInv
  <2> QED
    BY <2>1, <2>2 DEF HandedIsRemembered
<1> QED
  BY <1>1, SpecIInv, PTL

(* The window's upper end is the newest slot that handed out a batch.       *)
THEOREM DeshredderWindow ==
  ASSUME L >= 1
  PROVE  Spec => []WindowFollowsBatches
<1>1. IInv => WindowFollowsBatches
  BY DEF IInv, HandedInv, WindowFollowsBatches
<1> QED
  BY <1>1, SpecIInv, PTL

(* A kept slot never meets the stale test, except at the top of u64.        *)
THEOREM DeshredderKeptIsNotStale ==
  ASSUME L >= 1
  PROVE  Spec => []KeptIsNotStale
<1>1. IInv => KeptIsNotStale
  <2> SUFFICES ASSUME IInv, NEW s \in DOMAIN slots, s + L < W
               PROVE  ~Stale(s, highest_slot)
    BY DEF KeptIsNotStale
  <2>1. s \in SlotNumber /\ s + L >= highest_slot /\ highest_slot \in Nat /\ s + L \in Nat
    BY ConfigAssumption DEF IInv, MapInv, SlotNumber
  <2>2. Add(s, L) = s + L
    BY <2>1, AddBound
  <2> QED
    BY <2>1, <2>2 DEF Stale
<1> QED
  BY <1>1, SpecIInv, PTL

(* Eviction never costs a slot in the window or just ahead of it.           *)
THEOREM DeshredderEvictsOnlyFarSlots ==
  ASSUME L >= 1
  PROVE  Spec => EvictsOnlyFarSlots
<1>1. IInv /\ ExactlyOnce /\ [Next]_vars =>
        [\A s \in DOMAIN slots \ DOMAIN slots' :
           Stale(s, highest_slot') \/ s >= highest_slot' + 3 * L]_vars
  BY StepIInv
<1> QED
  BY <1>1, SpecIInv, PTL DEF Spec, EvictsOnlyFarSlots

-----------------------------------------------------------------------------
(* One packet recovers and completes finitely many things.                  *)
LEMMA InsertCountsType ==
  ASSUME NEW st, SlotInv(st), NEW sh, IsShred(sh)
  PROVE  InsertCounts(st, sh, Segments(st, sh, Recovery)) \in [Counter -> Nat]
<1> DEFINE segs == Segments(st, sh, Recovery)
           rec == Recovered(st, sh, Recovery)
           new == Verdict(st, sh) = "new"
<1>0. Recovery \in BOOLEAN
  BY PacketAssumption
<1>1. Cardinality(segs) \in Nat
  <2> DEFINE mid == Stow(st, sh, Recovery)
             runs == ReadyRuns(mid, Fresh(st, sh, Recovery))
             seg == [r \in runs |-> SegmentOf(mid, r)]
  <2>1. IsFiniteSet(Index)
    BY FS_Interval, GeometryAssumption DEF Index, MAX_SHREDS_PER_SLOT
  <2>2. IsFiniteSet(Index \X Index)
    BY <2>1, FS_Product
  <2>3. runs \subseteq Index \X Index
    BY DEF ReadyRuns
  <2>4. IsFiniteSet(runs)
    BY <2>2, <2>3, FS_Subset
  <2>5. segs = {} \/ segs = {seg[r] : r \in runs}
    BY DEF Segments
  <2> HIDE DEF runs
  <2>6. IsFiniteSet({seg[r] : r \in runs})
    <3>1. seg \in Surjection(runs, {seg[r] : r \in runs})
      BY DEF Surjection
    <3> HIDE DEF seg
    <3> QED
      BY <2>4, <3>1, FS_Surjection
  <2>7. IsFiniteSet({})
    BY FS_EmptySet
  <2> QED
    BY <2>5, <2>6, <2>7, FS_CardinalityType
<1>2. new => Cardinality(rec) \in Nat
  <2> SUFFICES ASSUME new PROVE Cardinality(rec) \in Nat
    OBVIOUS
  <2>1. rec \subseteq SetRange(sh.fec)
    BY <1>0, NewSetInv DEF Fresh
  <2>2. sh.fec \in Int /\ sh.fec + K - 1 \in Int
    BY SetInIndex, GeometryAssumption DEF IsShred, Position
  <2>3. IsFiniteSet(SetRange(sh.fec))
    BY <2>2, FS_Interval DEF SetRange
  <2> QED
    BY <2>1, <2>3, FS_Subset, FS_CardinalityType
<1> DEFINE base == Count({"packets", Verdict(st, sh)})
<1>3. base \in [Counter -> Nat]
  BY DEF Count
<1> HIDE DEF segs, rec, new, base
<1>4. InsertCounts(st, sh, segs) =
        [base EXCEPT !["recovered"] = IF new THEN Cardinality(rec) ELSE 0,
                     !["recovery_failures"] = IF new /\ RecoveryFails(st, sh, Recovery) THEN 1 ELSE 0,
                     !["batches"] = Cardinality(segs)]
  BY DEF InsertCounts, new, rec, base
<1>5. (IF new THEN Cardinality(rec) ELSE 0) \in Nat
  BY <1>2
<1>6. \A t \in [Counter -> Nat], x \in Nat, c \in Counter : [t EXCEPT ![c] = x] \in [Counter -> Nat]
  OBVIOUS
<1>7. (IF new /\ RecoveryFails(st, sh, Recovery) THEN 1 ELSE 0) \in Nat
  OBVIOUS
<1>8. "recovered" \in Counter /\ "recovery_failures" \in Counter /\ "batches" \in Counter
  BY DEF Counter
<1>9. InsertCounts(st, sh, segs) \in [Counter -> Nat]
  BY <1>1, <1>3, <1>4, <1>5, <1>6, <1>7, <1>8, Zenon
<1> QED
  BY <1>9 DEF segs

(* What one push hands out and counts is well typed.                        *)
PushOK ==
  /\ \A b \in out : b.slot \in SlotNumber /\ IsSegment(b)
  /\ tally \in [Counter -> Nat]
  /\ panicked \in BOOLEAN

(* Every push hands out well-formed batches and counts in numbers.          *)
LEMMA StepPushOK ==
  ASSUME IInv, PushOK, [Next]_vars
  PROVE  PushOK'
<1>0. \A names : Count(names) \in [Counter -> Nat]
  BY DEF Count
<1>1. CASE Next
  <2>1. PICK p \in Packet : Push(p)
    BY <1>1 DEF Next
  <2>2. CASE PushInvalid(p) \/ PushWrongVersion(p) \/ PushStale(p)
    BY <2>2, <1>0 DEF PushInvalid, PushWrongVersion, PushStale, Ignore, Hand, PushOK
  <2>3. CASE PushPanics(p)
    BY <2>3, <1>0 DEF PushPanics, Hand, PushOK
  <2>4. CASE PushShred(p)
    <3> DEFINE sh == Parse(p)
               st == SlotAt(sh.slot)
               segs == Segments(st, sh, Recovery)
    <3>1. /\ WellFormed(p) /\ ~Panics(sh) /\ ~Stale(sh.slot, highest_slot)
          /\ out' = {RawBatch(sh.slot, g) : g \in segs}
          /\ tally' = InsertCounts(st, sh, segs)
          /\ panicked' = panicked
      BY <2>4 DEF PushShred, Moves, Accepted, Hand
    <3>2. p \in Datagram /\ p.slot < W /\ Recovery \in BOOLEAN
      BY ConfigAssumption, PacketAssumption
    <3>3. IsShred(sh) /\ sh.slot = p.slot
      BY <3>1, <3>2, ParseIsShred
    <3>4. sh.slot \in SlotNumber
      BY <3>2, <3>3, ConfigAssumption DEF SlotNumber, IsShred
    <3>5. SlotInv(st)
      BY <3>1, <3>4, NewSlotIsFresh
    <3> HIDE DEF sh, st
    <3>6. tally' \in [Counter -> Nat]
      BY <3>1, <3>3, <3>5, InsertCountsType
    <3>7. \A g \in segs : IsSegment(g)
      BY <3>2, <3>3, <3>5, SegmentsSound
    <3> HIDE DEF segs
    <3>8. ASSUME NEW g \in segs
          PROVE  IsSegment(RawBatch(sh.slot, g)) /\ RawBatch(sh.slot, g).slot = sh.slot
      <4>1. /\ RawBatch(sh.slot, g).start = g.start /\ RawBatch(sh.slot, g).end = g.end
            /\ RawBatch(sh.slot, g).bytes = g.bytes /\ RawBatch(sh.slot, g).last = g.last
            /\ RawBatch(sh.slot, g).slot = sh.slot
        BY DEF RawBatch
      <4>2. IsSegment(g)
        BY <3>7
      <4> QED
        BY <4>1, <4>2 DEF IsSegment
    <3> QED
      BY <3>1, <3>4, <3>6, <3>8 DEF PushOK
  <2> QED
    BY <2>1, <2>2, <2>3, <2>4 DEF Push
<1>2. CASE UNCHANGED vars
  BY <1>2 DEF vars, PushOK
<1> QED
  BY <1>1, <1>2

(* The core keeps its types: every batch it hands out is a run of shreds    *)
(* that were all there, with slot numbers inside u64.                       *)
THEOREM DeshredderTypeOK ==
  ASSUME L >= 1
  PROVE  Spec => []TypeOK
<1>1. Init => PushOK
  <2>1. Count({}) \in [Counter -> Nat]
    BY DEF Count
  <2> QED
    BY <2>1 DEF Init, PushOK
<1>2. IInv /\ ExactlyOnce /\ PushOK /\ [Next]_vars => PushOK'
  BY StepPushOK
<1>3. IInv /\ PushOK => TypeOK
  <2> SUFFICES ASSUME IInv, PushOK PROVE TypeOK
    OBVIOUS
  <2>1. \A s \in DOMAIN slots : slots[s] \in SlotState
    BY DEF IInv, MapInv, SlotInv
  <2>2. emitted \subseteq SlotNumber \X Index \X Index
    BY DEF IInv, HandedInv, AllHanded
  <2> QED
    BY <2>1, <2>2 DEF TypeOK, IInv, MapInv, PushOK, SlotNumber
<1> QED
  BY <1>1, <1>2, <1>3, SpecIInv, PTL DEF Spec

-----------------------------------------------------------------------------
(* Of a finite set of numbers, at most n have fewer than n below them: two  *)
(* of them never have equally many.                                         *)
LEMMA FewWithFewBelow ==
  ASSUME NEW D \in SUBSET Int, IsFiniteSet(D), NEW n \in Nat
  PROVE  LET F == {s \in D : Cardinality({x \in D : x < s}) < n}
         IN  IsFiniteSet(F) /\ Cardinality(F) <= n
<1> DEFINE Below(s) == {x \in D : x < s}
           F == {s \in D : Cardinality(Below(s)) < n}
           rank == [s \in F |-> Cardinality(Below(s))]
<1>1. \A s : IsFiniteSet(Below(s)) /\ Cardinality(Below(s)) \in Nat
  <2> SUFFICES ASSUME NEW s PROVE IsFiniteSet(Below(s)) /\ Cardinality(Below(s)) \in Nat
    OBVIOUS
  <2>1. Below(s) \in SUBSET D
    OBVIOUS
  <2> HIDE DEF Below
  <2> QED
    BY <2>1, FS_Subset, FS_CardinalityType
<1>2. \A s, t \in D : s < t => Cardinality(Below(s)) # Cardinality(Below(t))
  <2> SUFFICES ASSUME NEW s \in D, NEW t \in D, s < t
               PROVE  Cardinality(Below(s)) # Cardinality(Below(t))
    OBVIOUS
  <2>1. s \in Int /\ t \in Int /\ \A x \in D : x \in Int
    OBVIOUS
  <2>2. \A x \in Below(s) : x \in Below(t)
    <3> SUFFICES ASSUME NEW x \in D, x < s PROVE x < t
      OBVIOUS
    <3> QED
      BY <2>1
  <2>3. s \in Below(t)
    OBVIOUS
  <2>4. s \notin Below(s)
    BY <2>1
  <2>5. Below(s) \in SUBSET Below(t)
    BY <2>2
  <2> HIDE DEF Below
  <2> QED
    BY <2>3, <2>4, <2>5, <1>1, FS_Subset
<1>3. F \in SUBSET D
  OBVIOUS
<1>4. IsFiniteSet(F) /\ Cardinality(F) \in Nat
  BY <1>3, FS_Subset, FS_CardinalityType
<1>5. IsFiniteSet(0 .. (n - 1)) /\ Cardinality(0 .. (n - 1)) = n
  <2>1. 0 \in Int /\ n - 1 \in Int
    OBVIOUS
  <2>2. /\ IsFiniteSet(0 .. (n - 1))
        /\ Cardinality(0 .. (n - 1)) = IF 0 > n - 1 THEN 0 ELSE (n - 1) - 0 + 1
    BY <2>1, FS_Interval, Zenon
  <2> QED
    BY <2>2
<1> HIDE DEF Below
<1>6. rank \in [F -> 0 .. (n - 1)]
  BY <1>1
<1>7. \A s, t \in F : s # t => rank[s] # rank[t]
  BY <1>2, <1>3
<1> HIDE DEF F, rank
<1>8. ~(n < Cardinality(F))
  BY <1>4, <1>5, <1>6, <1>7, FS_PigeonHole
<1>9. Cardinality(F) <= n
  BY <1>4, <1>8
<1> QED
  BY <1>4, <1>9 DEF F, Below

(* The bound on the map: pop_last leaves at most 4 * slot_lookback slots.   *)
LEMMA EvictBound ==
  ASSUME NEW map, DOMAIN map \subseteq SlotNumber, NEW moved, NEW n
  PROVE  Cardinality(DOMAIN Evict(map, moved, n)) <= 4 * L
<1> DEFINE mid == IF moved THEN PopOld(map, n) ELSE map
           D == DOMAIN mid
           F == {s \in D : Cardinality({x \in D : x < s}) < 4 * L}
<1>1. Evict(map, moved, n) = [s \in D \cap F |-> mid[s]]
  BY DEF Evict, PopFar, Keep
<1>2. D \subseteq SlotNumber
  BY DEF PopOld, Keep
<1>3. IsFiniteSet(SlotNumber) /\ SlotNumber \subseteq Int
  BY FS_Interval, ConfigAssumption DEF SlotNumber
<1> HIDE DEF D, mid
<1>4. D \in SUBSET SlotNumber
  BY <1>2
<1>5. IsFiniteSet(D)
  BY <1>3, <1>4, FS_Subset
<1>6. D \in SUBSET Int
  BY <1>3, <1>4
<1>7. 4 * L \in Nat
  BY ConfigAssumption
<1>8. Cardinality(F) <= 4 * L
  BY <1>5, <1>6, <1>7, FewWithFewBelow
<1>9. D \cap F = F
  OBVIOUS
<1> HIDE DEF F
<1>10. DOMAIN Evict(map, moved, n) = F
  BY <1>1, <1>9
<1> QED
  BY <1>8, <1>10

(* The bounds alone, which need no memory of what was handed out and so     *)
(* hold for slot_lookback = 0 too.                                          *)
BoundInv ==
  /\ highest_slot \in SlotNumber
  /\ DOMAIN slots \subseteq SlotNumber
  /\ Bounded

(* A slot number that is not stale is within slot_lookback of the window's  *)
(* end, whether or not the sum wraps.                                       *)
LEMMA AddWithin ==
  ASSUME NEW x \in SlotNumber, NEW y \in SlotNumber, Add(x, L) >= y
  PROVE  x + L >= y
<1>1. x \in Nat /\ y \in Nat /\ L \in Nat /\ W \in Nat \ {0}
  BY ConfigAssumption DEF SlotNumber
<1>2. (x + L) % W <= x + L
  BY <1>1
<1> QED
  BY <1>1, <1>2 DEF Add

LEMMA SpecBoundInv == Spec => []BoundInv
<1>1. Init => BoundInv
  <2> SUFFICES ASSUME Init PROVE BoundInv
    OBVIOUS
  <2>1. DOMAIN slots = {} /\ highest_slot = 0
    BY DEF Init
  <2>2. 0 \in SlotNumber /\ 0 <= 4 * L
    BY ConfigAssumption DEF SlotNumber
  <2> QED
    BY <2>1, <2>2, FS_EmptySet DEF BoundInv, Bounded
<1>2. BoundInv /\ [Next]_vars => BoundInv'
  <2> SUFFICES ASSUME BoundInv, [Next]_vars PROVE BoundInv'
    OBVIOUS
  <2>1. CASE Next
    <3>1. PICK p \in Packet : Push(p)
      BY <2>1 DEF Next
    <3> DEFINE sh == Parse(p)
    <3>2. sh.slot \in SlotNumber
      <4>1. sh.slot = p.slot /\ p \in Datagram /\ p.slot < W
        BY ConfigAssumption, PacketAssumption DEF Parse
      <4> QED
        BY <4>1, ConfigAssumption DEF SlotNumber, Datagram
    <3> HIDE DEF sh
    <3>3. ~Stale(sh.slot, highest_slot) => sh.slot + L >= highest_slot
      <4>1. Add(sh.slot, L) \in Int /\ highest_slot \in Int
        BY <3>2, ConfigAssumption DEF Add, SlotNumber, BoundInv
      <4>2. highest_slot \in SlotNumber
        BY DEF BoundInv
      <4>3. ~Stale(sh.slot, highest_slot) => Add(sh.slot, L) >= highest_slot
        BY <4>1 DEF Stale
      <4> QED
        BY <3>2, <4>2, <4>3, AddWithin
    <3>4. CASE PushInvalid(p) \/ PushWrongVersion(p) \/ PushStale(p)
      BY <3>4 DEF PushInvalid, PushWrongVersion, PushStale, Ignore, BoundInv, Bounded
    <3>5. CASE PushPanics(p)
      <4>1. /\ DOMAIN slots' = DOMAIN slots \cup {sh.slot}
            /\ ~Stale(sh.slot, highest_slot) /\ panicked' /\ highest_slot' = highest_slot
        BY <3>5 DEF PushPanics, With, sh
      <4> QED
        BY <3>2, <3>3, <4>1 DEF BoundInv, Bounded
    <3>6. CASE PushShred(p)
      <4> DEFINE st == SlotAt(sh.slot)
                 moved == Moves(Segments(st, sh, Recovery), sh.slot)
                 map == With(slots, sh.slot, SlotInsert(st, sh, Recovery))
                 mid == IF moved THEN PopOld(map, sh.slot) ELSE map
      <4>1. /\ slots' = Evict(map, moved, sh.slot)
            /\ highest_slot' = IF moved THEN sh.slot ELSE highest_slot
            /\ ~Stale(sh.slot, highest_slot)
        BY <3>6 DEF PushShred, sh
      <4>2. DOMAIN map = DOMAIN slots \cup {sh.slot}
        BY DEF With
      <4>3. DOMAIN map \subseteq SlotNumber
        BY <3>2, <4>2 DEF BoundInv
      <4>4. \A s \in DOMAIN map : s + L >= highest_slot
        BY <3>3, <4>1, <4>2 DEF BoundInv, Bounded
      <4> HIDE DEF map, moved
      <4>5. ASSUME moved, NEW s \in DOMAIN PopOld(map, sh.slot)
            PROVE  s \in DOMAIN map /\ s + L >= sh.slot
        <5>1. PICK x \in DOMAIN map : x <= s /\ Add(x, L) >= sh.slot
          BY <4>5 DEF PopOld, Keep
        <5>2. s \in DOMAIN map
          BY <4>5 DEF PopOld, Keep
        <5>3. x + L >= sh.slot
          BY <3>2, <4>3, <5>1, AddWithin
        <5> QED
          BY <3>2, <4>3, <5>1, <5>2, <5>3, ConfigAssumption DEF SlotNumber
      <4>6. \A s \in DOMAIN mid : s \in DOMAIN map /\ s + L >= highest_slot'
        BY <4>1, <4>4, <4>5
      <4>7. DOMAIN slots' \subseteq DOMAIN mid
        BY <4>1 DEF Evict, PopFar, Keep
      <4>8. Cardinality(DOMAIN slots') <= 4 * L
        BY <4>1, <4>3, EvictBound
      <4>9. highest_slot' \in SlotNumber
        BY <3>2, <4>1 DEF BoundInv
      <4> HIDE DEF mid
      <4> QED
        BY <4>3, <4>6, <4>7, <4>8, <4>9 DEF BoundInv, Bounded
    <3> QED
      BY <3>1, <3>4, <3>5, <3>6 DEF Push
  <2>2. CASE UNCHANGED vars
    BY <2>2 DEF vars, BoundInv, Bounded
  <2> QED
    BY <2>1, <2>2
<1> QED
  BY <1>1, <1>2, PTL DEF Spec

(* Slots older than the window are gone and, unless push panicked, the map  *)
(* never holds more than 4 * slot_lookback slots, whatever slot numbers     *)
(* the datagrams carry and whatever slot_lookback is.                       *)
THEOREM DeshredderBounded == Spec => []Bounded
<1>1. BoundInv => Bounded
  BY DEF BoundInv
<1> QED
  BY <1>1, SpecBoundInv, PTL

(* With slot_lookback = 0 the memory bound leaves no slot: every push that  *)
(* returns has forgotten the slot it was for, so that a run of several      *)
(* shreds never completes and a repeated shred is new again.  That is why   *)
(* the theorems about what was handed out take slot_lookback >= 1.          *)
THEOREM DeshredderForgetsAtZero ==
  ASSUME L = 0
  PROVE  Spec => [](~panicked => DOMAIN slots = {})
<1>1. BoundInv => (~panicked => DOMAIN slots = {})
  <2> SUFFICES ASSUME BoundInv, ~panicked PROVE DOMAIN slots = {}
    OBVIOUS
  <2>1. DOMAIN slots \in SUBSET SlotNumber /\ Cardinality(DOMAIN slots) <= 0
    BY DEF BoundInv, Bounded
  <2>2. IsFiniteSet(SlotNumber)
    BY FS_Interval, ConfigAssumption DEF SlotNumber
  <2>3. IsFiniteSet(DOMAIN slots) /\ Cardinality(DOMAIN slots) \in Nat
    BY <2>1, <2>2, FS_Subset, FS_CardinalityType
  <2>4. Cardinality(DOMAIN slots) = 0
    BY <2>1, <2>3
  <2> QED
    BY <2>3, <2>4, FS_EmptySet
<1> QED
  BY <1>1, SpecBoundInv, PTL

-----------------------------------------------------------------------------
(* A block among others *)

(* The runs handed out for slot s.                                          *)
BuiltOf(s) == {<<r[2], r[3]>> : r \in {x \in AllHanded : x[1] = s}}

(* What was handed out for a slot that is not stale, and that is coupled    *)
(* with the shreds heard of a consistent block, is what RunDelivery says.   *)
LEMMA BuiltIsDeliverable ==
  ASSUME NEW S, Consistent(S), IInv, NEW s \in SlotNumber, ~Stale(s, highest_slot),
         NEW h, Coupled(S, SlotAt(s), h), SetsSound(SlotAt(s), Recovery)
  PROVE  BuiltOf(s) = Ideal(EndsOf(S))!Deliverable(h)
<1> DEFINE st == SlotAt(s)
           mine == {x \in AllHanded : x[1] = s}
           built == BuiltOf(s)
<1>1. /\ SlotInv(st)
      /\ \A r \in mine : IsRun(st, r[2], r[3])
      /\ \A i \in st.consumed : \E r \in mine : i \in r[2] .. r[3]
  BY NewSlotIsFresh
<1>2. \A r \in mine : r[2] \in Index /\ r[3] \in Index /\ r[2] <= r[3]
  BY DEF IInv, HandedInv
<1>3. Coupled(S, st, h) /\ SetsSound(st, Recovery)
  OBVIOUS
<1> HIDE DEF st
<1>4. \A r \in built : /\ r \in Index \X Index /\ r[1] <= r[2] /\ IsRun(st, r[1], r[2])
  BY <1>1, <1>2 DEF BuiltOf
<1>5. \A i \in st.consumed : \E r \in built : i \in r[1] .. r[2]
  <2> TAKE i \in st.consumed
  <2>1. PICK r \in mine : i \in r[2] .. r[3]
    BY <1>1
  <2>2. <<r[2], r[3]>> \in built
    BY DEF BuiltOf
  <2> WITNESS <<r[2], r[3]>> \in built
  <2> QED
    BY <2>1
<1> HIDE DEF built, mine
<1>6. \A a, b \in Index : a <= b /\ IsRun(st, a, b) => <<a, b>> \in built
  BY <1>1, <1>4, <1>5, ReadyRunsPushed
<1>7. built = Ideal(EndsOf(S))!Deliverable(h)
  BY <1>1, <1>3, <1>4, <1>6, ReadyIsDeliverable
<1> QED
  BY <1>7 DEF built

(* As long as the map holds no more slots than its bound, eviction costs    *)
(* only slots that have become stale.                                       *)
LEMMA EvictKeeps ==
  ASSUME NEW map, DOMAIN map \subseteq SlotNumber, IsFiniteSet(DOMAIN map),
         Cardinality(DOMAIN map) <= 4 * L, NEW moved \in BOOLEAN,
         NEW n \in SlotNumber, NEW s \in DOMAIN map, moved => ~Stale(s, n)
  PROVE  s \in DOMAIN Evict(map, moved, n) /\ Evict(map, moved, n)[s] = map[s]
<1>0. L \in Nat /\ \A x \in SlotNumber : x \in Nat
  BY ConfigAssumption DEF SlotNumber
<1> DEFINE mid == IF moved THEN PopOld(map, n) ELSE map
<1>1. s \in DOMAIN mid /\ mid[s] = map[s] /\ DOMAIN mid \subseteq DOMAIN map
  <2>1. CASE moved
    <3>1. Add(s, L) >= n /\ s <= s
      BY <1>0, <2>1, AddBound DEF Stale
    <3>2. s \in {x \in DOMAIN map : \E y \in DOMAIN map : y <= x /\ Add(y, L) >= n}
      BY <3>1
    <3> QED
      BY <2>1, <3>2 DEF PopOld, Keep
  <2>2. CASE ~moved
    BY <2>2
  <2> QED
    BY <2>1, <2>2
<1>2. Evict(map, moved, n) = PopFar(mid)
  BY DEF Evict
<1> HIDE DEF mid
<1>3. Cardinality({x \in DOMAIN mid : x < s}) < 4 * L
  <2> DEFINE below == {x \in DOMAIN mid : x < s}
  <2>1. below \subseteq DOMAIN map \ {s}
    BY <1>0, <1>1
  <2>2. /\ IsFiniteSet(DOMAIN map \ {s})
        /\ Cardinality(DOMAIN map \ {s}) = Cardinality(DOMAIN map) - 1
    BY FS_RemoveElement
  <2>3. Cardinality(below) <= Cardinality(DOMAIN map \ {s}) /\ IsFiniteSet(below)
    BY <2>1, <2>2, FS_Subset
  <2>4. Cardinality(below) \in Nat /\ Cardinality(DOMAIN map) \in Nat
    BY <2>3, FS_CardinalityType
  <2> QED
    BY <1>0, <2>2, <2>3, <2>4
<1>4. s \in DOMAIN PopFar(mid) /\ PopFar(mid)[s] = mid[s]
  BY <1>1, <1>3 DEF PopFar, Keep
<1> QED
  BY <1>1, <1>2, <1>4

(* push_raw raises the window's upper end to the slot of its shred or       *)
(* leaves it, and adds no other slot to the map.                            *)
LEMMA PushMoves ==
  ASSUME IInv, NEW p \in Packet, Push(p)
  PROVE  /\ \/ highest_slot' = highest_slot
            \/ Accepted(p) /\ highest_slot' = p.slot /\ p.slot > highest_slot
         /\ \A s \in DOMAIN slots' : s \in DOMAIN slots \/ (Accepted(p) /\ s = p.slot)
         /\ p.slot \in SlotNumber /\ Parse(p).slot = p.slot
<1>1. p.slot \in SlotNumber /\ Parse(p).slot = p.slot
  <2>1. Parse(p).slot = p.slot /\ p \in Datagram /\ p.slot < W
    BY ConfigAssumption, PacketAssumption DEF Parse
  <2> QED
    BY <2>1, ConfigAssumption DEF SlotNumber, Datagram
<1>2. CASE PushInvalid(p) \/ PushWrongVersion(p) \/ PushStale(p)
  BY <1>1, <1>2 DEF PushInvalid, PushWrongVersion, PushStale, Ignore
<1>3. CASE PushPanics(p)
  BY <1>1, <1>3 DEF PushPanics, With
<1>4. CASE PushShred(p)
  BY <1>1, <1>4 DEF PushShred, Moves, Evict, PopOld, PopFar, Keep, With
<1> QED
  BY <1>1, <1>2, <1>3, <1>4 DEF Push

(* What push_raw does to a slot that is not stale afterwards, as long as    *)
(* there are no more slots than the map's bound: it inserts its shred into  *)
(* the shred's slot and leaves the others.                                  *)
LEMMA PushKeeps ==
  ASSUME IInv, NEW p \in Packet, Push(p),
         NEW D, IsFiniteSet(D), Cardinality(D) <= 4 * L,
         DOMAIN slots \subseteq D, Accepted(p) => p.slot \in D,
         NEW s \in SlotNumber, ~Stale(s, highest_slot')
  PROVE  /\ ~Stale(s, highest_slot)
         /\ SlotAt(s)' =
              IF Accepted(p) /\ p.slot = s /\ ~Panics(Parse(p))
              THEN SlotInsert(SlotAt(s), Parse(p), Recovery) ELSE SlotAt(s)
<1>1. /\ \/ highest_slot' = highest_slot
         \/ Accepted(p) /\ highest_slot' = p.slot /\ p.slot > highest_slot
      /\ p.slot \in SlotNumber /\ Parse(p).slot = p.slot
  BY PushMoves
<1>2. ~Stale(s, highest_slot)
  <2>1. Add(s, L) \in Nat /\ highest_slot \in Nat /\ p.slot \in Nat
    BY <1>1, AddBound, ConfigAssumption DEF IInv, MapInv, SlotNumber
  <2> QED
    BY <1>1, <2>1 DEF Stale
<1>3. CASE PushInvalid(p) \/ PushWrongVersion(p) \/ PushStale(p)
  <2>1. slots' = slots /\ ~(Accepted(p) /\ p.slot = s)
    BY <1>2, <1>3 DEF PushInvalid, PushWrongVersion, PushStale, Accepted, Ignore
  <2> QED
    BY <1>2, <2>1 DEF SlotAt
<1>4. CASE PushPanics(p)
  <2>1. slots' = With(slots, p.slot, SlotAt(p.slot)) /\ Panics(Parse(p))
    BY <1>1, <1>4 DEF PushPanics
  <2>2. SlotAt(s)' = SlotAt(s)
    <3>1. CASE s = p.slot
      <4>1. s \in DOMAIN slots' /\ slots'[s] = SlotAt(s)
        BY <2>1, <3>1 DEF With
      <4>2. SlotAt(s)' = slots'[s]
        BY <4>1 DEF SlotAt
      <4> QED
        BY <4>1, <4>2
    <3>2. CASE s # p.slot
      <4>1. /\ s \in DOMAIN slots' <=> s \in DOMAIN slots
            /\ s \in DOMAIN slots => slots'[s] = slots[s]
        BY <2>1, <3>2 DEF With
      <4> QED
        BY <4>1 DEF SlotAt
    <3> QED
      BY <3>1, <3>2
  <2> QED
    BY <1>2, <2>1, <2>2
<1>5. CASE PushShred(p)
  <2> DEFINE n == p.slot
             sh == Parse(p)
             ins == SlotInsert(SlotAt(n), sh, Recovery)
             moved == Moves(Segments(SlotAt(n), sh, Recovery), n)
             map == With(slots, n, ins)
  <2>1. /\ Accepted(p) /\ ~Panics(sh) /\ slots' = Evict(map, moved, n)
        /\ highest_slot' = IF moved THEN n ELSE highest_slot
    BY <1>1, <1>5 DEF PushShred
  <2>2. moved \in BOOLEAN
    BY DEF Moves
  <2>3. /\ DOMAIN map = DOMAIN slots \cup {n}
        /\ \A x \in DOMAIN map : map[x] = IF x = n THEN ins ELSE slots[x]
    BY DEF With
  <2> HIDE DEF map, moved, ins
  <2>4. DOMAIN map \subseteq SlotNumber /\ DOMAIN map \subseteq D
    BY <1>1, <2>1, <2>3 DEF IInv, MapInv
  <2>5. IsFiniteSet(DOMAIN map) /\ Cardinality(DOMAIN map) <= 4 * L
    <3>1. IsFiniteSet(DOMAIN map) /\ Cardinality(DOMAIN map) <= Cardinality(D)
      BY <2>4, FS_Subset
    <3>2. Cardinality(DOMAIN map) \in Nat /\ Cardinality(D) \in Nat /\ L \in Nat
      BY <3>1, FS_CardinalityType, ConfigAssumption
    <3> QED
      BY <3>1, <3>2
  <2>6. moved => ~Stale(s, n)
    BY <2>1
  <2>7. s \in DOMAIN map => s \in DOMAIN slots' /\ slots'[s] = map[s]
    BY <1>1, <2>1, <2>2, <2>4, <2>5, <2>6, EvictKeeps
  <2>8. s \notin DOMAIN map => s \notin DOMAIN slots'
    BY <2>1, <2>3, PushMoves
  <2>9. CASE s = n
    <3>1. SlotAt(s)' = slots'[s]
      BY <2>3, <2>7, <2>9 DEF SlotAt
    <3> QED
      BY <1>2, <2>1, <2>3, <2>7, <2>9, <3>1 DEF ins
  <2>10. CASE s # n
    <3>1. SlotAt(s)' = SlotAt(s)
      BY <2>3, <2>7, <2>8, <2>10 DEF SlotAt
    <3> QED
      BY <1>2, <2>10, <3>1
  <2> QED
    BY <2>9, <2>10
<1> QED
  BY <1>3, <1>4, <1>5 DEF Push

(* The batches of a call are what is handed out after it and was not before.*)
LEMMA NewlyHanded ==
  ASSUME IInv, IInv', ExactlyOnce', NEW p \in Packet, Push(p), NEW s, NEW a
  PROVE  /\ BuiltOf(s) \subseteq BuiltOf(s)'
         /\ (\E b \in out' : <<b.slot, b.start>> = <<s, a>>) <=>
              \E e : <<a, e>> \in BuiltOf(s)' /\ <<a, e>> \notin BuiltOf(s)
<1>1. emitted' = AllHanded
  BY DEF Push, PushInvalid, PushWrongVersion, PushStale, PushPanics, PushShred, Ignore, Hand,
    AllHanded
<1>2. AllHanded' = AllHanded \cup {<<b.slot, b.start, b.end>> : b \in out'}
  BY <1>1 DEF AllHanded, Handed
<1>3. BuiltOf(s) \subseteq BuiltOf(s)'
  BY <1>2 DEF BuiltOf
<1>4. ASSUME NEW b \in out', <<b.slot, b.start>> = <<s, a>>
      PROVE  <<a, b.end>> \in BuiltOf(s)' /\ <<a, b.end>> \notin BuiltOf(s)
  <2>1. b.slot = s /\ b.start = a /\ <<s, a, b.end>> \in AllHanded'
    BY <1>2, <1>4
  <2>2. <<a, b.end>> \in BuiltOf(s)'
    <3>1. <<s, a, b.end>>[1] = s /\ <<s, a, b.end>>[2] = a /\ <<s, a, b.end>>[3] = b.end
      OBVIOUS
    <3> QED
      BY <2>1, <3>1 DEF BuiltOf
  <2>3. a \in Int /\ b.end \in Int /\ a <= b.end
    BY <2>1 DEF IInv, HandedInv, Index
  <2>4. ASSUME <<a, b.end>> \in BuiltOf(s) PROVE FALSE
    <3>1. PICK r \in AllHanded : r[1] = s /\ r[2] = a /\ r[3] = b.end
      BY <2>4 DEF BuiltOf
    <3>2. r \in emitted'
      BY <1>1
    <3>3. b.end < r[2] \/ r[3] < b.start
      BY <2>1, <3>1, <3>2 DEF ExactlyOnce
    <3> QED
      BY <2>1, <2>3, <3>1, <3>3
  <2> QED
    BY <2>2, <2>4
<1>5. ASSUME NEW e, <<a, e>> \in BuiltOf(s)', <<a, e>> \notin BuiltOf(s)
      PROVE  \E b \in out' : <<b.slot, b.start>> = <<s, a>>
  <2>1. PICK r \in AllHanded' : r[1] = s /\ r[2] = a /\ r[3] = e
    BY <1>5 DEF BuiltOf
  <2>2. r \notin AllHanded
    BY <1>5, <2>1 DEF BuiltOf
  <2>3. PICK b \in out' : r = <<b.slot, b.start, b.end>>
    BY <1>2, <2>2
  <2> QED
    BY <2>1, <2>3
<1> QED
  BY <1>3, <1>4, <1>5

(* What a push hands out of a consistent block S begins with bytes of it.   *)
LEMMA HandedRoot ==
  ASSUME IInv, NEW p \in Packet, Push(p), NEW S, Consistent(S), NEW s \in SlotNumber, NEW h,
         ~Stale(s, highest_slot), Coupled(S, SlotAt(s), h), SetsSound(SlotAt(s), Recovery),
         WellFormed(p) /\ p.slot = s /\ Parse(p).root # None => Parse(p) \in S,
         NEW b \in out', b.slot = s
  PROVE  BeginsIn(S, b)
<1>1. PushShred(p)
  BY DEF Push, PushInvalid, PushWrongVersion, PushStale, PushPanics, Ignore, Hand
<1> DEFINE sh == Parse(p)
           st == SlotAt(sh.slot)
<1>2. /\ Accepted(p) /\ ~Panics(sh)
      /\ out' = {RawBatch(sh.slot, g) : g \in Segments(st, sh, Recovery)}
  BY <1>1 DEF PushShred, Hand
<1>3. WellFormed(p) /\ IsShred(sh) /\ sh.slot = p.slot
  BY <1>2, ParseIsShred, PacketAssumption DEF Accepted
<1> HIDE DEF sh
<1>4. PICK g \in Segments(st, sh, Recovery) : b = RawBatch(sh.slot, g)
  BY <1>2
<1>5. sh.slot = s /\ b.start = g.start /\ b.bytes = g.bytes
  BY <1>4 DEF RawBatch
<1>6. SlotInv(SlotAt(s))
  BY NewSlotIsFresh
<1>7. BeginsIn(S, g)
  BY <1>3, <1>4, <1>5, <1>6, SegmentRoot DEF sh
<1> QED
  BY <1>5, <1>7 DEF BeginsIn

=============================================================================
