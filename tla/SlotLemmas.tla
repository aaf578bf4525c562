----------------------------- MODULE SlotLemmas -----------------------------
(***************************************************************************)
(* Facts about the operators of Shred, Fec and Slot that the proofs about  *)
(* SlotAssembly, Deshredder, Listen and Analysis rest on; and how a slot   *)
(* follows RunDelivery.                                                    *)
(***************************************************************************)
EXTENDS Input, FiniteSetTheorems, TLAPS

-----------------------------------------------------------------------------
(* Arithmetic of the slot geometry. *)

(* Consecutive multiples of k are k apart.                                  *)
LEMMA MultiplesApart ==
  ASSUME NEW k \in Nat \ {0}, NEW a \in Nat, NEW b \in Nat, a < b
  PROVE  k * a + k <= k * b
OBVIOUS

(* An index has one FEC set and one position in it.                         *)
LEMMA SetUnique ==
  ASSUME NEW f \in SetIndex, NEW g \in SetIndex,
         NEW p \in Position, NEW q \in Position, f + p = g + q
  PROVE  f = g /\ p = q
<1>1. PICK a \in 0 .. (NumSets - 1) : f = K * a
  BY DEF SetIndex
<1>2. PICK b \in 0 .. (NumSets - 1) : g = K * b
  BY DEF SetIndex
<1>3. K * a \in Nat /\ K * b \in Nat /\ a \in Nat /\ b \in Nat
  BY GeometryAssumption
<1>4. a < b => K * a + K <= K * b
  BY <1>3, MultiplesApart, GeometryAssumption
<1>5. b < a => K * b + K <= K * a
  BY <1>3, MultiplesApart, GeometryAssumption
<1>6. p \in 0 .. (K - 1) /\ q \in 0 .. (K - 1) /\ K \in Nat
  BY GeometryAssumption DEF Position
<1>7. ~(a < b) /\ ~(b < a)
  BY <1>1, <1>2, <1>3, <1>4, <1>5, <1>6
<1> QED
  BY <1>1, <1>2, <1>3, <1>6, <1>7

(* Every position of every set is a data index.                             *)
LEMMA SetInIndex ==
  ASSUME NEW f \in SetIndex, NEW p \in Position
  PROVE  f + p \in Index /\ f \in Nat /\ p \in Nat
<1>1. PICK a \in 0 .. (NumSets - 1) : f = K * a
  BY DEF SetIndex
<1>2. K * a \in Nat /\ a \in Nat /\ a < NumSets /\ NumSets \in Nat
  BY GeometryAssumption
<1>3. K * a + K <= K * NumSets
  BY <1>2, MultiplesApart, GeometryAssumption
<1>4. K * NumSets \in Nat /\ K \in Nat
  BY GeometryAssumption
<1> QED
  BY <1>1, <1>2, <1>3, <1>4 DEF Position, Index, MAX_SHREDS_PER_SLOT

(* The set SlotState::data looks an index up in.                            *)
LEMMA SetOfIndex ==
  ASSUME NEW i \in Index
  PROVE  /\ i - (i % K) \in SetIndex
         /\ i - (i - (i % K)) \in Position
         /\ (i - (i % K)) + (i - (i - (i % K))) = i
<1>1. i \in Nat /\ i < K * NumSets /\ K * NumSets \in Nat
  BY GeometryAssumption DEF Index, MAX_SHREDS_PER_SLOT
<1> DEFINE q == i \div K
<1>2. /\ i % K \in 0 .. (K - 1)
      /\ q \in Nat
      /\ i = K * q + (i % K)
  BY <1>1, GeometryAssumption
<1>3. K * q \in Nat /\ K * q <= i
  BY <1>2, GeometryAssumption
<1>4. ~(NumSets <= q)
  <2>1. NumSets = q \/ NumSets < q \/ q < NumSets
    BY <1>2, GeometryAssumption
  <2>2. NumSets < q => K * NumSets + K <= K * q
    BY <1>2, MultiplesApart, GeometryAssumption
  <2> QED
    BY <2>1, <2>2, <1>1, <1>2, <1>3, GeometryAssumption
<1>5. q \in 0 .. (NumSets - 1)
  BY <1>2, <1>4, GeometryAssumption
<1>6. i - (i % K) = K * q /\ i - (i - (i % K)) = i % K
  BY <1>1, <1>2, <1>3, GeometryAssumption
<1> HIDE DEF q
<1> QED
  BY <1>1, <1>2, <1>3, <1>5, <1>6 DEF SetIndex, Position

-----------------------------------------------------------------------------
(* Shred::parse *)

(* What a parsed shred guarantees to its readers, once it is known not to   *)
(* name a set past the end of the slot.                                     *)
IsShred(sh) ==
  /\ sh.kind \in {"data", "code"}
  /\ sh.slot \in Nat
  /\ sh.fec \in SetIndex
  /\ sh.root \in Root \cup {None}
  /\ sh.sig \in Sig
  /\ sh.len \in Int
  /\ sh.complete \in BOOLEAN
  /\ sh.last \in BOOLEAN
  /\ sh.pos \in 0 .. (K + M - 1)
  /\ sh.kind = "data" => sh.pos \in Position /\ sh.index = sh.fec + sh.pos
  /\ sh.kind = "code" => sh.pos - K \in CodePosition

(* A set index that passes parse for a data shred lies in the slot.         *)
LEMMA DataSetInSlot ==
  ASSUME NEW p \in Datagram, WellFormed(p), p.variant = "data"
  PROVE  p.fec_set_index \in SetIndex
<1>1. PICK n \in 0 .. p.fec_set_index : p.fec_set_index = K * n
  BY DEF WellFormed, DataHeaderOK, IsMultipleOf
<1>2. /\ p.index < K * NumSets
      /\ p.index >= K * n
      /\ p.index \in Nat
  BY <1>1 DEF WellFormed, DataHeaderOK, MAX_SHREDS_PER_SLOT, Datagram
<1>3. n \in Nat
  BY <1>1 DEF Datagram
<1>4. ~(NumSets <= n)
  <2>1. NumSets = n \/ NumSets < n \/ n < NumSets
    BY <1>3, GeometryAssumption
  <2>2. NumSets < n => K * NumSets + K <= K * n
    BY <1>3, MultiplesApart, GeometryAssumption
  <2>3. K * NumSets \in Nat /\ K * n \in Nat
    BY <1>3, GeometryAssumption
  <2> QED
    BY <2>1, <2>2, <2>3, <1>2, <1>3, GeometryAssumption
<1> QED
  BY <1>1, <1>3, <1>4, GeometryAssumption DEF SetIndex

(* A shard length is an integer.                                            *)
LEMMA ShardLenType ==
  ASSUME NEW kind, NEW n \in 0 .. 15, NEW r \in BOOLEAN
  PROVE  ShardLen(kind, n, r) \in Int
<1>1. Capacity(kind, n, r) \in Int
  BY DEF Capacity, WireSize, Headers, DATA_SHRED_SIZE, CODE_SHRED_SIZE,
         DATA_HEADERS_SIZE, CODE_HEADERS_SIZE, MERKLE_ROOT_SIZE,
         PROOF_ENTRY_SIZE, SIGNATURE_SIZE
<1> QED
  BY <1>1 DEF ShardLen, ErasureShard, Headers, SIGNATURE_SIZE,
              DATA_HEADERS_SIZE, CODE_HEADERS_SIZE

(* Shred::parse yields such a shred.                                        *)
LEMMA ParseIsShred ==
  ASSUME NEW p \in Datagram, WellFormed(p), ~Panics(Parse(p))
  PROVE  IsShred(Parse(p)) /\ Parse(p).slot = p.slot
<1> DEFINE sh == Parse(p)
<1> SUFFICES IsShred(sh) /\ sh.slot = p.slot
  OBVIOUS
<1>1. sh.kind = p.variant /\ p.variant \in {"data", "code"}
  BY DEF Parse, WellFormed
<1>2. sh.fec = p.fec_set_index /\ sh.fec \in SetIndex
  BY <1>1, DataSetInSlot DEF Parse, Panics
<1>3. sh.len \in Int
  BY ShardLenType DEF Parse, Datagram
<1>4. sh.slot = p.slot /\ sh.slot \in Nat /\ sh.sig \in Sig
  BY DEF Parse, Datagram
<1>5. sh.root \in Root \cup {None}
  BY DEF Parse, MerkleRoot, Datagram
<1>6. sh.complete \in BOOLEAN /\ sh.last \in BOOLEAN
  BY DEF Parse
<1>7. ASSUME p.variant = "data"
      PROVE  sh.pos \in Position /\ sh.index = sh.fec + sh.pos
  <2>1. /\ p.index \in Nat /\ p.fec_set_index \in Nat
        /\ p.index >= p.fec_set_index
        /\ p.index - p.fec_set_index < K
    BY <1>7 DEF WellFormed, DataHeaderOK, Datagram
  <2>2. sh.pos = p.index - p.fec_set_index /\ sh.index = p.index
    BY <1>7 DEF Parse, ErasureShardIndex
  <2> QED
    BY <2>1, <2>2, <1>2, GeometryAssumption DEF Position
<1>8. ASSUME p.variant = "code"
      PROVE  sh.pos - K \in CodePosition
  <2>1. p.position \in Nat /\ p.position < M
    BY <1>8 DEF WellFormed, CodeHeaderOK, Datagram
  <2>2. sh.pos = K + p.position
    BY <1>8 DEF Parse, ErasureShardIndex
  <2> QED
    BY <2>1, <2>2, GeometryAssumption DEF CodePosition
<1>9. sh.pos \in 0 .. (K + M - 1)
  <2>1. p.variant = "code" => sh.pos = K + p.position /\ p.position \in Nat
    BY DEF Parse, ErasureShardIndex, Datagram
  <2> QED
    BY <2>1, <1>1, <1>7, <1>8, GeometryAssumption DEF Position, CodePosition
<1> HIDE DEF sh
<1> QED
  BY <1>1, <1>2, <1>3, <1>4, <1>5, <1>6, <1>7, <1>8, <1>9 DEF IsShred

-----------------------------------------------------------------------------
(* fec.rs *)

(* What holds of every FecSet: a pinned root comes with a signature, a      *)
(* positive num_code means there is a code shred (what any_shred expects),  *)
(* and every stored shred has the pinned root and signature.                *)
FecInv(set) ==
  /\ set \in FecSet
  /\ set.root # None => set.sig \in Sig
  /\ set.num_code > 0 => \E c \in CodePosition : set.code[c] # None
  /\ \A p \in Position :
       set.data[p] # None => set.data[p].root = set.root /\ set.data[p].sig = set.sig
  /\ \A c \in CodePosition :
       set.code[c] # None => set.code[c].root = set.root /\ set.code[c].sig = set.sig

(* A data shred once stored stays what it is.                               *)
KeepsData(old, new) ==
  \A p \in Position : old.data[p] # None => new.data[p] = old.data[p]

(* Writing one of the arrays and its counter keeps a FecSet a FecSet.       *)
LEMMA FecSetUpdate ==
  ASSUME NEW set \in FecSet, NEW n \in Nat
  PROVE  /\ \A d \in DataArray : [set EXCEPT !.data = d, !.num_data = n] \in FecSet
         /\ \A c \in CodeArray : [set EXCEPT !.code = c, !.num_code = n] \in FecSet
BY DEF FecSet

(* An empty FecSet satisfies the invariant.                                 *)
LEMMA FecDefaultInv == FecInv(FecDefault)
BY DEF FecInv, FecDefault, FecSet, DataArray, CodeArray

(* Dropping the code shreds keeps the invariant and the data.               *)
LEMMA DropCodeInv ==
  ASSUME NEW set, FecInv(set)
  PROVE  FecInv(DropCode(set)) /\ DropCode(set).data = set.data
                               /\ DropCode(set).root = set.root
<1> DEFINE none == [c \in CodePosition |-> None]
<1>1. none \in CodeArray /\ \A c \in CodePosition : none[c] = None
  BY DEF CodeArray
<1> HIDE DEF none
<1>2. DropCode(set) = [set EXCEPT !.code = none, !.num_code = 0]
  BY DEF DropCode, none
<1>3. DropCode(set) \in FecSet
  <2>1. set \in FecSet /\ 0 \in Nat
    BY DEF FecInv
  <2> QED
    BY <2>1, <1>1, <1>2, FecSetUpdate
<1>4. /\ DropCode(set).data = set.data /\ DropCode(set).code = none
      /\ DropCode(set).root = set.root /\ DropCode(set).sig = set.sig
      /\ DropCode(set).num_code = 0
  BY <1>2 DEF FecInv, FecSet
<1> QED
  BY <1>1, <1>3, <1>4 DEF FecInv

(* FecSet::insert keeps the invariant, pins a root and stores the shred.    *)
LEMMA FecInsertInv ==
  ASSUME NEW set, FecInv(set), NEW sh, IsShred(sh), FecVerdict(set, sh) = "new"
  PROVE  LET new == FecInsert(set, sh)
         IN  /\ FecInv(new)
             /\ new.root \in Root
             /\ KeepsData(set, new)
             /\ sh.kind = "data" => new.data[sh.pos] # None
<1>1. /\ Get(set, sh) = None
      /\ sh.root \in Root
      /\ set.root # None => set.root = sh.root /\ set.sig = sh.sig
  BY DEF FecVerdict, IsShred
<1> DEFINE pinned == Pin(set, sh)
<1>2. /\ FecInv(pinned) /\ pinned.data = set.data
      /\ pinned.root = sh.root /\ pinned.sig = sh.sig
  <2>1. CASE set.root # None
    BY <2>1, <1>1 DEF Pin
  <2>2. CASE set.root = None
    <3>1. pinned = [set EXCEPT !.root = sh.root, !.sig = sh.sig]
      BY <2>2 DEF Pin
    <3>2. \A p \in Position : set.data[p] = None
      BY <2>2, GeometryAssumption DEF FecInv, FecSet, Shard, DataArray, CodeArray
    <3>3. \A c \in CodePosition : set.code[c] = None
      BY <2>2, GeometryAssumption DEF FecInv, FecSet, Shard, DataArray, CodeArray
    <3>4. pinned \in FecSet
      BY <3>1, <1>1 DEF FecInv, FecSet, IsShred
    <3> QED
      BY <3>1, <3>2, <3>3, <3>4, <1>1 DEF FecInv, IsShred, FecSet, DataArray, CodeArray
  <2> QED
    BY <2>1, <2>2
<1> HIDE DEF pinned
<1>3. ShardOf(sh) \in Shard /\ ShardOf(sh) # None
  BY <1>1, NoneAssumption DEF ShardOf, Shard, IsShred
<1>4. ShardOf(sh).root = sh.root /\ ShardOf(sh).sig = sh.sig
  BY DEF ShardOf
<1> DEFINE placed == Place(pinned, sh)
<1>5. /\ FecInv(placed)
      /\ placed.root = sh.root
      /\ KeepsData(set, placed)
      /\ sh.kind = "data" => placed.data[sh.pos] # None
  <2>1. CASE sh.kind = "data"
    <3>1. sh.pos \in Position /\ set.data[sh.pos] = None
      BY <2>1, <1>1 DEF IsShred, Get
    <3>2. placed = [pinned EXCEPT !.data = [pinned.data EXCEPT ![sh.pos] = ShardOf(sh)],
                                  !.num_data = pinned.num_data + 1]
      BY <2>1, <1>2 DEF Place, FecInv, FecSet
    <3>3. placed \in FecSet
      <4>1. [pinned.data EXCEPT ![sh.pos] = ShardOf(sh)] \in DataArray
        BY <3>1, <1>2, <1>3 DEF FecInv, FecSet, DataArray
      <4>2. pinned \in FecSet /\ pinned.num_data + 1 \in Nat
        BY <1>2 DEF FecInv, FecSet
      <4> QED
        BY <4>1, <4>2, <3>2, FecSetUpdate
    <3>4. \A p \in Position :
            placed.data[p] = IF p = sh.pos THEN ShardOf(sh) ELSE set.data[p]
      BY <3>1, <3>2, <1>2 DEF FecInv, FecSet, DataArray, CodeArray
    <3>5. /\ placed.code = pinned.code /\ placed.num_code = pinned.num_code
          /\ placed.root = pinned.root /\ placed.sig = pinned.sig
      BY <3>2, <1>2 DEF FecInv, FecSet
    <3> HIDE DEF placed
    <3>6. FecInv(placed)
      BY <3>3, <3>4, <3>5, <1>2, <1>4 DEF FecInv
    <3> QED
      BY <3>1, <3>4, <3>5, <3>6, <1>2, <1>3 DEF KeepsData
  <2>2. CASE sh.kind = "code"
    <3>1. sh.pos - K \in CodePosition
      BY <2>2 DEF IsShred
    <3>2. placed = [pinned EXCEPT !.code = [pinned.code EXCEPT ![sh.pos - K] = ShardOf(sh)],
                                  !.num_code = pinned.num_code + 1]
      BY <2>2, <1>2 DEF Place, FecInv, FecSet
    <3>3. placed \in FecSet
      <4>1. [pinned.code EXCEPT ![sh.pos - K] = ShardOf(sh)] \in CodeArray
        BY <3>1, <1>2, <1>3 DEF FecInv, FecSet, CodeArray
      <4>2. pinned \in FecSet /\ pinned.num_code + 1 \in Nat
        BY <1>2 DEF FecInv, FecSet
      <4> QED
        BY <4>1, <4>2, <3>2, FecSetUpdate
    <3>4. \A c \in CodePosition :
            placed.code[c] = IF c = sh.pos - K THEN ShardOf(sh) ELSE pinned.code[c]
      BY <3>1, <3>2, <1>2 DEF FecInv, FecSet, DataArray, CodeArray
    <3>5. /\ placed.data = pinned.data
          /\ placed.root = pinned.root /\ placed.sig = pinned.sig
      BY <3>2, <1>2 DEF FecInv, FecSet
    <3> HIDE DEF placed
    <3>6. FecInv(placed)
      BY <3>1, <3>3, <3>4, <3>5, <1>2, <1>3, <1>4 DEF FecInv
    <3> QED
      BY <2>2, <3>5, <3>6, <1>2 DEF KeepsData
  <2> QED
    BY <2>1, <2>2 DEF IsShred
<1>6. FecInsert(set, sh) = IF IsComplete(placed) THEN DropCode(placed) ELSE placed
  BY DEF FecInsert, pinned
<1> HIDE DEF placed
<1> QED
  BY <1>1, <1>5, <1>6, DropCodeInv DEF KeepsData

(* A rebuilt shred is a shred under the root and signature of its set.      *)
LEMMA RebuiltIsShard ==
  ASSUME NEW set, FecInv(set), set.root \in Root, set.num_code > 0, NEW i
  PROVE  /\ Rebuilt(set, i) \in Shard /\ Rebuilt(set, i) # None
         /\ Rebuilt(set, i).root = set.root /\ Rebuilt(set, i).sig = set.sig
<1>1. PICK c \in CodePosition : set.code[c] # None
  BY DEF FecInv
<1>2. set.code[c] \in Stored(set) /\ Stored(set) \subseteq Shard
  BY <1>1 DEF Stored, FecInv, FecSet, DataArray, CodeArray
<1>3. (CHOOSE x \in Stored(set) : TRUE) \in Stored(set)
  BY <1>2
<1>4. (CHOOSE x \in Stored(set) : TRUE).len \in Int
  BY <1>2, <1>3 DEF Shard
<1>5. set.sig \in Sig
  BY GeometryAssumption DEF FecInv
<1>6. Rebuilt(set, i) \in Shard
  BY <1>4, <1>5 DEF Rebuilt, Shard
<1> QED
  BY <1>6, NoneAssumption DEF Rebuilt

(* FecSet::recover keeps the invariant and the stored data; when it         *)
(* succeeds no data shred is missing.                                       *)
LEMMA RecoverInv ==
  ASSUME NEW set, FecInv(set), set.root \in Root, set.num_code > 0,
         NEW f \in SetIndex
  PROVE  LET new == Recover(set, f)
         IN  /\ FecInv(new)
             /\ KeepsData(set, new)
             /\ RecoverOK(set, f) => \A p \in Position : new.data[p] # None
<1>5. \A i : Rebuilt(set, i) \in Shard /\ Rebuilt(set, i) # None
             /\ Rebuilt(set, i).root = set.root /\ Rebuilt(set, i).sig = set.sig
  BY RebuiltIsShard
<1>6. Filled(set, f) \subseteq Position /\ Cardinality(Filled(set, f)) \in Nat
  <2>1. IsFiniteSet(Position)
    BY FS_Interval, GeometryAssumption DEF Position
  <2>2. Filled(set, f) \subseteq Position
    BY DEF Filled, Missing
  <2> QED
    BY <2>1, <2>2, FS_Subset, FS_CardinalityType
<1> DEFINE data == [p \in Position |-> IF p \in Filled(set, f)
                                       THEN Rebuilt(set, f + p) ELSE set.data[p]]
           filled == [set EXCEPT !.data = data,
                                 !.num_data = set.num_data + Cardinality(Filled(set, f))]
<1>7. Recover(set, f) = IF RecoverOK(set, f) THEN DropCode(filled) ELSE filled
  BY DEF Recover, FecInv, FecSet
<1>8. data \in DataArray
  BY <1>5 DEF FecInv, FecSet, DataArray
<1>9. \A p \in Position :
        data[p] = IF p \in Filled(set, f) THEN Rebuilt(set, f + p) ELSE set.data[p]
  OBVIOUS
<1> HIDE DEF data
<1>10. /\ filled \in FecSet /\ filled.data = data /\ filled.code = set.code
       /\ filled.num_code = set.num_code
       /\ filled.root = set.root /\ filled.sig = set.sig
  <2>1. filled \in FecSet
    <3>1. set \in FecSet /\ set.num_data + Cardinality(Filled(set, f)) \in Nat
      BY <1>6 DEF FecInv, FecSet
    <3> QED
      BY <3>1, <1>8, FecSetUpdate
  <2> QED
    BY <2>1 DEF FecInv, FecSet
<1> HIDE DEF filled
<1>11. FecInv(filled)
  BY <1>5, <1>9, <1>10 DEF FecInv
<1>12. KeepsData(set, filled)
  BY <1>9, <1>10 DEF KeepsData, Filled, Missing
<1>13. RecoverOK(set, f) => \A p \in Position : filled.data[p] # None
  <2>1. RecoverOK(set, f) => Filled(set, f) = Missing(set)
    BY DEF RecoverOK, Filled
  <2> QED
    BY <2>1, <1>5, <1>9, <1>10 DEF Missing
<1> QED
  BY <1>7, <1>11, <1>12, <1>13, DropCodeInv DEF KeepsData

-----------------------------------------------------------------------------
(* slot.rs *)

(* Every received index whose set is not used up can be read.               *)
Readable(st) ==
  \A f \in SetIndex, p \in Position :
    f + p \in st.received /\ ~SetIsConsumed(st.consumed, f) =>
      st.sets[f] # None /\ st.sets[f].data[p] # None

(* Consumed indexes come in whole runs.                                     *)
ConsumedInRuns(st) ==
  \A j \in st.consumed : \E s, e \in Index :
    /\ j \in s .. e
    /\ IsRun(st, s, e)
    /\ s .. e \subseteq st.consumed

(* Every run that is ready has been consumed.                               *)
RunsConsumed(st) ==
  \A s, e \in Index : s <= e /\ IsRun(st, s, e) => s .. e \subseteq st.consumed

(* Sets that are used up are gone.                                          *)
UsedUpFreed(st) ==
  \A f \in SetIndex : SetIsConsumed(st.consumed, f) => st.sets[f] = None

SlotInv(st) ==
  /\ st \in SlotState
  /\ \A f \in SetIndex : st.sets[f] # None => FecInv(st.sets[f])
  /\ st.complete \subseteq st.received
  /\ st.consumed \subseteq st.received
  /\ Readable(st)
  /\ ConsumedInRuns(st)
  /\ RunsConsumed(st)
  /\ UsedUpFreed(st)

(* Two runs that share an index are the same run.                           *)
LEMMA RunUnique ==
  ASSUME NEW st, NEW s \in Index, NEW e \in Index, NEW t \in Index, NEW u \in Index,
         IsRun(st, s, e), IsRun(st, t, u),
         NEW i \in s .. e, i \in t .. u
  PROVE  s = t /\ e = u
<1>1. s \in Int /\ e \in Int /\ t \in Int /\ u \in Int /\ i \in Int
  BY DEF Index
<1>2. ~(e < u) /\ ~(u < e)
  BY <1>1 DEF IsRun
<1>3. ~(s < t) /\ ~(t < s)
  BY <1>1 DEF IsRun, Index
<1> QED
  BY <1>1, <1>2, <1>3

(* A run stays a run when only indexes that were not received become        *)
(* received and complete.                                                   *)
LEMMA RunPersists ==
  ASSUME NEW st, NEW new, NEW s \in Index, NEW e \in Index,
         IsRun(st, s, e),
         st.received \subseteq new.received,
         st.complete \subseteq new.complete,
         new.complete \cap st.received \subseteq st.complete
  PROVE  IsRun(new, s, e)
<1>1. s \in Int /\ e \in Int
  BY DEF Index
<1>2. \A i \in s .. (e - 1) : i \in st.received
  BY <1>1 DEF IsRun
<1> QED
  BY <1>1, <1>2 DEF IsRun

(* The set an accepted shred goes to is sound before and after.             *)
LEMMA NewSetInv ==
  ASSUME NEW st, SlotInv(st), NEW sh, IsShred(sh), NEW rs \in BOOLEAN,
         Verdict(st, sh) = "new"
  PROVE  /\ ~SetIsConsumed(st.consumed, sh.fec)
         /\ sh.kind = "data" => sh.index \notin st.received
         /\ FecInv(NewSet(st, sh, rs))
         /\ KeepsData(SetFor(st, sh.fec), NewSet(st, sh, rs))
         /\ Fresh(st, sh, rs) \subseteq SetRange(sh.fec) \ st.received
         /\ \A i \in Fresh(st, sh, rs) : NewSet(st, sh, rs).data[i - sh.fec] # None
<1> DEFINE f == sh.fec
           old == SetFor(st, f)
           put == FecInsert(old, sh)
           new == NewSet(st, sh, rs)
<1>1. f \in SetIndex
  BY DEF IsShred
<1>2. EarlyVerdict(st, sh) = "none" /\ FecVerdict(old, sh) = "new"
  BY DEF Verdict, EarlyVerdict
<1>3. sh.kind = "data" => sh.index \notin st.received
  BY <1>2 DEF EarlyVerdict
<1>4. ~SetIsConsumed(st.consumed, f)
  <2>1. CASE sh.kind = "data"
    <3>1. sh.index \in SetRange(f)
      BY <2>1, <1>1, SetInIndex, GeometryAssumption DEF IsShred, SetRange, Position
    <3> QED
      BY <2>1, <3>1, <1>3 DEF SetIsConsumed, SlotInv
  <2>2. CASE sh.kind = "code"
    BY <2>2, <1>2 DEF EarlyVerdict
  <2> QED
    BY <2>1, <2>2 DEF IsShred
<1>5. FecInv(old)
  BY <1>1, FecDefaultInv DEF SetFor, SlotInv
<1>6. /\ FecInv(put) /\ put.root \in Root /\ KeepsData(old, put)
      /\ sh.kind = "data" => put.data[sh.pos] # None
  BY <1>2, <1>5, FecInsertInv
<1>7. Recovers(st, sh, rs) => put.num_code > 0
  BY DEF Recovers, CanRecover
<1> HIDE DEF old, put
<1>8. /\ FecInv(new) /\ KeepsData(put, new)
      /\ Recovers(st, sh, rs) /\ RecoverOK(put, f) =>
           \A p \in Position : new.data[p] # None
  <2>1. CASE Recovers(st, sh, rs)
    <3>1. new = Recover(put, f)
      BY <2>1 DEF NewSet, put, old
    <3> QED
      BY <2>1, <3>1, <1>1, <1>6, <1>7, RecoverInv
  <2>2. CASE ~Recovers(st, sh, rs)
    <3>1. new = put
      BY <2>2 DEF NewSet, put, old
    <3> QED
      BY <2>2, <3>1, <1>6 DEF KeepsData
  <2> QED
    BY <2>1, <2>2
<1>9. KeepsData(old, new)
  BY <1>6, <1>8 DEF KeepsData
<1>10. \A p \in Position : f + p \in st.received => old.data[p] # None
  BY <1>1, <1>4 DEF SlotInv, Readable, SetFor, old
<1>11. /\ Recovered(st, sh, rs) \subseteq {f + p : p \in Missing(put)}
       /\ Recovered(st, sh, rs) # {} => Recovers(st, sh, rs) /\ RecoverOK(put, f)
  BY DEF Recovered, RecoveryFails, put, old
<1> HIDE DEF new
<1>12. \A i \in Recovered(st, sh, rs) :
         i \in SetRange(f) /\ i \notin st.received /\ new.data[i - f] # None
  <2> SUFFICES ASSUME NEW i \in Recovered(st, sh, rs)
               PROVE  i \in SetRange(f) /\ i \notin st.received /\ new.data[i - f] # None
    OBVIOUS
  <2>1. PICK p \in Missing(put) : i = f + p
    BY <1>11
  <2>2. p \in Position /\ put.data[p] = None
    BY DEF Missing
  <2>3. f \in Nat /\ p \in Nat /\ p < K
    BY <2>2, <1>1, SetInIndex, GeometryAssumption DEF Position
  <2>4. i - f = p /\ i \in SetRange(f)
    BY <2>1, <2>3, GeometryAssumption DEF SetRange
  <2> QED
    BY <2>1, <2>2, <2>4, <1>6, <1>8, <1>10, <1>11 DEF KeepsData
<1>13. sh.kind = "data" =>
         sh.index \in SetRange(f) /\ sh.index \notin st.received
           /\ new.data[sh.index - f] # None
  <2> SUFFICES ASSUME sh.kind = "data"
               PROVE  sh.index \in SetRange(f) /\ new.data[sh.index - f] # None
    BY <1>3
  <2>1. sh.pos \in Position /\ sh.index = f + sh.pos
    BY DEF IsShred
  <2>2. f \in Nat /\ sh.pos \in Nat /\ sh.pos < K
    BY <2>1, <1>1, SetInIndex, GeometryAssumption DEF Position
  <2>3. sh.index - f = sh.pos /\ sh.index \in SetRange(f)
    BY <2>1, <2>2, GeometryAssumption DEF SetRange
  <2> QED
    BY <2>1, <2>3, <1>6, <1>8 DEF KeepsData
<1> QED
  BY <1>3, <1>4, <1>8, <1>9, <1>12, <1>13 DEF Fresh, new, old

(* Storing an accepted shred: what changes and what still holds before the  *)
(* runs are completed.                                                      *)
LEMMA StowInv ==
  ASSUME NEW st, SlotInv(st), NEW sh, IsShred(sh), NEW rs \in BOOLEAN,
         Verdict(st, sh) = "new"
  PROVE  LET new == Stow(st, sh, rs)
             fresh == Fresh(st, sh, rs)
         IN  /\ new \in SlotState
             /\ \A f \in SetIndex : new.sets[f] # None => FecInv(new.sets[f])
             /\ fresh \subseteq Index \ st.received
             /\ new.received = st.received \cup fresh
             /\ st.complete \subseteq new.complete
             /\ new.complete \subseteq st.complete \cup fresh
             /\ new.consumed = st.consumed
             /\ Readable(new)
             /\ \A f \in SetIndex : SetIsConsumed(st.consumed, f) => new.sets[f] = None
<1> DEFINE new == Stow(st, sh, rs)
           fresh == Fresh(st, sh, rs)
           set == NewSet(st, sh, rs)
           done == {i \in fresh : set.data[i - sh.fec].complete}
<1>1. sh.fec \in SetIndex
  BY DEF IsShred
<1>2. /\ ~SetIsConsumed(st.consumed, sh.fec)
      /\ FecInv(set)
      /\ KeepsData(SetFor(st, sh.fec), set)
      /\ fresh \subseteq SetRange(sh.fec) \ st.received
      /\ \A i \in fresh : set.data[i - sh.fec] # None
  BY NewSetInv
<1>3. set \in FecSet /\ set # None
  BY <1>2, NoneAssumption DEF FecInv
<1>4. SetRange(sh.fec) \subseteq Index
  <2> SUFFICES ASSUME NEW i \in SetRange(sh.fec) PROVE i \in Index
    OBVIOUS
  <2>1. sh.fec \in Nat
    BY <1>1, SetInIndex, GeometryAssumption DEF Position
  <2>2. i - sh.fec \in Position /\ sh.fec + (i - sh.fec) = i
    BY <2>1, GeometryAssumption DEF SetRange, Position
  <2> QED
    BY <2>2, <1>1, SetInIndex
<1>5. fresh \subseteq Index \ st.received
  BY <1>2, <1>4
<1> HIDE DEF set, fresh
<1>6. new = [st EXCEPT !.sets = [st.sets EXCEPT ![sh.fec] = set],
                       !.received = st.received \cup fresh,
                       !.complete = st.complete \cup done]
  BY DEF Stow, SlotInv, SlotState, set, fresh
<1>7. done \subseteq fresh
  OBVIOUS
<1> HIDE DEF done
<1>8. /\ [st.sets EXCEPT ![sh.fec] = set] \in [SetIndex -> FecSet \cup {None}]
      /\ st.received \cup fresh \in SUBSET Index
      /\ st.complete \cup done \in SUBSET Index
  BY <1>1, <1>3, <1>5, <1>7 DEF SlotInv, SlotState
<1>9. /\ new \in SlotState
      /\ new.sets = [st.sets EXCEPT ![sh.fec] = set]
      /\ new.received = st.received \cup fresh
      /\ new.complete = st.complete \cup done
      /\ new.consumed = st.consumed
  BY <1>6, <1>8 DEF SlotInv, SlotState
<1> HIDE DEF new
<1>10. \A f \in SetIndex : new.sets[f] = IF f = sh.fec THEN set ELSE st.sets[f]
  BY <1>1, <1>9 DEF SlotInv, SlotState
<1>11. \A f \in SetIndex : new.sets[f] # None => FecInv(new.sets[f])
  BY <1>2, <1>10 DEF SlotInv
<1>12. \A f \in SetIndex : SetIsConsumed(st.consumed, f) => new.sets[f] = None
  BY <1>2, <1>10 DEF SlotInv, UsedUpFreed
<1>13. Readable(new)
  <2> SUFFICES ASSUME NEW f \in SetIndex, NEW p \in Position,
                      f + p \in new.received, ~SetIsConsumed(st.consumed, f)
               PROVE  new.sets[f] # None /\ new.sets[f].data[p] # None
    BY <1>9 DEF Readable
  <2>1. CASE f # sh.fec
    <3>1. f + p \notin fresh
      <4> SUFFICES ASSUME f + p \in fresh PROVE FALSE
        OBVIOUS
      <4>1. f + p \in SetRange(sh.fec)
        BY <1>2
      <4>2. sh.fec \in Nat /\ f \in Nat /\ p \in Nat
        BY <1>1, SetInIndex, GeometryAssumption DEF Position
      <4>3. f + p - sh.fec \in Position /\ sh.fec + (f + p - sh.fec) = f + p
        BY <4>1, <4>2, GeometryAssumption DEF SetRange, Position
      <4> QED
        BY <4>3, <2>1, <1>1, SetUnique
    <3>2. f + p \in st.received
      BY <3>1, <1>9
    <3> QED
      BY <2>1, <3>2, <1>10 DEF SlotInv, Readable
  <2>2. CASE f = sh.fec
    <3>1. new.sets[f] = set
      BY <2>2, <1>1, <1>10
    <3>2. CASE f + p \in fresh
      <4>1. (f + p) - sh.fec = p
        <5>1. f \in Nat /\ p \in Nat
          BY SetInIndex
        <5> QED
          BY <2>2, <5>1
      <4>2. set.data[(f + p) - sh.fec] # None
        BY <3>2, <1>2
      <4>3. set.data[p] # None
        BY <4>1, <4>2
      <4> QED
        BY <3>1, <4>3, <1>3
    <3>3. CASE f + p \in st.received
      <4>1. st.sets[f] # None /\ st.sets[f].data[p] # None
        BY <3>3 DEF SlotInv, Readable
      <4>2. SetFor(st, sh.fec) = st.sets[f]
        BY <2>2, <4>1 DEF SetFor
      <4>3. KeepsData(st.sets[f], set)
        BY <4>2, <1>2
      <4>4. set.data[p] = st.sets[f].data[p]
        BY <4>1, <4>3 DEF KeepsData
      <4> QED
        BY <4>1, <4>4, <3>1, <1>3
    <3> QED
      BY <3>2, <3>3, <1>9
  <2> QED
    BY <2>1, <2>2
<1> QED
  BY <1>5, <1>7, <1>9, <1>11, <1>12, <1>13 DEF new, fresh

(* The runs an insert completes: none shares an index with what was         *)
(* consumed before, and with them every ready run is consumed.              *)
LEMMA ReadyRunsFacts ==
  ASSUME NEW st, SlotInv(st), NEW sh, IsShred(sh), NEW rs \in BOOLEAN,
         Verdict(st, sh) = "new"
  PROVE  LET new == Stow(st, sh, rs)
             runs == ReadyRuns(new, Fresh(st, sh, rs))
         IN  /\ \A r \in runs : /\ r[1] \in Index /\ r[2] \in Index
                                /\ r[1] <= r[2] /\ IsRun(new, r[1], r[2])
             /\ \A r \in runs : \A i \in r[1] .. r[2] : i \notin st.consumed
             /\ \A s, e \in Index : IsRun(st, s, e) => IsRun(new, s, e)
             /\ \A s, e \in Index : s <= e /\ IsRun(new, s, e) =>
                  s .. e \subseteq Consume(new, runs)
<1> DEFINE new == Stow(st, sh, rs)
           fresh == Fresh(st, sh, rs)
           runs == ReadyRuns(new, fresh)
<1>1. /\ fresh \subseteq Index \ st.received
      /\ new.received = st.received \cup fresh
      /\ st.complete \subseteq new.complete
      /\ new.complete \subseteq st.complete \cup fresh
      /\ new.consumed = st.consumed
  BY StowInv
<1>2. st.complete \subseteq st.received /\ st.consumed \subseteq st.received
  BY DEF SlotInv
<1> HIDE DEF new, fresh
<1>3. \A s, e \in Index : IsRun(st, s, e) => IsRun(new, s, e)
  <2>1. new.complete \cap st.received \subseteq st.complete
    BY <1>1
  <2> QED
    BY <1>1, <2>1, RunPersists
<1>4. \A r \in runs : /\ r[1] \in Index /\ r[2] \in Index /\ IsRun(new, r[1], r[2])
                      /\ \E i \in Index \ st.consumed : i \in r[1] .. r[2]
  BY <1>1 DEF ReadyRuns, Touched
<1>5. \A r \in runs : r[1] <= r[2]
  BY <1>4 DEF Index
<1>6. \A r \in runs : \A i \in r[1] .. r[2] : i \notin st.consumed
  <2> SUFFICES ASSUME NEW r \in runs, NEW i \in r[1] .. r[2], i \in st.consumed
               PROVE  FALSE
    OBVIOUS
  <2>1. PICK s \in Index, e \in Index :
          i \in s .. e /\ IsRun(st, s, e) /\ s .. e \subseteq st.consumed
    BY DEF SlotInv, ConsumedInRuns
  <2>2. IsRun(new, s, e) /\ IsRun(new, r[1], r[2]) /\ r[1] \in Index /\ r[2] \in Index
    BY <2>1, <1>3, <1>4
  <2>3. r[1] = s /\ r[2] = e
    BY <2>1, <2>2, RunUnique
  <2> QED
    BY <2>1, <2>3, <1>4
<1>7. ASSUME NEW s \in Index, NEW e \in Index, s <= e, IsRun(new, s, e)
      PROVE  s .. e \subseteq Consume(new, runs)
  <2>1. s \in Int /\ e \in Int /\ s >= 0
    BY DEF Index
  <2>2. ASSUME NEW i \in s .. e, i \in Touched(new, fresh) \ st.consumed
        PROVE  s .. e \subseteq Consume(new, runs)
    <3>1. <<s, e>> \in runs
      BY <2>2, <1>1, <1>7 DEF ReadyRuns
    <3> QED
      BY <3>1 DEF Consume
  <2>3. CASE \E i \in s .. e : i \in fresh
    <3>1. PICK i \in s .. e : i \in fresh
      BY <2>3
    <3>2. i \in Touched(new, fresh) \ st.consumed
      BY <3>1, <1>1, <1>2 DEF Touched
    <3> QED
      BY <3>2, <2>2
  <2>4. CASE \A i \in s .. e : i \notin fresh
    <3>1. s .. e \subseteq st.received /\ e \in st.complete
      BY <2>1, <2>4, <1>1, <1>7 DEF IsRun
    <3>2. \A i \in s .. (e - 1) : i \notin st.complete
      BY <1>1, <1>7 DEF IsRun
    <3>3. CASE s = 0 \/ s - 1 \in st.complete
      <4>1. IsRun(st, s, e)
        BY <3>1, <3>2, <3>3 DEF IsRun
      <4>2. s .. e \subseteq st.consumed
        BY <4>1, <1>7 DEF SlotInv, RunsConsumed
      <4> QED
        BY <4>2, <1>1 DEF Consume
    <3>4. CASE s # 0 /\ s - 1 \notin st.complete
      <4>1. s - 1 \in fresh \cap new.complete
        BY <3>4, <1>1, <1>7 DEF IsRun
      <4>2. s \in Touched(new, fresh)
        BY <4>1, <2>1 DEF Touched
      <4>3. CASE s \notin st.consumed
        BY <4>2, <4>3, <2>1, <2>2, <1>7
      <4>4. CASE s \in st.consumed
        <5>1. PICK t \in Index, u \in Index :
                s \in t .. u /\ IsRun(st, t, u) /\ t .. u \subseteq st.consumed
          BY <4>4 DEF SlotInv, ConsumedInRuns
        <5>2. IsRun(new, t, u) /\ s \in s .. e
          BY <5>1, <1>3, <1>7, <2>1
        <5>3. s = t /\ e = u
          BY <5>1, <5>2, <1>7, RunUnique
        <5> QED
          BY <5>1, <5>3, <1>1 DEF Consume
      <4> QED
        BY <4>3, <4>4
    <3> QED
      BY <3>3, <3>4
  <2> QED
    BY <2>3, <2>4
<1> QED
  BY <1>3, <1>4, <1>5, <1>6, <1>7 DEF new, fresh

(* Completing the runs restores the invariant.                              *)
LEMMA CompleteInv ==
  ASSUME NEW st, SlotInv(st), NEW sh, IsShred(sh), NEW rs \in BOOLEAN,
         Verdict(st, sh) = "new"
  PROVE  LET new == Stow(st, sh, rs)
             runs == ReadyRuns(new, Fresh(st, sh, rs))
         IN  /\ SlotInv(Complete(new, runs))
             /\ Complete(new, runs).consumed = Consume(new, runs)
             /\ \A s, e \in Index : IsRun(new, s, e) => IsRun(Complete(new, runs), s, e)
<1> DEFINE new == Stow(st, sh, rs)
           fresh == Fresh(st, sh, rs)
           runs == ReadyRuns(new, fresh)
           consumed == Consume(new, runs)
           end == Complete(new, runs)
           sets == [f \in SetIndex |->
                      IF f \in Freed(consumed, runs) THEN None ELSE new.sets[f]]
<1>1. /\ new \in SlotState
      /\ \A f \in SetIndex : new.sets[f] # None => FecInv(new.sets[f])
      /\ fresh \subseteq Index \ st.received
      /\ new.received = st.received \cup fresh
      /\ new.complete \subseteq st.complete \cup fresh
      /\ new.consumed = st.consumed
      /\ Readable(new)
      /\ \A f \in SetIndex : SetIsConsumed(st.consumed, f) => new.sets[f] = None
  BY StowInv
<1>2. /\ \A r \in runs : /\ r[1] \in Index /\ r[2] \in Index
                         /\ r[1] <= r[2] /\ IsRun(new, r[1], r[2])
      /\ \A s, e \in Index : IsRun(st, s, e) => IsRun(new, s, e)
      /\ \A s, e \in Index : s <= e /\ IsRun(new, s, e) => s .. e \subseteq consumed
  BY ReadyRunsFacts
<1>3. end = [new EXCEPT !.consumed = consumed, !.sets = sets]
  BY DEF Complete
<1> HIDE DEF new, fresh, runs
<1>4. st.consumed \subseteq st.received /\ st.complete \subseteq st.received
  BY DEF SlotInv
<1>5. \A i : i \in consumed <=> i \in st.consumed \/ \E r \in runs : i \in r[1] .. r[2]
  BY <1>1 DEF Consume
<1>6. consumed \subseteq new.received /\ consumed \subseteq Index
  <2>1. \A r \in runs : r[1] .. r[2] \subseteq new.received
    BY <1>2 DEF IsRun
  <2>2. new.received \subseteq Index
    BY <1>1 DEF SlotState
  <2> QED
    BY <2>1, <2>2, <1>1, <1>4, <1>5
<1> HIDE DEF consumed
<1>7. sets \in [SetIndex -> FecSet \cup {None}]
  BY <1>1 DEF SlotState
<1>8. \A f \in SetIndex :
        sets[f] = IF f \in Freed(consumed, runs) THEN None ELSE new.sets[f]
  OBVIOUS
<1> HIDE DEF sets
<1>9. /\ end \in SlotState
      /\ end.sets = sets /\ end.consumed = consumed
      /\ end.received = new.received /\ end.complete = new.complete
  BY <1>1, <1>3, <1>6, <1>7 DEF SlotState
<1> HIDE DEF end
<1>10. \A s, e \in Index : IsRun(end, s, e) <=> IsRun(new, s, e)
  BY <1>9 DEF IsRun
<1>11. \A f \in SetIndex : end.sets[f] # None => FecInv(end.sets[f])
  BY <1>1, <1>8, <1>9
<1>12. end.complete \subseteq end.received /\ end.consumed \subseteq end.received
  BY <1>1, <1>4, <1>6, <1>9
<1>13. Readable(end)
  <2> SUFFICES ASSUME NEW f \in SetIndex, NEW p \in Position,
                      f + p \in new.received, ~SetIsConsumed(consumed, f)
               PROVE  end.sets[f] # None /\ end.sets[f].data[p] # None
    BY <1>9 DEF Readable
  <2>1. f \notin Freed(consumed, runs)
    BY DEF Freed
  <2>2. ~SetIsConsumed(new.consumed, f)
    BY <1>1, <1>5 DEF SetIsConsumed
  <2> QED
    BY <2>1, <2>2, <1>1, <1>8, <1>9 DEF Readable
<1>14. ConsumedInRuns(end)
  <2> SUFFICES ASSUME NEW j \in consumed
               PROVE  \E s, e \in Index :
                        j \in s .. e /\ IsRun(end, s, e) /\ s .. e \subseteq consumed
    BY <1>9 DEF ConsumedInRuns
  <2>1. CASE j \in st.consumed
    <3>1. PICK s \in Index, e \in Index :
            j \in s .. e /\ IsRun(st, s, e) /\ s .. e \subseteq st.consumed
      BY <2>1 DEF SlotInv, ConsumedInRuns
    <3>2. IsRun(end, s, e)
      BY <3>1, <1>2, <1>10
    <3> QED
      BY <3>1, <3>2, <1>5
  <2>2. CASE \E r \in runs : j \in r[1] .. r[2]
    <3>1. PICK r \in runs : j \in r[1] .. r[2]
      BY <2>2
    <3>2. /\ r[1] \in Index /\ r[2] \in Index /\ IsRun(end, r[1], r[2])
          /\ r[1] .. r[2] \subseteq consumed
      BY <1>2, <1>5, <1>10
    <3> QED
      BY <3>1, <3>2
  <2> QED
    BY <2>1, <2>2, <1>5
<1>15. RunsConsumed(end)
  BY <1>2, <1>9, <1>10 DEF RunsConsumed
<1>16. UsedUpFreed(end)
  <2> SUFFICES ASSUME NEW f \in SetIndex, SetIsConsumed(consumed, f)
               PROVE  sets[f] = None
    BY <1>9 DEF UsedUpFreed
  <2>1. CASE SetIsConsumed(st.consumed, f)
    BY <2>1, <1>1, <1>8
  <2>2. CASE ~SetIsConsumed(st.consumed, f)
    <3>1. PICK i \in SetRange(f) : i \in consumed /\ i \notin st.consumed
      BY <2>2 DEF SetIsConsumed
    <3>2. PICK r \in runs : i \in r[1] .. r[2]
      BY <3>1, <1>5
    <3>3. r[1] \in Int /\ r[2] \in Int /\ f \in Int /\ K \in Int
      BY <1>2, SetInIndex, GeometryAssumption DEF Index, Position
    <3>4. f <= r[2] /\ r[1] <= f + K - 1
      BY <3>1, <3>2, <3>3 DEF SetRange
    <3>5. f \in Freed(consumed, runs)
      BY <3>4 DEF Freed
    <3> QED
      BY <3>5, <1>8
  <2> QED
    BY <2>1, <2>2
<1>17. SlotInv(end)
  BY <1>9, <1>11, <1>12, <1>13, <1>14, <1>15, <1>16 DEF SlotInv
<1> QED
  BY <1>9, <1>10, <1>17 DEF end, consumed, runs, fresh, new

(* The empty slot satisfies the invariant.                                  *)
LEMMA SlotDefaultInv == SlotInv(SlotDefault)
<1>1. SlotDefault \in SlotState
  BY DEF SlotDefault, SlotState
<1>2. /\ \A f \in SetIndex : SlotDefault.sets[f] = None
      /\ SlotDefault.received = {} /\ SlotDefault.complete = {}
      /\ SlotDefault.consumed = {}
  BY DEF SlotDefault
<1>3. \A s, e \in Index : ~IsRun(SlotDefault, s, e)
  BY <1>2 DEF IsRun
<1> QED
  BY <1>1, <1>2, <1>3 DEF SlotInv, Readable, ConsumedInRuns, RunsConsumed, UsedUpFreed

(* SlotState::insert keeps the invariant; what it pushes are runs of the    *)
(* new state that were not consumed before and now are, and nothing else    *)
(* becomes consumed; runs stay runs.                                        *)
LEMMA SlotInsertInv ==
  ASSUME NEW st, SlotInv(st), NEW sh, IsShred(sh), NEW rs \in BOOLEAN
  PROVE  LET new == SlotInsert(st, sh, rs)
             segs == Segments(st, sh, rs)
         IN  /\ SlotInv(new)
             /\ \A g \in segs : /\ g.start \in Index /\ g.end \in Index
                                /\ g.start <= g.end
                                /\ IsRun(new, g.start, g.end)
                                /\ \A i \in g.start .. g.end : i \notin st.consumed
             /\ \A i : i \in new.consumed <=>
                         i \in st.consumed \/ \E g \in segs : i \in g.start .. g.end
             /\ \A s, e \in Index : IsRun(st, s, e) => IsRun(new, s, e)
             /\ \A g, h \in segs : g.start = h.start /\ g.end = h.end => g = h
<1> DEFINE new == SlotInsert(st, sh, rs)
           segs == Segments(st, sh, rs)
<1>1. CASE EarlyVerdict(st, sh) # "none"
  <2>1. new = st /\ segs = {}
    BY <1>1 DEF SlotInsert, Segments, Verdict, EarlyVerdict
  <2> QED
    BY <2>1
<1>2. CASE EarlyVerdict(st, sh) = "none" /\ Verdict(st, sh) # "new"
  <2>1. new = [st EXCEPT !.sets = [st.sets EXCEPT ![sh.fec] = SetFor(st, sh.fec)]]
        /\ segs = {}
    BY <1>2 DEF SlotInsert, Segments, SlotInv, SlotState
  <2>2. sh.fec \in SetIndex
    BY DEF IsShred
  <2>3. FecInv(SetFor(st, sh.fec)) /\ SetFor(st, sh.fec) \in FecSet
    BY <2>2, FecDefaultInv DEF SetFor, SlotInv, FecInv
  <2>4. [st.sets EXCEPT ![sh.fec] = SetFor(st, sh.fec)] \in [SetIndex -> FecSet \cup {None}]
    BY <2>2, <2>3 DEF SlotInv, SlotState
  <2>5. /\ new \in SlotState
        /\ new.sets = [st.sets EXCEPT ![sh.fec] = SetFor(st, sh.fec)]
        /\ new.received = st.received /\ new.complete = st.complete
        /\ new.consumed = st.consumed
    BY <2>1, <2>4 DEF SlotInv, SlotState
  <2>6. ~SetIsConsumed(st.consumed, sh.fec)
    <3>1. CASE sh.kind = "data"
      <4>1. sh.index \in SetRange(sh.fec)
        BY <3>1, <2>2, SetInIndex, GeometryAssumption DEF IsShred, SetRange, Position
      <4>2. sh.index \notin st.received
        BY <3>1, <1>2 DEF EarlyVerdict
      <4> QED
        BY <4>1, <4>2 DEF SetIsConsumed, SlotInv
    <3>2. CASE sh.kind = "code"
      BY <3>2, <1>2 DEF EarlyVerdict
    <3> QED
      BY <3>1, <3>2 DEF IsShred
  <2> HIDE DEF new, segs
  <2>7. \A f \in SetIndex :
          new.sets[f] = IF f = sh.fec THEN SetFor(st, sh.fec) ELSE st.sets[f]
    BY <2>2, <2>5 DEF SlotInv, SlotState
  <2>8. \A f \in SetIndex : new.sets[f] # None => FecInv(new.sets[f])
    BY <2>3, <2>7 DEF SlotInv
  <2>9. Readable(new)
    <3> SUFFICES ASSUME NEW f \in SetIndex, NEW p \in Position,
                        f + p \in st.received, ~SetIsConsumed(st.consumed, f)
                 PROVE  new.sets[f] # None /\ new.sets[f].data[p] # None
      BY <2>5 DEF Readable
    <3>1. st.sets[f] # None /\ st.sets[f].data[p] # None
      BY DEF SlotInv, Readable
    <3>2. new.sets[f] = st.sets[f]
      BY <3>1, <2>7 DEF SetFor
    <3> QED
      BY <3>1, <3>2
  <2>10. \A s, e \in Index : IsRun(new, s, e) <=> IsRun(st, s, e)
    BY <2>5 DEF IsRun
  <2>11. ConsumedInRuns(new) /\ RunsConsumed(new)
    BY <2>5, <2>10 DEF SlotInv, ConsumedInRuns, RunsConsumed
  <2>12. UsedUpFreed(new)
    BY <2>5, <2>6, <2>7 DEF SlotInv, UsedUpFreed
  <2>13. SlotInv(new)
    BY <2>5, <2>8, <2>9, <2>11, <2>12 DEF SlotInv
  <2> QED
    BY <2>1, <2>5, <2>10, <2>13 DEF new, segs
<1>3. CASE EarlyVerdict(st, sh) = "none" /\ Verdict(st, sh) = "new"
  <2> DEFINE mid == Stow(st, sh, rs)
             runs == ReadyRuns(mid, Fresh(st, sh, rs))
  <2>1. new = Complete(mid, runs) /\ segs = {SegmentOf(mid, r) : r \in runs}
    BY <1>3 DEF SlotInsert, Segments
  <2>2. /\ SlotInv(new) /\ new.consumed = Consume(mid, runs)
        /\ \A s, e \in Index : IsRun(mid, s, e) => IsRun(new, s, e)
    BY <2>1, <1>3, CompleteInv
  <2>3. /\ \A r \in runs : /\ r[1] \in Index /\ r[2] \in Index
                           /\ r[1] <= r[2] /\ IsRun(mid, r[1], r[2])
        /\ \A r \in runs : \A i \in r[1] .. r[2] : i \notin st.consumed
        /\ \A s, e \in Index : IsRun(st, s, e) => IsRun(mid, s, e)
    BY <1>3, ReadyRunsFacts
  <2>4. mid.consumed = st.consumed
    BY <1>3, StowInv
  <2>5. \A r : SegmentOf(mid, r).start = r[1] /\ SegmentOf(mid, r).end = r[2]
    BY DEF SegmentOf
  <2>6. \A r, q : r[1] = q[1] /\ r[2] = q[2] => SegmentOf(mid, r) = SegmentOf(mid, q)
    BY DEF SegmentOf
  <2> HIDE DEF mid, runs, new, segs
  <2>7. \A g \in segs : \E r \in runs : g = SegmentOf(mid, r)
    BY <2>1
  <2>8. \A i : i \in new.consumed <=>
                 i \in st.consumed \/ \E g \in segs : i \in g.start .. g.end
    BY <2>1, <2>2, <2>4, <2>5 DEF Consume
  <2>9. \A g, h \in segs : g.start = h.start /\ g.end = h.end => g = h
    BY <2>5, <2>6, <2>7
  <2>10. \A g \in segs : /\ g.start \in Index /\ g.end \in Index
                         /\ g.start <= g.end
                         /\ IsRun(new, g.start, g.end)
                         /\ \A i \in g.start .. g.end : i \notin st.consumed
    BY <2>2, <2>3, <2>5, <2>7
  <2> QED
    BY <2>2, <2>3, <2>8, <2>9, <2>10 DEF new, segs
<1> QED
  BY <1>1, <1>2, <1>3

(* Intervals that are not apart share an index.                             *)
LEMMA Overlap ==
  ASSUME NEW a \in Int, NEW b \in Int, NEW c \in Int, NEW d \in Int,
         a <= b, c <= d, ~(b < c), ~(d < a)
  PROVE  \E i \in Int : i \in a .. b /\ i \in c .. d
<1>1. CASE a <= c
  <2>1. c \in a .. b /\ c \in c .. d
    BY <1>1
  <2> QED
    BY <2>1
<1>2. CASE c <= a
  <2>1. a \in a .. b /\ a \in c .. d
    BY <1>2
  <2> QED
    BY <2>1
<1> QED
  BY <1>1, <1>2

(* The segments of one insert are apart from each other and from every      *)
(* interval that was consumed before.                                       *)
LEMMA SegmentsApart ==
  ASSUME NEW st, SlotInv(st), NEW sh, IsShred(sh), NEW rs \in BOOLEAN,
         NEW g \in Segments(st, sh, rs)
  PROVE  /\ \A h \in Segments(st, sh, rs) :
              g # h => g.end < h.start \/ h.end < g.start
         /\ \A s, e \in Index :
              s <= e /\ s .. e \subseteq st.consumed => g.end < s \/ e < g.start
<1> DEFINE new == SlotInsert(st, sh, rs)
           segs == Segments(st, sh, rs)
<1>1. /\ \A h \in segs : /\ h.start \in Index /\ h.end \in Index
                         /\ h.start <= h.end
                         /\ IsRun(new, h.start, h.end)
                         /\ \A i \in h.start .. h.end : i \notin st.consumed
      /\ \A h \in segs : g.start = h.start /\ g.end = h.end => g = h
  BY SlotInsertInv
<1> HIDE DEF new
<1>2. \A h \in segs : h.start \in Int /\ h.end \in Int
  BY <1>1 DEF Index
<1>3. \A h \in segs : g # h => g.end < h.start \/ h.end < g.start
  <2> SUFFICES ASSUME NEW h \in segs, ~(g.end < h.start), ~(h.end < g.start)
               PROVE  g = h
    OBVIOUS
  <2>1. PICK i \in Int : i \in g.start .. g.end /\ i \in h.start .. h.end
    BY <1>1, <1>2, Overlap
  <2>2. g.start = h.start /\ g.end = h.end
    BY <2>1, <1>1, RunUnique
  <2> QED
    BY <2>2, <1>1
<1>4. \A s, e \in Index :
        s <= e /\ s .. e \subseteq st.consumed => g.end < s \/ e < g.start
  <2> SUFFICES ASSUME NEW s \in Index, NEW e \in Index, s <= e,
                      s .. e \subseteq st.consumed,
                      ~(g.end < s), ~(e < g.start)
               PROVE  FALSE
    OBVIOUS
  <2>1. s \in Int /\ e \in Int
    BY DEF Index
  <2>2. PICK i \in Int : i \in g.start .. g.end /\ i \in s .. e
    BY <2>1, <1>1, <1>2, Overlap
  <2> QED
    BY <2>2, <1>1
<1> QED
  BY <1>3, <1>4

(* What an insert pushes: well-formed segments whose bytes within one FEC   *)
(* set have one Merkle root and one signature.                              *)
LEMMA SegmentsSound ==
  ASSUME NEW st, SlotInv(st), NEW sh, IsShred(sh), NEW rs \in BOOLEAN,
         NEW g \in Segments(st, sh, rs)
  PROVE  /\ IsSegment(g)
         /\ \A i, j \in g.start .. g.end :
              i - (i % K) = j - (j % K) =>
                g.bytes[i].root = g.bytes[j].root /\ g.bytes[i].sig = g.bytes[j].sig
<1> DEFINE mid == Stow(st, sh, rs)
           runs == ReadyRuns(mid, Fresh(st, sh, rs))
<1>1. Verdict(st, sh) = "new"
  BY DEF Segments
<1>2. PICK r \in runs : g = SegmentOf(mid, r)
  BY <1>1 DEF Segments
<1>3. /\ \A f \in SetIndex : mid.sets[f] # None => FecInv(mid.sets[f])
      /\ Readable(mid) /\ mid.consumed = st.consumed
  BY <1>1, StowInv
<1>4. /\ r[1] \in Index /\ r[2] \in Index /\ r[1] <= r[2]
      /\ r[1] .. r[2] \subseteq mid.received
      /\ \A i \in r[1] .. r[2] : i \notin st.consumed
  BY <1>1, ReadyRunsFacts DEF IsRun
<1> HIDE DEF mid, runs
<1>5. /\ g.start = r[1] /\ g.end = r[2]
      /\ g.bytes = [i \in r[1] .. r[2] |-> ShredAt(mid, i)]
      /\ g.last = ShredAt(mid, r[2]).last
  BY <1>2 DEF SegmentOf
<1>6. ASSUME NEW i \in r[1] .. r[2]
      PROVE  LET set == mid.sets[i - (i % K)]
             IN  /\ ShredAt(mid, i) \in Shard
                 /\ ShredAt(mid, i).root = set.root /\ ShredAt(mid, i).sig = set.sig
  <2> DEFINE f == i - (i % K)
             p == i - f
  <2>1. i \in Index
    BY <1>4, GeometryAssumption DEF Index, MAX_SHREDS_PER_SLOT
  <2>2. f \in SetIndex /\ p \in Position /\ f + p = i
    BY <2>1, SetOfIndex
  <2>3. ShredAt(mid, i) = mid.sets[f].data[p]
    BY DEF ShredAt
  <2> HIDE DEF f, p
  <2>4. i \in mid.received /\ i \in SetRange(f) /\ i \notin mid.consumed
    BY <2>2, <1>3, <1>4, SetInIndex, GeometryAssumption DEF SetRange, Position
  <2>5. ~SetIsConsumed(mid.consumed, f)
    BY <2>4 DEF SetIsConsumed
  <2>6. mid.sets[f] # None /\ mid.sets[f].data[p] # None
    BY <2>2, <2>4, <2>5, <1>3 DEF Readable
  <2>7. FecInv(mid.sets[f])
    BY <2>2, <2>6, <1>3
  <2>8. mid.sets[f].data[p] \in Shard
    BY <2>2, <2>6, <2>7 DEF FecInv, FecSet, DataArray
  <2> QED
    BY <2>2, <2>3, <2>6, <2>7, <2>8 DEF FecInv, f
<1>7. g.bytes \in [r[1] .. r[2] -> Shard]
  BY <1>5, <1>6
<1>8. r[2] \in r[1] .. r[2] /\ r[2] \in r[1] .. (MAX_SHREDS_PER_SLOT - 1)
  BY <1>4, GeometryAssumption DEF Index, MAX_SHREDS_PER_SLOT
<1>9. g.last \in BOOLEAN
  BY <1>5, <1>6, <1>8 DEF Shard
<1>10. IsSegment(g)
  BY <1>4, <1>5, <1>7, <1>8, <1>9 DEF IsSegment
<1>11. \A i \in r[1] .. r[2] : g.bytes[i] = ShredAt(mid, i)
  BY <1>5
<1> QED
  BY <1>5, <1>6, <1>10, <1>11

(* When runs B of a slot cover its consumed indexes, every run that is      *)
(* ready is one of them: insert leaves no work behind.                      *)
LEMMA ReadyRunsPushed ==
  ASSUME NEW st, SlotInv(st), NEW B,
         \A r \in B : r \in Index \X Index /\ IsRun(st, r[1], r[2]),
         \A i \in st.consumed : \E r \in B : i \in r[1] .. r[2],
         NEW s \in Index, NEW e \in Index, s <= e, IsRun(st, s, e)
  PROVE  <<s, e>> \in B
<1>1. s \in Int /\ e \in Int /\ s \in s .. e
  BY DEF Index
<1>2. s \in st.consumed
  BY <1>1 DEF SlotInv, RunsConsumed
<1>3. PICK r \in B : s \in r[1] .. r[2]
  BY <1>2
<1>4. /\ r \in Index \X Index /\ r[1] \in Index /\ r[2] \in Index
      /\ IsRun(st, r[1], r[2])
  OBVIOUS
<1>5. \A t, u \in Index : IsRun(st, t, u) /\ s \in t .. u => t = s /\ u = e
  BY <1>1, RunUnique
<1>6. r[1] = s /\ r[2] = e
  BY <1>3, <1>4, <1>5
<1> QED
  BY <1>4, <1>6

-----------------------------------------------------------------------------
(* The counters of a FEC set, by which is_complete and can_recover decide.  *)

(* Code positions that hold a shred.                                        *)
CodeHeld(set) == {c \in CodePosition : set.code[c] # None}

(* The counters agree with the arrays and a complete set has no code.       *)
Counted(set) ==
  /\ set.num_data = K - Cardinality(Missing(set))
  /\ set.num_code = Cardinality(CodeHeld(set))
  /\ IsComplete(set) => set.num_code = 0

(* A set that can still recover is one whose recovery fails.                *)
Tried(set, f, rs) == rs /\ CanRecover(set) => ~RecoverOK(set, f)

SetsSound(st, rs) ==
  \A f \in SetIndex :
    st.sets[f] # None => Counted(st.sets[f]) /\ Tried(st.sets[f], f, rs)

-----------------------------------------------------------------------------
(* Counting *)

(* The missing positions and the code held are finite sets.                 *)
LEMMA CountsFinite ==
  ASSUME NEW set
  PROVE  /\ IsFiniteSet(Missing(set)) /\ IsFiniteSet(CodeHeld(set))
         /\ Cardinality(Missing(set)) \in Nat /\ Cardinality(Missing(set)) <= K
         /\ Cardinality(CodeHeld(set)) \in Nat
<1>1. IsFiniteSet(Position) /\ Cardinality(Position) = K /\ IsFiniteSet(CodePosition)
  BY FS_Interval, GeometryAssumption DEF Position, CodePosition
<1>2. Missing(set) \in SUBSET Position /\ CodeHeld(set) \in SUBSET CodePosition
  BY DEF Missing, CodeHeld
<1>3. /\ IsFiniteSet(Missing(set)) /\ IsFiniteSet(CodeHeld(set))
      /\ Cardinality(Missing(set)) <= Cardinality(Position)
  BY <1>1, <1>2, FS_Subset
<1> QED
  BY <1>1, <1>3, FS_CardinalityType

(* An empty FecSet counts nothing and cannot recover.                       *)
LEMMA FecDefaultCounted == Counted(FecDefault) /\ ~CanRecover(FecDefault)
<1>1. Missing(FecDefault) = Position /\ CodeHeld(FecDefault) = {}
  BY DEF Missing, CodeHeld, FecDefault
<1>2. Cardinality(Position) = K /\ Cardinality({}) = 0
  BY FS_Interval, FS_EmptySet, GeometryAssumption DEF Position
<1>3. FecDefault.num_data = 0 /\ FecDefault.num_code = 0
  BY DEF FecDefault
<1> QED
  BY <1>1, <1>2, <1>3, GeometryAssumption DEF Counted, IsComplete, CanRecover

(* Dropping the code shreds makes num_code right whatever it was.           *)
LEMMA DropCodeCounted ==
  ASSUME NEW set \in FecSet, set.num_data = K - Cardinality(Missing(set))
  PROVE  Counted(DropCode(set)) /\ DropCode(set).num_code = 0
<1>1. /\ DropCode(set).data = set.data /\ DropCode(set).num_data = set.num_data
      /\ DropCode(set).code = [c \in CodePosition |-> None]
      /\ DropCode(set).num_code = 0
  BY DEF DropCode, FecSet
<1>2. Missing(DropCode(set)) = Missing(set) /\ CodeHeld(DropCode(set)) = {}
  BY <1>1 DEF Missing, CodeHeld
<1> QED
  BY <1>1, <1>2, FS_EmptySet DEF Counted

(* FecSet::insert counts the shred it stores.                               *)
LEMMA FecInsertCounted ==
  ASSUME NEW set, FecInv(set), Counted(set),
         NEW sh, IsShred(sh), FecVerdict(set, sh) = "new"
  PROVE  Counted(FecInsert(set, sh))
<1> DEFINE pinned == Pin(set, sh)
           placed == Place(pinned, sh)
<1>1. /\ set \in FecSet /\ Get(set, sh) = None /\ sh.root \in Root
      /\ ~(sh.kind = "code" /\ IsComplete(set))
  BY DEF FecInv, FecVerdict, IsShred
<1>2. /\ pinned \in FecSet
      /\ pinned.data = set.data /\ pinned.code = set.code
      /\ pinned.num_data = set.num_data /\ pinned.num_code = set.num_code
  BY <1>1 DEF Pin, FecSet, IsShred
<1> HIDE DEF pinned
<1>3. ShardOf(sh) \in Shard /\ ShardOf(sh) # None
  BY <1>1, NoneAssumption DEF ShardOf, Shard, IsShred
<1>4. FecInsert(set, sh) = IF IsComplete(placed) THEN DropCode(placed) ELSE placed
  BY DEF FecInsert, pinned
<1>5. /\ IsFiniteSet(Missing(set)) /\ IsFiniteSet(CodeHeld(set))
      /\ Cardinality(Missing(set)) \in Nat /\ Cardinality(CodeHeld(set)) \in Nat
      /\ set.num_data = K - Cardinality(Missing(set))
      /\ set.num_code = Cardinality(CodeHeld(set))
  BY CountsFinite DEF Counted
<1>6. CASE sh.kind = "data"
  <2>1. sh.pos \in Position /\ set.data[sh.pos] = None
    BY <1>1, <1>6 DEF IsShred, Get
  <2>2. placed = [pinned EXCEPT !.data = [pinned.data EXCEPT ![sh.pos] = ShardOf(sh)],
                                !.num_data = pinned.num_data + 1]
    BY <1>2, <1>6 DEF Place, FecSet
  <2>3. placed \in FecSet
    <3>1. [pinned.data EXCEPT ![sh.pos] = ShardOf(sh)] \in DataArray
      BY <2>1, <1>2, <1>3 DEF FecSet, DataArray
    <3>2. pinned.num_data + 1 \in Nat
      BY <1>2 DEF FecSet
    <3> QED
      BY <3>1, <3>2, <2>2, <1>2, FecSetUpdate
  <2>4. /\ placed.data = [set.data EXCEPT ![sh.pos] = ShardOf(sh)]
        /\ placed.num_data = set.num_data + 1
        /\ placed.code = set.code /\ placed.num_code = set.num_code
    BY <2>2, <1>2 DEF FecSet
  <2> HIDE DEF placed
  <2>5. Missing(placed) = Missing(set) \ {sh.pos} /\ sh.pos \in Missing(set)
    BY <2>1, <2>4, <1>1, <1>3 DEF Missing, FecSet, DataArray
  <2>6. Cardinality(Missing(placed)) = Cardinality(Missing(set)) - 1
    BY <2>5, <1>5, FS_RemoveElement
  <2>7. placed.num_data = K - Cardinality(Missing(placed))
    BY <2>4, <2>6, <1>5, GeometryAssumption
  <2>8. CodeHeld(placed) = CodeHeld(set)
    BY <2>4 DEF CodeHeld
  <2>9. CASE IsComplete(placed)
    BY <2>3, <2>7, <2>9, <1>4, DropCodeCounted
  <2>10. CASE ~IsComplete(placed)
    BY <2>4, <2>7, <2>8, <2>10, <1>4, <1>5 DEF Counted
  <2> QED
    BY <2>9, <2>10
<1>7. CASE sh.kind = "code"
  <2> DEFINE c == sh.pos - K
  <2>1. c \in CodePosition /\ set.code[c] = None
    BY <1>1, <1>7 DEF IsShred, Get
  <2> HIDE DEF c
  <2>2. placed = [pinned EXCEPT !.code = [pinned.code EXCEPT ![c] = ShardOf(sh)],
                                !.num_code = pinned.num_code + 1]
    BY <1>2, <1>7 DEF Place, FecSet, c
  <2>3. /\ placed.code = [set.code EXCEPT ![c] = ShardOf(sh)]
        /\ placed.num_code = set.num_code + 1
        /\ placed.data = set.data /\ placed.num_data = set.num_data
    BY <2>2, <1>2 DEF FecSet
  <2> HIDE DEF placed
  <2>4. CodeHeld(placed) = CodeHeld(set) \cup {c} /\ c \notin CodeHeld(set)
    BY <2>1, <2>3, <1>1, <1>3 DEF CodeHeld, FecSet, CodeArray
  <2>5. Cardinality(CodeHeld(placed)) = Cardinality(CodeHeld(set)) + 1
    BY <2>4, <1>5, FS_AddElement
  <2>6. Missing(placed) = Missing(set) /\ ~IsComplete(placed)
    BY <2>3, <1>1, <1>7 DEF Missing, IsComplete
  <2> QED
    BY <2>3, <2>5, <2>6, <1>4, <1>5 DEF Counted
<1> QED
  BY <1>6, <1>7 DEF IsShred

(* FecSet::recover counts what it fills in.  After a success the set is     *)
(* complete; after a failure another attempt would fail as well, since      *)
(* either nothing was filled or what was refused is still missing.          *)
LEMMA RecoverCounted ==
  ASSUME NEW set, FecInv(set), Counted(set), CanRecover(set), set.root \in Root,
         NEW f \in SetIndex
  PROVE  /\ Counted(Recover(set, f))
         /\ CanRecover(Recover(set, f)) => ~RecoverOK(Recover(set, f), f)
<1> DEFINE fills == Filled(set, f)
           data == [p \in Position |-> IF p \in fills THEN Rebuilt(set, f + p)
                                       ELSE set.data[p]]
           filled == [set EXCEPT !.data = data,
                                 !.num_data = set.num_data + Cardinality(fills)]
<1>1. Recover(set, f) = IF RecoverOK(set, f) THEN DropCode(filled) ELSE filled
  BY DEF Recover, FecInv, FecSet
<1>2. /\ set \in FecSet /\ set.num_code > 0 /\ ~IsComplete(set)
      /\ \A i : Rebuilt(set, i) \in Shard /\ Rebuilt(set, i) # None
  BY RebuiltIsShard DEF CanRecover, FecInv
<1>3. fills \subseteq Missing(set)
  BY DEF Filled
<1>4. /\ IsFiniteSet(Missing(set)) /\ IsFiniteSet(fills)
      /\ Cardinality(Missing(set)) \in Nat /\ Cardinality(fills) \in Nat
      /\ Missing(set) \cap fills = fills
      /\ set.num_data = K - Cardinality(Missing(set))
      /\ set.num_code = Cardinality(CodeHeld(set))
  BY <1>3, CountsFinite, FS_Subset, FS_CardinalityType DEF Counted
<1> HIDE DEF fills
<1>5. /\ data \in DataArray
      /\ \A p \in Position :
           data[p] = IF p \in fills THEN Rebuilt(set, f + p) ELSE set.data[p]
  BY <1>2 DEF FecSet, DataArray
<1> HIDE DEF data
<1>6. /\ filled \in FecSet /\ filled.data = data /\ filled.code = set.code
      /\ filled.num_data = set.num_data + Cardinality(fills)
      /\ filled.num_code = set.num_code /\ filled.root = set.root
  <2>1. set.num_data + Cardinality(fills) \in Nat
    BY <1>2, <1>4 DEF FecSet
  <2>2. filled \in FecSet
    BY <2>1, <1>2, <1>5, FecSetUpdate
  <2> QED
    BY <2>2, <1>2 DEF FecSet
<1> HIDE DEF filled
<1>7. Missing(filled) = Missing(set) \ fills
  BY <1>2, <1>5, <1>6 DEF Missing
<1>8. Cardinality(Missing(filled)) = Cardinality(Missing(set)) - Cardinality(fills)
  BY <1>4, <1>7, FS_Difference
<1>9. filled.num_data = K - Cardinality(Missing(filled))
  BY <1>4, <1>6, <1>8, GeometryAssumption
<1>10. CASE RecoverOK(set, f)
  <2>1. Counted(DropCode(filled)) /\ DropCode(filled).num_code = 0
    BY <1>6, <1>9, DropCodeCounted
  <2> QED
    BY <2>1, <1>1, <1>10 DEF CanRecover
<1>11. CASE ~RecoverOK(set, f)
  <2>1. ~RecoverOK(filled, f) /\ Missing(filled) # {}
    <3>1. CASE ~Reconstructs(set)
      <4>1. fills = {}
        BY <3>1 DEF Filled, fills
      <4>2. \A p \in Position : data[p] = set.data[p]
        BY <4>1, <1>5
      <4>3. Stored(filled) = Stored(set)
        BY <4>2, <1>6 DEF Stored
      <4>4. Missing(set) # {}
        BY <1>2, <1>4, FS_EmptySet, GeometryAssumption DEF IsComplete
      <4> QED
        BY <3>1, <4>1, <4>3, <4>4, <1>7 DEF Reconstructs, RecoverOK
    <3>2. CASE Reconstructs(set)
      <4>1. PICK q \in Missing(set) : q \in Refused(set, f)
        BY <3>2, <1>11 DEF RecoverOK, Refused
      <4>2. q \notin fills
        BY <4>1, GeometryAssumption DEF Filled, fills, Missing, Position
      <4>3. q \in Missing(filled) /\ q \in Refused(filled, f)
        BY <4>1, <4>2, <1>6, <1>7 DEF Refused
      <4> QED
        BY <4>3 DEF RecoverOK
    <3> QED
      BY <3>1, <3>2
  <2>2. ~IsComplete(filled)
    <3>1. IsFiniteSet(Missing(filled)) /\ Cardinality(Missing(filled)) \in Nat
      BY CountsFinite
    <3>2. Cardinality(Missing(filled)) # 0
      BY <2>1, <3>1, FS_EmptySet
    <3> QED
      BY <3>1, <3>2, <1>9, GeometryAssumption DEF IsComplete
  <2>3. CodeHeld(filled) = CodeHeld(set)
    BY <1>6 DEF CodeHeld
  <2>4. Counted(filled)
    BY <2>2, <2>3, <1>4, <1>6, <1>9 DEF Counted
  <2> QED
    BY <2>1, <2>4, <1>1, <1>11
<1> QED
  BY <1>10, <1>11

-----------------------------------------------------------------------------
(* SlotState::insert *)

(* The set an accepted shred goes to is counted right, and recovered if it  *)
(* can be.                                                                  *)
LEMMA NewSetSound ==
  ASSUME NEW st, SlotInv(st), NEW rs \in BOOLEAN, SetsSound(st, rs),
         NEW sh, IsShred(sh), Verdict(st, sh) = "new"
  PROVE  Counted(NewSet(st, sh, rs)) /\ Tried(NewSet(st, sh, rs), sh.fec, rs)
<1> DEFINE old == SetFor(st, sh.fec)
           put == FecInsert(old, sh)
<1>1. sh.fec \in SetIndex /\ FecVerdict(old, sh) = "new"
  BY DEF IsShred, Verdict, EarlyVerdict
<1>2. FecInv(old) /\ Counted(old)
  BY <1>1, FecDefaultInv, FecDefaultCounted DEF SetFor, SlotInv, SetsSound
<1>3. FecInv(put) /\ put.root \in Root /\ Counted(put)
  BY <1>1, <1>2, FecInsertInv, FecInsertCounted
<1> HIDE DEF old
<1>4. /\ Recovers(st, sh, rs) <=> rs /\ CanRecover(put)
      /\ NewSet(st, sh, rs) = IF Recovers(st, sh, rs) THEN Recover(put, sh.fec) ELSE put
  BY DEF Recovers, NewSet, old
<1> HIDE DEF put
<1>5. CASE Recovers(st, sh, rs)
  BY <1>1, <1>3, <1>4, <1>5, RecoverCounted DEF Tried
<1>6. CASE ~Recovers(st, sh, rs)
  BY <1>3, <1>4, <1>6 DEF Tried
<1> QED
  BY <1>5, <1>6

(* SlotState::insert keeps every set sound: it touches only the set of the  *)
(* shred, and completing runs only removes sets.                            *)
LEMMA SlotInsertSound ==
  ASSUME NEW st, SlotInv(st), NEW rs \in BOOLEAN, SetsSound(st, rs),
         NEW sh, IsShred(sh)
  PROVE  SetsSound(SlotInsert(st, sh, rs), rs)
<1>1. st \in SlotState /\ sh.fec \in SetIndex
  BY DEF SlotInv, IsShred
<1>2. CASE EarlyVerdict(st, sh) # "none"
  BY <1>2 DEF SlotInsert
<1>3. CASE EarlyVerdict(st, sh) = "none" /\ Verdict(st, sh) # "new"
  <2> DEFINE new == [st EXCEPT !.sets[sh.fec] = SetFor(st, sh.fec)]
  <2>1. SlotInsert(st, sh, rs) = new
    BY <1>3 DEF SlotInsert
  <2>2. \A f \in SetIndex :
          new.sets[f] = IF f = sh.fec THEN SetFor(st, sh.fec) ELSE st.sets[f]
    BY <1>1 DEF SlotState
  <2> HIDE DEF new
  <2>3. Counted(SetFor(st, sh.fec)) /\ Tried(SetFor(st, sh.fec), sh.fec, rs)
    BY <1>1, FecDefaultCounted DEF SetFor, SetsSound, Tried
  <2> QED
    BY <2>1, <2>2, <2>3 DEF SetsSound
<1>4. CASE EarlyVerdict(st, sh) = "none" /\ Verdict(st, sh) = "new"
  <2> DEFINE set == NewSet(st, sh, rs)
             stowed == Stow(st, sh, rs)
             runs == ReadyRuns(stowed, Fresh(st, sh, rs))
             new == Complete(stowed, runs)
  <2>1. SlotInsert(st, sh, rs) = new
    BY <1>4 DEF SlotInsert
  <2>2. Counted(set) /\ Tried(set, sh.fec, rs)
    BY <1>4, NewSetSound
  <2> HIDE DEF set
  <2>3. \A f \in SetIndex :
          stowed.sets[f] = IF f = sh.fec THEN set ELSE st.sets[f]
    BY <1>1 DEF Stow, SlotState, set
  <2>4. DOMAIN stowed = DOMAIN st
    BY <1>1 DEF Stow, SlotState
  <2> HIDE DEF stowed
  <2>5. \A f \in SetIndex : new.sets[f] # None => new.sets[f] = stowed.sets[f]
    BY <1>1, <2>4 DEF Complete, SlotState
  <2> HIDE DEF new
  <2> QED
    BY <2>1, <2>2, <2>3, <2>5 DEF SetsSound
<1> QED
  BY <1>2, <1>3, <1>4

-----------------------------------------------------------------------------
(* How a slot follows RunDelivery: the coupling of a SlotState with the     *)
(* set of shreds heard, for a block that a leader shredded consistently     *)
(* into the shreds S, and that SlotState::insert keeps it.                  *)

(* What RunDelivery promises, apart from any behaviour.                     *)
Ideal(Ends) == INSTANCE RunDelivery WITH heard <- {}, delivered <- {}

HeardOf(h, f) == {x \in h : x[2] = f}

(* Shreds of set f, as RunDelivery names them: at the positions D of the    *)
(* data and C of the code, and those that a FecSet stores.                  *)
Names(D, C, f) ==
  {<<"data", f, p>> : p \in D} \cup {<<"code", f, K + c>> : c \in C}

Holds(set, f) == Names(Position \ Missing(set), CodeHeld(set), f)

(* What a FecSet stores is what the leader sent.                            *)
Genuine(S, set, f) ==
  /\ set.root # None =>
       \E a \in S : /\ a.fec = f /\ a.root = set.root /\ a.sig = set.sig
                       /\ \A x \in Stored(set) : x.len = a.len
  /\ \A p \in Position :
       set.data[p] # None => (set.data[p].complete <=> f + p \in EndsOf(S))

Full(st, f) == SetRange(f) \subseteq st.received

(* The data of a set is all there only if all of it was heard or, with      *)
(* recovery, enough of the set was.                                         *)
Earned(h, f) ==
  \/ \A p \in Position : <<"data", f, p>> \in h
  \/ Recovery /\ Cardinality(HeardOf(h, f)) >= K

(* How the state of one FEC set follows from the shreds heard of it.  Until *)
(* all its data is there a set stores exactly what was heard.               *)
Tracks(S, st, h, f) ==
  /\ Full(st, f) => Earned(h, f)
  /\ ~Full(st, f) => HeardOf(h, f) = Holds(SetFor(st, f), f)
  /\ \A p \in Position : SetFor(st, f).data[p] # None => f + p \in st.received
  /\ Genuine(S, SetFor(st, f), f)

(* The invariant that couples the slot with RunDelivery.                    *)
Coupled(S, st, h) ==
  /\ h \subseteq Ideal(EndsOf(S))!BlockShred
  /\ st.complete = st.received \cap EndsOf(S)
  /\ \A f \in SetIndex : Tracks(S, st, h, f)

-----------------------------------------------------------------------------
(* Counting *)

(* RunDelivery counts with the same Cardinality.                            *)
LEMMA SameCardinality ==
  ASSUME NEW E, NEW S
  PROVE  Ideal(E)!Cardinality(S) = Cardinality(S)
BY DEF Ideal!Cardinality, Cardinality

(* A one-to-one correspondence preserves the number of elements.            *)
LEMMA ImageCount ==
  ASSUME NEW S, IsFiniteSet(S), NEW T, NEW g \in [S -> T],
         \A x, y \in S : g[x] = g[y] => x = y,
         \A y \in T : \E x \in S : g[x] = y
  PROVE  IsFiniteSet(T) /\ Cardinality(T) = Cardinality(S)
<1>1. g \in Surjection(S, T) /\ g \in Injection(S, T)
  BY DEF Surjection, Injection, IsInjective
<1> QED
  BY <1>1, FS_Surjection

(* As many shreds have names as there are positions to name.                *)
LEMMA NamesCount ==
  ASSUME NEW D \in SUBSET Position, NEW C \in SUBSET CodePosition, NEW f
  PROVE  /\ IsFiniteSet(Names(D, C, f))
         /\ Cardinality(Names(D, C, f)) = Cardinality(D) + Cardinality(C)
<1> DEFINE datas == {<<"data", f, p>> : p \in D}
           codes == {<<"code", f, K + c>> : c \in C}
<1>1. IsFiniteSet(D) /\ IsFiniteSet(C)
  <2>1. IsFiniteSet(Position) /\ IsFiniteSet(CodePosition)
    BY FS_Interval, GeometryAssumption DEF Position, CodePosition
  <2> QED
    BY <2>1, FS_Subset
<1>2. Cardinality(D) \in Nat /\ Cardinality(C) \in Nat
  BY <1>1, FS_CardinalityType
<1>3. IsFiniteSet(datas) /\ Cardinality(datas) = Cardinality(D)
  <2> DEFINE g == [p \in D |-> <<"data", f, p>>]
  <2>1. /\ g \in [D -> datas]
        /\ \A x, y \in D : g[x] = g[y] => x = y
        /\ \A y \in datas : \E x \in D : g[x] = y
    OBVIOUS
  <2> HIDE DEF g, datas
  <2> QED
    BY <2>1, <1>1, ImageCount
<1>4. IsFiniteSet(codes) /\ Cardinality(codes) = Cardinality(C)
  <2> DEFINE g == [c \in C |-> <<"code", f, K + c>>]
  <2>1. g \in [C -> codes]
    OBVIOUS
  <2>2. \A x, y \in C : g[x] = g[y] => x = y
    <3> SUFFICES ASSUME NEW x \in C, NEW y \in C, K + x = K + y PROVE x = y
      OBVIOUS
    <3>1. x \in Int /\ y \in Int /\ K \in Int
      BY GeometryAssumption DEF CodePosition
    <3> QED
      BY <3>1
  <2>3. \A y \in codes : \E x \in C : g[x] = y
    OBVIOUS
  <2> HIDE DEF g, codes
  <2> QED
    BY <2>1, <2>2, <2>3, <1>1, ImageCount
<1>5. datas \cap codes = {}
  OBVIOUS
<1> HIDE DEF datas, codes
<1>6. /\ IsFiniteSet(datas \cup codes)
      /\ Cardinality(datas \cup codes) = Cardinality(datas) + Cardinality(codes)
                                         - Cardinality(datas \cap codes)
  BY <1>3, <1>4, FS_Union
<1>7. Cardinality(datas \cap codes) = 0
  BY <1>5, FS_EmptySet
<1>8. Cardinality(datas \cup codes) = Cardinality(D) + Cardinality(C)
  BY <1>2, <1>3, <1>4, <1>6, <1>7
<1>9. Names(D, C, f) = datas \cup codes
  BY DEF Names, datas, codes
<1> QED
  BY <1>6, <1>8, <1>9

(* A FecSet holds as many shreds as its counters say.                       *)
LEMMA HoldsCount ==
  ASSUME NEW set \in FecSet, Counted(set), NEW f
  PROVE  /\ IsFiniteSet(Holds(set, f))
         /\ Cardinality(Holds(set, f)) = set.num_data + set.num_code
<1> DEFINE D == Position \ Missing(set)
<1>1. /\ IsFiniteSet(Position) /\ Cardinality(Position) = K
      /\ Position \cap Missing(set) = Missing(set)
  BY FS_Interval, GeometryAssumption DEF Position, Missing
<1>2. Cardinality(D) = Cardinality(Position) - Cardinality(Position \cap Missing(set))
  BY <1>1, FS_Difference
<1>3. Cardinality(D) = set.num_data /\ Cardinality(CodeHeld(set)) = set.num_code
  BY <1>1, <1>2 DEF Counted
<1>4. D \in SUBSET Position /\ CodeHeld(set) \in SUBSET CodePosition
  BY DEF CodeHeld
<1>5. Holds(set, f) = Names(D, CodeHeld(set), f)
  BY DEF Holds
<1> HIDE DEF D
<1> QED
  BY <1>3, <1>4, <1>5, NamesCount

-----------------------------------------------------------------------------
(* A consistent block *)

(* What is sent is what an insert gets.                                     *)
LEMMA LeafOfSent ==
  ASSUME NEW S, Consistent(S), NEW a \in S, a.fec \in SetIndex, NEW p \in Position
  PROVE  <<a.root, a.fec + p>> \in CompleteLeaf <=> a.fec + p \in EndsOf(S)
<1> DEFINE i == a.fec + p
<1>1. i \in Index
  BY SetInIndex
<1>2. i - (i % K) = a.fec
  <2>1. /\ i - (i % K) \in SetIndex
        /\ i - (i - (i % K)) \in Position
        /\ (i - (i % K)) + (i - (i - (i % K))) = i
    BY <1>1, SetOfIndex
  <2> QED
    BY <2>1, SetUnique
<1> HIDE DEF i
<1>3. <<a.root, i>> \in CompleteLeaf => i \in EndsOf(S)
  <2> SUFFICES ASSUME <<a.root, i>> \in CompleteLeaf PROVE i \in EndsOf(S)
    OBVIOUS
  <2>1. <<a.root, i>>[1] = a.root /\ <<a.root, i>>[2] = i
    OBVIOUS
  <2> QED
    BY <2>1, <1>2 DEF EndsOf
<1>4. i \in EndsOf(S) => <<a.root, i>> \in CompleteLeaf
  <2> SUFFICES ASSUME i \in EndsOf(S) PROVE <<a.root, i>> \in CompleteLeaf
    OBVIOUS
  <2>1. PICK x \in CompleteLeaf, b \in S :
          x[2] = i /\ b.root = x[1] /\ b.fec = x[2] - (x[2] % K)
    BY DEF EndsOf
  <2>2. x[1] = a.root
    BY <2>1, <1>2 DEF Consistent
  <2>3. x = <<x[1], x[2]>>
    BY LeafAssumption
  <2> QED
    BY <2>1, <2>2, <2>3
<1> QED
  BY <1>3, <1>4 DEF i

(* Recovery of a genuine set succeeds.                                      *)
LEMMA GenuineRecovers ==
  ASSUME NEW S, Consistent(S), NEW set, NEW f, Genuine(S, set, f), set.root # None
  PROVE  RecoverOK(set, f)
<1>1. PICK a \in S : /\ a.fec = f /\ a.root = set.root
                        /\ \A x \in Stored(set) : x.len = a.len
  BY DEF Genuine
<1>2. Reconstructs(set)
  BY <1>1 DEF Reconstructs
<1>3. \A p \in Position : <<set.root, f + p>> \notin Malformed
  BY <1>1 DEF Consistent
<1> QED
  BY <1>2, <1>3 DEF RecoverOK, Refused, Missing

(* What FecSet::insert leaves in the arrays.                                *)
LEMMA FecInsertContents ==
  ASSUME NEW set, FecInv(set), NEW sh, IsShred(sh), FecVerdict(set, sh) = "new"
  PROVE  LET new == FecInsert(set, sh)
         IN  /\ new.root = sh.root /\ new.sig = sh.sig
             /\ \A p \in Position :
                  new.data[p] = IF sh.kind = "data" /\ p = sh.pos
                                THEN ShardOf(sh) ELSE set.data[p]
             /\ \A c \in CodePosition :
                  \/ new.code[c] = IF sh.kind = "code" /\ c = sh.pos - K
                                   THEN ShardOf(sh) ELSE set.code[c]
                  \/ IsComplete(new) /\ new.code[c] = None
<1> DEFINE pinned == Pin(set, sh)
           placed == Place(pinned, sh)
<1>1. /\ set \in FecSet /\ sh.root \in Root
      /\ set.root # None => set.root = sh.root /\ set.sig = sh.sig
  BY DEF FecInv, FecVerdict, IsShred
<1>2. /\ pinned \in FecSet /\ pinned.data = set.data /\ pinned.code = set.code
      /\ pinned.root = sh.root /\ pinned.sig = sh.sig
  BY <1>1 DEF Pin, FecSet, IsShred
<1> HIDE DEF pinned
<1>3. FecInsert(set, sh) = IF IsComplete(placed) THEN DropCode(placed) ELSE placed
  BY DEF FecInsert, pinned
<1>4. /\ DOMAIN placed = DOMAIN pinned
      /\ placed.root = sh.root /\ placed.sig = sh.sig
      /\ \A p \in Position :
           placed.data[p] = IF sh.kind = "data" /\ p = sh.pos
                            THEN ShardOf(sh) ELSE set.data[p]
      /\ \A c \in CodePosition :
           placed.code[c] = IF sh.kind = "code" /\ c = sh.pos - K
                            THEN ShardOf(sh) ELSE set.code[c]
  <2>1. CASE sh.kind = "data"
    BY <2>1, <1>2 DEF Place, FecSet, DataArray, IsShred
  <2>2. CASE sh.kind = "code"
    BY <2>2, <1>2 DEF Place, FecSet, CodeArray, IsShred
  <2> QED
    BY <2>1, <2>2 DEF IsShred
<1> HIDE DEF placed
<1>5. /\ DropCode(placed).data = placed.data /\ DropCode(placed).root = placed.root
      /\ DropCode(placed).sig = placed.sig
      /\ DropCode(placed).num_data = placed.num_data
      /\ DropCode(placed).code = [c \in CodePosition |-> None]
  BY <1>2, <1>4 DEF DropCode, FecSet
<1>6. CASE IsComplete(placed)
  <2>1. IsComplete(DropCode(placed))
    BY <1>5, <1>6 DEF IsComplete
  <2> QED
    BY <2>1, <1>3, <1>4, <1>5, <1>6
<1>7. CASE ~IsComplete(placed)
  BY <1>3, <1>4, <1>7
<1> QED
  BY <1>6, <1>7

(* Until the set is complete, FecSet::insert adds the shred to those held.  *)
LEMMA InsertHolds ==
  ASSUME NEW set, FecInv(set), NEW sh, IsShred(sh), FecVerdict(set, sh) = "new",
         ~IsComplete(FecInsert(set, sh))
  PROVE  Holds(FecInsert(set, sh), sh.fec)
           = Holds(set, sh.fec) \cup {<<sh.kind, sh.fec, sh.pos>>}
<1> DEFINE new == FecInsert(set, sh)
           f == sh.fec
<1>1. /\ \A p \in Position :
           new.data[p] = IF sh.kind = "data" /\ p = sh.pos
                         THEN ShardOf(sh) ELSE set.data[p]
      /\ \A c \in CodePosition :
           new.code[c] = IF sh.kind = "code" /\ c = sh.pos - K
                         THEN ShardOf(sh) ELSE set.code[c]
  BY FecInsertContents
<1>2. ShardOf(sh) # None
  <2>1. sh.root \in Root
    BY DEF FecVerdict, IsShred
  <2>2. ShardOf(sh) \in Shard
    BY <2>1 DEF ShardOf, Shard, IsShred
  <2> QED
    BY <2>2, NoneAssumption
<1>3. CASE sh.kind = "data"
  <2>1. sh.pos \in Position
    BY <1>3 DEF IsShred
  <2>2. Position \ Missing(new) = (Position \ Missing(set)) \cup {sh.pos}
    BY <2>1, <1>1, <1>2, <1>3 DEF Missing
  <2>3. CodeHeld(new) = CodeHeld(set)
    BY <1>1, <1>3 DEF CodeHeld
  <2> HIDE DEF new
  <2> QED
    BY <2>2, <2>3, <1>3 DEF Holds, Names, new
<1>4. CASE sh.kind = "code"
  <2>1. sh.pos - K \in CodePosition /\ K + (sh.pos - K) = sh.pos
    BY <1>4, GeometryAssumption DEF IsShred
  <2>2. Missing(new) = Missing(set)
    BY <1>1, <1>4 DEF Missing
  <2>3. CodeHeld(new) = CodeHeld(set) \cup {sh.pos - K}
    BY <2>1, <1>1, <1>2, <1>4 DEF CodeHeld
  <2> HIDE DEF new
  <2>4. {<<"code", f, K + c>> : c \in CodeHeld(new)}
          = {<<"code", f, K + c>> : c \in CodeHeld(set)} \cup {<<"code", f, sh.pos>>}
    BY <2>1, <2>3
  <2> QED
    BY <2>2, <2>4, <1>4 DEF Holds, Names, new
<1> QED
  BY <1>3, <1>4 DEF IsShred

(* FecSet::insert keeps a set genuine.                                      *)
LEMMA InsertGenuine ==
  ASSUME NEW S, Consistent(S), NEW set, FecInv(set), NEW sh \in S, IsShred(sh),
         FecVerdict(set, sh) = "new", Genuine(S, set, sh.fec)
  PROVE  Genuine(S, FecInsert(set, sh), sh.fec)
<1> DEFINE new == FecInsert(set, sh)
           f == sh.fec
<1>1. /\ new.root = sh.root /\ new.sig = sh.sig
      /\ \A p \in Position :
           new.data[p] = IF sh.kind = "data" /\ p = sh.pos
                         THEN ShardOf(sh) ELSE set.data[p]
      /\ \A c \in CodePosition :
           \/ new.code[c] = IF sh.kind = "code" /\ c = sh.pos - K
                            THEN ShardOf(sh) ELSE set.code[c]
           \/ new.code[c] = None
  BY FecInsertContents
<1> HIDE DEF new
<1>2. \A x \in Stored(new) : x = ShardOf(sh) \/ x \in Stored(set)
  BY <1>1 DEF Stored
<1>3. \A x \in Stored(set) : x.len = sh.len
  <2> SUFFICES ASSUME NEW x \in Stored(set) PROVE x.len = sh.len
    OBVIOUS
  <2>1. set.root # None
    <3>1. x.root = set.root /\ x \in Shard
      BY DEF Stored, FecInv, FecSet, DataArray, CodeArray
    <3>2. x.root \in Root
      BY <3>1 DEF Shard
    <3> QED
      BY <3>1, <3>2, GeometryAssumption
  <2>2. PICK a \in S : a.fec = f /\ \A y \in Stored(set) : y.len = a.len
    BY <2>1 DEF Genuine
  <2>3. a.len = sh.len
    BY <2>2 DEF Consistent
  <2> QED
    BY <2>2, <2>3
<1>4. ShardOf(sh).len = sh.len /\ ShardOf(sh).complete = sh.complete
  BY DEF ShardOf
<1>5. \A x \in Stored(new) : x.len = sh.len
  BY <1>2, <1>3, <1>4
<1>6. \A p \in Position : new.data[p] # None => (new.data[p].complete <=> f + p \in EndsOf(S))
  <2> SUFFICES ASSUME NEW p \in Position, new.data[p] # None
               PROVE  new.data[p].complete <=> f + p \in EndsOf(S)
    OBVIOUS
  <2>1. CASE sh.kind = "data" /\ p = sh.pos
    <3>1. sh.index = f + p /\ f \in SetIndex
      BY <2>1 DEF IsShred
    <3>2. sh.complete <=> <<sh.root, f + p>> \in CompleteLeaf
      BY <2>1, <3>1 DEF Consistent
    <3>3. <<sh.root, f + p>> \in CompleteLeaf <=> f + p \in EndsOf(S)
      BY <3>1, LeafOfSent
    <3>4. new.data[p].complete = sh.complete
      BY <2>1, <1>1, <1>4
    <3> QED
      BY <3>2, <3>3, <3>4
  <2>2. CASE ~(sh.kind = "data" /\ p = sh.pos)
    BY <2>2, <1>1 DEF Genuine
  <2> QED
    BY <2>1, <2>2
<1> QED
  BY <1>1, <1>5, <1>6 DEF Genuine, new

(* FecSet::recover of a genuine set yields a genuine set.                   *)
LEMMA RecoverGenuine ==
  ASSUME NEW S, Consistent(S), NEW set, FecInv(set), set.root \in Root, set.num_code > 0,
         NEW f \in SetIndex, Genuine(S, set, f)
  PROVE  Genuine(S, Recover(set, f), f)
<1> DEFINE new == Recover(set, f)
<1>1. RecoverOK(set, f)
  BY GenuineRecovers, GeometryAssumption
<1>2. PICK a \in S : /\ a.fec = f /\ a.root = set.root /\ a.sig = set.sig
                        /\ \A x \in Stored(set) : x.len = a.len
  BY GeometryAssumption DEF Genuine
<1>3. /\ new.root = set.root /\ new.sig = set.sig
      /\ \A p \in Position : new.data[p] = IF p \in Filled(set, f)
                                           THEN Rebuilt(set, f + p) ELSE set.data[p]
      /\ \A c \in CodePosition : new.code[c] = None
  BY <1>1 DEF Recover, DropCode, FecInv, FecSet, DataArray
<1> HIDE DEF new
<1>4. \A i : Rebuilt(set, i).len = a.len
  <2>1. PICK c \in CodePosition : set.code[c] # None
    BY DEF FecInv
  <2>2. set.code[c] \in Stored(set)
    BY <2>1 DEF Stored
  <2>3. (CHOOSE x \in Stored(set) : TRUE) \in Stored(set)
    BY <2>2
  <2> QED
    BY <2>3, <1>2 DEF Rebuilt
<1>5. \A x \in Stored(new) : x.len = a.len
  <2> SUFFICES ASSUME NEW x \in Stored(new) PROVE x.len = a.len
    OBVIOUS
  <2>1. PICK p \in Position : x = new.data[p] /\ x # None
    BY <1>3 DEF Stored
  <2>2. CASE p \in Filled(set, f)
    BY <2>1, <2>2, <1>3, <1>4
  <2>3. CASE p \notin Filled(set, f)
    <3>1. x \in Stored(set)
      BY <2>1, <2>3, <1>3 DEF Stored
    <3> QED
      BY <3>1, <1>2
  <2> QED
    BY <2>2, <2>3
<1>6. \A p \in Position : new.data[p] # None => (new.data[p].complete <=> f + p \in EndsOf(S))
  <2> SUFFICES ASSUME NEW p \in Position, new.data[p] # None
               PROVE  new.data[p].complete <=> f + p \in EndsOf(S)
    OBVIOUS
  <2>1. CASE p \in Filled(set, f)
    <3>1. new.data[p] = Rebuilt(set, f + p)
      BY <2>1, <1>3
    <3>2. Rebuilt(set, f + p).complete = (<<set.root, f + p>> \in CompleteLeaf)
      BY DEF Rebuilt
    <3>3. <<set.root, f + p>> \in CompleteLeaf <=> f + p \in EndsOf(S)
      BY <1>2, LeafOfSent
    <3> QED
      BY <3>1, <3>2, <3>3
  <2>2. CASE p \notin Filled(set, f)
    BY <2>2, <1>3 DEF Genuine
  <2> QED
    BY <2>1, <2>2
<1> QED
  BY <1>2, <1>3, <1>5, <1>6 DEF Genuine, new

-----------------------------------------------------------------------------
(* SlotState::insert *)

(* In a slot that is coupled, what is available is what has been received.  *)
LEMMA ReceivedIsAvailable ==
  ASSUME NEW S, Consistent(S), NEW st, SlotInv(st), SetsSound(st, Recovery),
         NEW h, Coupled(S, st, h)
  PROVE  st.received = Ideal(EndsOf(S))!Available(h)
<1>1. \A i \in Index : i \in st.received <=> i \in Ideal(EndsOf(S))!Available(h)
  <2> SUFFICES ASSUME NEW i \in Index
               PROVE  i \in st.received <=> i \in Ideal(EndsOf(S))!Available(h)
    OBVIOUS
  <2> DEFINE f == i - (i % K)
             p == i - f
             set == SetFor(st, f)
  <2>1. f \in SetIndex /\ p \in Position /\ f + p = i
    BY SetOfIndex
  <2>2. i \in Ideal(EndsOf(S))!Available(h) <=>
          \/ <<"data", f, p>> \in h
          \/ Recovery /\ Cardinality(HeardOf(h, f)) >= K
    <3>1. Ideal(EndsOf(S))!DataIndex = Index
      BY DEF Ideal!DataIndex, Index, MAX_SHREDS_PER_SLOT
    <3> QED
      BY <3>1, SameCardinality DEF Ideal!Available, HeardOf
  <2> HIDE DEF f, p
  <2>3. Tracks(S, st, h, f)
    BY <2>1 DEF Coupled
  <2>4. CASE Full(st, f)
    <3>1. i \in st.received
      BY <2>1, <2>4, SetInIndex, GeometryAssumption DEF Full, SetRange, Position
    <3>2. i \in Ideal(EndsOf(S))!Available(h)
      BY <2>1, <2>2, <2>3, <2>4 DEF Tracks, Earned
    <3> QED
      BY <3>1, <3>2
  <2>5. CASE ~Full(st, f)
    <3>1. ~SetIsConsumed(st.consumed, f)
      BY <2>5 DEF SetIsConsumed, Full, SlotInv
    <3>2. i \in st.received <=> set.data[p] # None
      <4>1. i \in st.received => set.data[p] # None
        BY <3>1, <2>1 DEF SlotInv, Readable, SetFor
      <4>2. set.data[p] # None => i \in st.received
        BY <2>1, <2>3 DEF Tracks
      <4> QED
        BY <4>1, <4>2
    <3>3. HeardOf(h, f) = Holds(set, f)
      BY <2>3, <2>5 DEF Tracks
    <3>4. <<"data", f, p>> \in h <=> set.data[p] # None
      <4>1. <<"data", f, p>> \in h <=> <<"data", f, p>> \in HeardOf(h, f)
        BY DEF HeardOf
      <4>2. <<"data", f, p>> \in Holds(set, f) <=> p \in Position \ Missing(set)
        BY DEF Holds, Names
      <4> QED
        BY <4>1, <4>2, <3>3, <2>1 DEF Missing
    <3>5. ~(Recovery /\ Cardinality(HeardOf(h, f)) >= K)
      <4> SUFFICES ASSUME Recovery, Cardinality(HeardOf(h, f)) >= K PROVE FALSE
        OBVIOUS
      <4>1. FecInv(set) /\ Counted(set) /\ Genuine(S, set, f)
        BY <2>1, <2>3, FecDefaultInv, FecDefaultCounted
        DEF SetFor, SlotInv, SetsSound, Tracks
      <4>2. set \in FecSet
        BY <4>1 DEF FecInv
      <4>3. set.num_data + set.num_code >= K
        BY <3>3, <4>1, <4>2, HoldsCount
      <4>4. PICK q \in Position : f + q \notin st.received
        <5>1. PICK j \in SetRange(f) : j \notin st.received
          BY <2>5 DEF Full
        <5>2. f \in Nat
          BY <2>1, SetInIndex
        <5>3. j - f \in Position /\ f + (j - f) = j
          BY <5>2, GeometryAssumption DEF SetRange, Position
        <5> QED
          BY <5>1, <5>3
      <4>5. q \in Missing(set)
        BY <4>4, <2>3 DEF Tracks, Missing
      <4>6. ~IsComplete(set) /\ set.num_data <= K
        <5>1. IsFiniteSet(Missing(set)) /\ Cardinality(Missing(set)) \in Nat
          BY CountsFinite
        <5>2. Cardinality(Missing(set)) # 0
          BY <4>5, <5>1, FS_EmptySet
        <5> QED
          BY <4>1, <5>1, <5>2, GeometryAssumption DEF Counted, IsComplete
      <4>7. set.num_code > 0
        BY <4>2, <4>3, <4>6, GeometryAssumption DEF IsComplete, FecSet
      <4>8. CanRecover(set)
        BY <4>3, <4>6, <4>7 DEF CanRecover
      <4>9. set # FecDefault
        BY <4>8, FecDefaultCounted
      <4>10. set = st.sets[f] /\ st.sets[f] # None
        BY <4>9 DEF SetFor
      <4>11. ~RecoverOK(set, f)
        BY <4>8, <4>10, <2>1 DEF SetsSound, Tried
      <4>12. set.root # None
        <5>1. PICK c \in CodePosition : set.code[c] # None
          BY <4>1, <4>7 DEF FecInv
        <5>2. set.code[c].root = set.root /\ set.code[c] \in Shard
          BY <4>1, <5>1 DEF FecInv, FecSet, CodeArray
        <5> QED
          BY <5>2, GeometryAssumption DEF Shard
      <4> QED
        BY <4>1, <4>11, <4>12, GenuineRecovers
    <3> QED
      BY <3>2, <3>4, <3>5, <2>2
  <2> QED
    BY <2>4, <2>5
<1>2. st.received \subseteq Index /\ Ideal(EndsOf(S))!Available(h) \subseteq Index
  BY DEF SlotInv, SlotState, Ideal!Available, Ideal!DataIndex, Index, MAX_SHREDS_PER_SLOT
<1> QED
  BY <1>1, <1>2

(* The runs B that a coupled slot has ready are those RunDelivery says can  *)
(* be delivered.                                                            *)
LEMMA ReadyIsDeliverable ==
  ASSUME NEW S, Consistent(S), NEW st, SlotInv(st), SetsSound(st, Recovery),
         NEW h, Coupled(S, st, h),
         NEW B,
         \A r \in B : /\ r \in Index \X Index /\ r[1] <= r[2]
                      /\ IsRun(st, r[1], r[2]),
         \A s, e \in Index : s <= e /\ IsRun(st, s, e) => <<s, e>> \in B
  PROVE  B = Ideal(EndsOf(S))!Deliverable(h)
<1> DEFINE av == Ideal(EndsOf(S))!Available(h)
<1>1. av = st.received /\ st.complete = st.received \cap EndsOf(S)
  BY ReceivedIsAvailable DEF Coupled
<1>2. Ideal(EndsOf(S))!DataIndex = Index
  BY DEF Ideal!DataIndex, Index, MAX_SHREDS_PER_SLOT
<1>3. EndsOf(S) \subseteq Index /\ Index \subseteq Int
  BY LeafAssumption DEF EndsOf, Index
<1> HIDE DEF av
<1>4. \A r : r \in Ideal(EndsOf(S))!Deliverable(h) <=>
        /\ r \in Index \X EndsOf(S)
        /\ r[1] <= r[2]
        /\ r[1] = 0 \/ r[1] - 1 \in EndsOf(S)
        /\ (r[1] .. (r[2] - 1)) \cap EndsOf(S) = {}
        /\ r[1] .. r[2] \subseteq av
        /\ r[1] = 0 \/ r[1] - 1 \in av
  BY <1>2 DEF Ideal!Deliverable, Ideal!Runs, EndsOf, av
<1>5. ASSUME NEW r \in B PROVE r \in Ideal(EndsOf(S))!Deliverable(h)
  <2>1. /\ r \in Index \X Index /\ r[1] <= r[2] /\ IsRun(st, r[1], r[2])
        /\ r[1] \in Int /\ r[2] \in Int
    BY <1>3
  <2>2. r[2] \in EndsOf(S)
    BY <2>1, <1>1 DEF IsRun
  <2>3. r \in Index \X EndsOf(S)
    BY <2>1, <2>2
  <2>4. \A i \in r[1] .. (r[2] - 1) : i \notin EndsOf(S)
    BY <2>1, <1>1 DEF IsRun
  <2>5. /\ r[1] .. r[2] \subseteq av
        /\ r[1] = 0 \/ r[1] - 1 \in av
        /\ r[1] = 0 \/ r[1] - 1 \in EndsOf(S)
    BY <2>1, <1>1 DEF IsRun
  <2> QED
    BY <2>1, <2>3, <2>4, <2>5, <1>4
<1>6. ASSUME NEW r \in Ideal(EndsOf(S))!Deliverable(h) PROVE r \in B
  <2>1. /\ r \in Index \X EndsOf(S) /\ r[1] <= r[2]
        /\ r[1] = 0 \/ r[1] - 1 \in EndsOf(S)
        /\ (r[1] .. (r[2] - 1)) \cap EndsOf(S) = {}
        /\ r[1] .. r[2] \subseteq av
        /\ r[1] = 0 \/ r[1] - 1 \in av
    BY <1>4
  <2>2. r[1] \in Index /\ r[2] \in Index /\ r[2] \in EndsOf(S) /\ r = <<r[1], r[2]>>
    <3>1. PICK s \in Index, e \in EndsOf(S) : r = <<s, e>>
      BY <2>1
    <3> QED
      BY <3>1, <1>3
  <2>3. r[2] \in st.complete
    <3>1. r[1] \in Int /\ r[2] \in Int
      BY <2>2, <1>3
    <3>2. r[2] \in r[1] .. r[2]
      BY <3>1, <2>1
    <3> QED
      BY <3>2, <2>1, <2>2, <1>1
  <2>4. IsRun(st, r[1], r[2])
    BY <2>1, <2>3, <1>1 DEF IsRun
  <2> QED
    BY <2>1, <2>2, <2>4
<1> QED
  BY <1>5, <1>6

(* The data indexes of a set, by position.                                  *)
LEMMA SetRangePositions ==
  ASSUME NEW f \in SetIndex
  PROVE  \A i : i \in SetRange(f) <=> \E p \in Position : i = f + p
<1>1. f \in Nat
  BY SetInIndex, GeometryAssumption DEF Position
<1>2. ASSUME NEW i \in SetRange(f) PROVE \E p \in Position : i = f + p
  <2>1. i - f \in Position /\ i = f + (i - f)
    BY <1>1, GeometryAssumption DEF SetRange, Position
  <2> QED
    BY <2>1
<1>3. ASSUME NEW p \in Position PROVE f + p \in SetRange(f)
  BY <1>1, GeometryAssumption DEF SetRange, Position
<1> QED
  BY <1>2, <1>3

(* Of one set only finitely many shreds can be heard.                       *)
LEMMA HeardFinite ==
  ASSUME NEW S, NEW h \in SUBSET Ideal(EndsOf(S))!BlockShred, NEW f
  PROVE  IsFiniteSet(HeardOf(h, f))
<1> DEFINE names == Names(Position, CodePosition, f)
<1>1. IsFiniteSet(names)
  <2>1. Position \in SUBSET Position /\ CodePosition \in SUBSET CodePosition
    OBVIOUS
  <2> QED
    BY <2>1, NamesCount
<1>2. HeardOf(h, f) \in SUBSET names
  <2> SUFFICES ASSUME NEW x \in h, x[2] = f PROVE x \in names
    BY DEF HeardOf
  <2>1. x \in Ideal(EndsOf(S))!BlockShred
    OBVIOUS
  <2>2. CASE \E n \in 0 .. (NumSets - 1), p \in 0 .. (K - 1) : x = <<"data", K * n, p>>
    BY <2>2 DEF Position, Names
  <2>3. CASE \E n \in 0 .. (NumSets - 1), c \in 0 .. (M - 1) : x = <<"code", K * n, K + c>>
    BY <2>3 DEF CodePosition, Names
  <2> QED
    BY <2>1, <2>2, <2>3 DEF Ideal!BlockShred
<1> QED
  BY <1>1, <1>2, FS_Subset

(* A shred that is inserted is one of the block's.                          *)
LEMMA ShredInBlock ==
  ASSUME NEW S, NEW sh, IsShred(sh)
  PROVE  <<sh.kind, sh.fec, sh.pos>> \in Ideal(EndsOf(S))!BlockShred
<1>1. PICK n \in 0 .. (NumSets - 1) : sh.fec = K * n
  BY DEF IsShred, SetIndex
<1>2. CASE sh.kind = "data"
  BY <1>1, <1>2 DEF IsShred, Position, Ideal!BlockShred
<1>3. CASE sh.kind = "code"
  <2>1. sh.pos - K \in 0 .. (M - 1) /\ K + (sh.pos - K) = sh.pos
    BY <1>3, GeometryAssumption DEF IsShred, CodePosition
  <2> QED
    BY <2>1, <1>1, <1>3 DEF Ideal!BlockShred
<1> QED
  BY <1>2, <1>3 DEF IsShred

(* A set that an insert leaves alone, or frees, tracks as before, provided  *)
(* that nothing new was heard of it while its data was not all there.       *)
LEMMA TracksKept ==
  ASSUME NEW S, NEW st, NEW new, NEW f \in SetIndex, NEW h,
         NEW h2 \in SUBSET Ideal(EndsOf(S))!BlockShred,
         h \subseteq h2, Tracks(S, st, h, f),
         \A p \in Position : f + p \in new.received <=> f + p \in st.received,
         ~Full(st, f) => HeardOf(h2, f) = HeardOf(h, f),
         \/ SetFor(new, f) = SetFor(st, f)
         \/ SetFor(new, f) = FecDefault /\ Full(st, f)
  PROVE  Tracks(S, new, h2, f)
<1>1. Full(new, f) <=> Full(st, f)
  BY SetRangePositions DEF Full
<1>2. Earned(h, f) => Earned(h2, f)
  <2>1. IsFiniteSet(HeardOf(h2, f)) /\ HeardOf(h, f) \in SUBSET HeardOf(h2, f)
    BY HeardFinite DEF HeardOf
  <2>2. /\ Cardinality(HeardOf(h, f)) <= Cardinality(HeardOf(h2, f))
        /\ IsFiniteSet(HeardOf(h, f))
    BY <2>1, FS_Subset
  <2>3. Cardinality(HeardOf(h, f)) \in Nat /\ Cardinality(HeardOf(h2, f)) \in Nat
    BY <2>1, <2>2, FS_CardinalityType
  <2>4. Cardinality(HeardOf(h, f)) >= K => Cardinality(HeardOf(h2, f)) >= K
    BY <2>2, <2>3, GeometryAssumption
  <2> QED
    BY <2>4 DEF Earned
<1>3. CASE SetFor(new, f) = SetFor(st, f)
  BY <1>1, <1>2, <1>3 DEF Tracks
<1>4. CASE SetFor(new, f) = FecDefault /\ Full(st, f)
  <2>1. FecDefault.root = None /\ \A p \in Position : FecDefault.data[p] = None
    BY DEF FecDefault
  <2>2. Genuine(S, FecDefault, f)
    BY <2>1 DEF Genuine
  <2> QED
    BY <2>1, <2>2, <1>1, <1>2, <1>4 DEF Tracks
<1> QED
  BY <1>3, <1>4

(* What an accepted shred changes: new indexes of its own set are received, *)
(* their flags noted, and a set is freed only when all its data is there.   *)
LEMMA AcceptedChanges ==
  ASSUME NEW st, SlotInv(st), NEW sh, IsShred(sh), Verdict(st, sh) = "new"
  PROVE  LET new == SlotInsert(st, sh, Recovery)
             set == NewSet(st, sh, Recovery)
             fresh == Fresh(st, sh, Recovery)
         IN  /\ new.received = st.received \cup fresh
             /\ new.complete = st.complete \cup {i \in fresh : set.data[i - sh.fec].complete}
             /\ \A g \in SetIndex :
                  \/ new.sets[g] = IF g = sh.fec THEN set ELSE st.sets[g]
                  \/ new.sets[g] = None /\ Full(new, g)
<1> DEFINE set == NewSet(st, sh, Recovery)
           fresh == Fresh(st, sh, Recovery)
           done == {i \in fresh : set.data[i - sh.fec].complete}
           stowed == Stow(st, sh, Recovery)
           runs == ReadyRuns(stowed, fresh)
           new == Complete(stowed, runs)
<1>1. st \in SlotState /\ sh.fec \in SetIndex /\ Recovery \in BOOLEAN
  BY PacketAssumption DEF SlotInv, IsShred
<1>2. SlotInsert(st, sh, Recovery) = new
  <2>1. EarlyVerdict(st, sh) = "none"
    BY DEF Verdict, EarlyVerdict
  <2> QED
    BY <2>1 DEF SlotInsert
<1>3. SlotInv(new) /\ new.consumed = Consume(stowed, runs)
  BY <1>1, CompleteInv
<1>4. /\ stowed.received = st.received \cup fresh
      /\ stowed.complete = st.complete \cup done
      /\ \A g \in SetIndex : stowed.sets[g] = IF g = sh.fec THEN set ELSE st.sets[g]
      /\ DOMAIN stowed = DOMAIN st
  BY <1>1 DEF Stow, SlotState
<1> HIDE DEF set, fresh, done, stowed, runs
<1>5. /\ new.received = stowed.received /\ new.complete = stowed.complete
      /\ \A g \in SetIndex :
           new.sets[g] = IF g \in Freed(new.consumed, runs) THEN None ELSE stowed.sets[g]
  BY <1>1, <1>3, <1>4 DEF Complete, SlotState
<1> HIDE DEF new
<1>6. \A g \in SetIndex : g \in Freed(new.consumed, runs) => Full(new, g)
  BY <1>3 DEF Freed, SetIsConsumed, Full, SlotInv
<1> QED
  BY <1>2, <1>4, <1>5, <1>6 DEF set, fresh, done

(* The set an accepted shred belongs to was not all there.                  *)
LEMMA AcceptedNotFull ==
  ASSUME NEW S, NEW st, SlotInv(st), SetsSound(st, Recovery),
         NEW h, Coupled(S, st, h), NEW sh, IsShred(sh), Verdict(st, sh) = "new"
  PROVE  LET f == sh.fec
             old == SetFor(st, f)
         IN  /\ ~Full(st, f) /\ FecVerdict(old, sh) = "new"
             /\ Tracks(S, st, h, f) /\ FecInv(old) /\ Counted(old) /\ Genuine(S, old, f)
             /\ \A p \in Position : f + p \in st.received <=> old.data[p] # None
<1> DEFINE f == sh.fec
           old == SetFor(st, f)
<1>1. f \in SetIndex /\ EarlyVerdict(st, sh) = "none" /\ FecVerdict(old, sh) = "new"
  BY DEF IsShred, Verdict, EarlyVerdict
<1>2. /\ Tracks(S, st, h, f) /\ FecInv(old) /\ Counted(old) /\ Genuine(S, old, f)
  BY <1>1, FecDefaultInv, FecDefaultCounted
  DEF Coupled, Tracks, SetFor, SlotInv, SetsSound
<1>3. /\ ~SetIsConsumed(st.consumed, f)
      /\ sh.kind = "data" => sh.index \notin st.received
  BY NewSetInv, PacketAssumption
<1>4. \A p \in Position : f + p \in st.received <=> old.data[p] # None
  <2>1. \A p \in Position : f + p \in st.received => old.data[p] # None
    BY <1>1, <1>3 DEF SlotInv, Readable, SetFor
  <2> QED
    BY <2>1, <1>2 DEF Tracks
<1> HIDE DEF old
<1>5. ~Full(st, f)
  <2> SUFFICES ASSUME Full(st, f) PROVE FALSE
    OBVIOUS
  <2>1. \A p \in Position : f + p \in st.received
    BY <1>1, SetRangePositions DEF Full
  <2>2. CASE sh.kind = "data"
    BY <2>1, <2>2, <1>3 DEF IsShred
  <2>3. CASE sh.kind = "code"
    <3>1. Missing(old) = {}
      BY <2>1, <1>4 DEF Missing
    <3>2. IsComplete(old)
      BY <3>1, <1>2, FS_EmptySet, GeometryAssumption DEF Counted, IsComplete
    <3> QED
      BY <2>3, <3>2, <1>1 DEF FecVerdict
  <2> QED
    BY <2>2, <2>3 DEF IsShred
<1> QED
  BY <1>1, <1>2, <1>4, <1>5 DEF old

(* Afterwards the set tracks what was heard with the shred.                 *)
LEMMA AcceptedTracks ==
  ASSUME NEW S, Consistent(S), NEW st, SlotInv(st), SetsSound(st, Recovery),
         NEW h, Coupled(S, st, h), NEW sh \in S, IsShred(sh), Verdict(st, sh) = "new"
  PROVE  LET new == SlotInsert(st, sh, Recovery)
         IN  /\ Tracks(S, new, h \cup {<<sh.kind, sh.fec, sh.pos>>}, sh.fec)
             /\ Genuine(S, NewSet(st, sh, Recovery), sh.fec)
<1> DEFINE f == sh.fec
           x == <<sh.kind, f, sh.pos>>
           h2 == h \cup {x}
           old == SetFor(st, f)
           put == FecInsert(old, sh)
           set == NewSet(st, sh, Recovery)
           fresh == Fresh(st, sh, Recovery)
           new == SlotInsert(st, sh, Recovery)
<1>1. f \in SetIndex /\ FecVerdict(old, sh) = "new"
  BY AcceptedNotFull DEF IsShred
<1>2. /\ Tracks(S, st, h, f) /\ FecInv(old) /\ Counted(old) /\ Genuine(S, old, f)
  BY AcceptedNotFull
<1>4. \A p \in Position : f + p \in st.received <=> old.data[p] # None
  BY AcceptedNotFull
<1>5. ~Full(st, f)
  BY AcceptedNotFull
<1> HIDE DEF old
<1>6. /\ FecInv(put) /\ put.root \in Root /\ Counted(put) /\ Genuine(S, put, f)
      /\ \A p \in Position :
           put.data[p] # None => old.data[p] # None \/ (sh.kind = "data" /\ p = sh.pos)
  BY <1>1, <1>2, FecInsertInv, FecInsertCounted, InsertGenuine, FecInsertContents
<1>7. HeardOf(h2, f) = Holds(old, f) \cup {x}
  <2>1. HeardOf(h, f) = Holds(old, f)
    BY <1>2, <1>5 DEF Tracks, old
  <2>2. HeardOf(h2, f) = HeardOf(h, f) \cup {x}
    BY DEF HeardOf
  <2> QED
    BY <2>1, <2>2
<1>8. ~IsComplete(put) => HeardOf(h2, f) = Holds(put, f)
  BY <1>1, <1>2, <1>7, InsertHolds
<1>9. /\ new.received = st.received \cup fresh
      /\ new.sets[f] = set \/ (new.sets[f] = None /\ Full(new, f))
  BY <1>1, AcceptedChanges
<1>10. /\ Recovers(st, sh, Recovery) <=> Recovery /\ CanRecover(put)
       /\ RecoveryFails(st, sh, Recovery) <=>
            Recovers(st, sh, Recovery) /\ ~RecoverOK(put, f)
       /\ set = IF Recovers(st, sh, Recovery) THEN Recover(put, f) ELSE put
       /\ Recovered(st, sh, Recovery) =
            IF Recovers(st, sh, Recovery) /\ ~RecoveryFails(st, sh, Recovery)
            THEN {f + p : p \in Missing(put)} ELSE {}
  BY DEF Recovers, RecoveryFails, NewSet, Recovered, old
<1>11. fresh = Recovered(st, sh, Recovery) \cup {i \in {sh.index} : sh.kind = "data"}
  BY DEF Fresh
<1>12. sh.kind = "data" => sh.index = f + sh.pos /\ sh.pos \in Position
  BY DEF IsShred
<1> HIDE DEF put, set, fresh, new, x
<1>13. FecInv(set) /\ set # None
  <2>1. FecInv(set)
    BY NewSetInv, PacketAssumption DEF set
  <2> QED
    BY <2>1, NoneAssumption DEF FecInv
<1>14. CASE Recovers(st, sh, Recovery)
  <2>1. CanRecover(put) /\ Recovery /\ ~IsComplete(put) /\ put.num_code > 0
    BY <1>10, <1>14 DEF CanRecover
  <2>2. RecoverOK(put, f)
    BY <1>6, GenuineRecovers, GeometryAssumption
  <2>3. Genuine(S, set, f)
    BY <2>1, <1>1, <1>6, <1>10, <1>14, RecoverGenuine
  <2>4. \A p \in Position : f + p \in new.received
    <3> SUFFICES ASSUME NEW p \in Position PROVE f + p \in new.received
      OBVIOUS
    <3>1. CASE put.data[p] = None
      <4>1. p \in Missing(put)
        BY <3>1 DEF Missing
      <4>2. f + p \in Recovered(st, sh, Recovery)
        BY <4>1, <2>2, <1>10, <1>14
      <4> QED
        BY <4>2, <1>9, <1>11
    <3>2. CASE old.data[p] # None
      BY <3>2, <1>4, <1>9
    <3>3. CASE sh.kind = "data" /\ p = sh.pos
      BY <3>3, <1>9, <1>11, <1>12
    <3> QED
      BY <3>1, <3>2, <3>3, <1>6
  <2>5. Full(new, f)
    BY <2>4, <1>1, SetRangePositions DEF Full
  <2>6. Earned(h2, f)
    <3>1. HeardOf(h2, f) = Holds(put, f) /\ put \in FecSet
      BY <2>1, <1>6, <1>8 DEF FecInv
    <3>2. Cardinality(HeardOf(h2, f)) = put.num_data + put.num_code
      BY <3>1, <1>6, HoldsCount
    <3> QED
      BY <3>2, <2>1 DEF CanRecover, Earned
  <2>7. Genuine(S, SetFor(new, f), f)
    <3>1. Genuine(S, FecDefault, f)
      BY DEF Genuine, FecDefault
    <3> QED
      BY <3>1, <2>3, <1>9 DEF SetFor
  <2> QED
    BY <2>3, <2>4, <2>5, <2>6, <2>7 DEF Tracks, new, set, x
<1>15. CASE ~Recovers(st, sh, Recovery)
  <2>1. set = put /\ fresh = {i \in {sh.index} : sh.kind = "data"}
    BY <1>10, <1>11, <1>15
  <2>2. \A p \in Position : put.data[p] # None => f + p \in new.received
    BY <2>1, <1>4, <1>6, <1>9, <1>12
  <2>3. Full(new, f) => \A p \in Position : <<"data", f, p>> \in h2
    <3> SUFFICES ASSUME Full(new, f), NEW p \in Position PROVE <<"data", f, p>> \in h2
      OBVIOUS
    <3>1. f + p \in new.received
      BY <1>1, SetRangePositions DEF Full
    <3>2. CASE f + p \in st.received
      <4>1. p \in Position \ Missing(old)
        BY <3>2, <1>4 DEF Missing
      <4>2. <<"data", f, p>> \in Holds(old, f)
        BY <4>1 DEF Holds, Names
      <4> QED
        BY <4>2, <1>7 DEF HeardOf
    <3>3. CASE f + p \in fresh
      <4>1. sh.kind = "data" /\ f + p = f + sh.pos /\ sh.pos \in Position
        BY <3>3, <2>1, <1>12
      <4>2. p = sh.pos
        BY <4>1, <1>1, SetUnique
      <4> QED
        BY <4>1, <4>2 DEF x
    <3> QED
      BY <3>1, <3>2, <3>3, <1>9
  <2>4. ~Full(new, f) => HeardOf(h2, f) = Holds(SetFor(new, f), f)
    <3> SUFFICES ASSUME ~Full(new, f) PROVE HeardOf(h2, f) = Holds(SetFor(new, f), f)
      OBVIOUS
    <3>1. SetFor(new, f) = put
      BY <2>1, <1>9, <1>13 DEF SetFor
    <3>2. PICK p \in Position : f + p \notin new.received
      BY <1>1, SetRangePositions DEF Full
    <3>3. p \in Missing(put)
      BY <3>2, <2>2 DEF Missing
    <3>4. IsFiniteSet(Missing(put)) /\ Cardinality(Missing(put)) \in Nat
      BY CountsFinite
    <3>5. Cardinality(Missing(put)) # 0
      BY <3>3, <3>4, FS_EmptySet
    <3>6. ~IsComplete(put)
      BY <3>4, <3>5, <1>6, GeometryAssumption DEF Counted, IsComplete
    <3> QED
      BY <3>1, <3>6, <1>8
  <2>5. /\ Genuine(S, SetFor(new, f), f)
        /\ \A p \in Position : SetFor(new, f).data[p] # None => f + p \in new.received
    <3>1. Genuine(S, FecDefault, f) /\ \A p \in Position : FecDefault.data[p] = None
      BY DEF Genuine, FecDefault
    <3> QED
      BY <3>1, <2>1, <2>2, <1>6, <1>9 DEF SetFor
  <2> QED
    BY <2>1, <2>3, <2>4, <2>5, <1>6 DEF Tracks, Earned, new, set, x
<1> QED
  BY <1>14, <1>15

(* A shred that is not accepted changes no set, and its own set, unless all *)
(* its data is there, already stores it.                                    *)
LEMMA RefusedTracks ==
  ASSUME NEW S, Consistent(S), NEW st, SlotInv(st), SetsSound(st, Recovery),
         NEW h, Coupled(S, st, h), NEW sh \in S, IsShred(sh), Verdict(st, sh) # "new",
         sh.root # None, ~Full(st, sh.fec)
  PROVE  <<sh.kind, sh.fec, sh.pos>> \in h
<1> DEFINE f == sh.fec
           old == SetFor(st, f)
           x == <<sh.kind, f, sh.pos>>
<1>1. /\ f \in SetIndex /\ ~SetIsConsumed(st.consumed, f)
      /\ sh.kind = "data" => sh.pos \in Position /\ sh.index = f + sh.pos
      /\ sh.kind = "code" => sh.pos - K \in CodePosition
  BY DEF IsShred, Full, SetIsConsumed, SlotInv
<1>2. Tracks(S, st, h, f) /\ FecInv(old) /\ Counted(old) /\ Genuine(S, old, f)
  BY <1>1, FecDefaultInv, FecDefaultCounted
  DEF Coupled, Tracks, SetFor, SlotInv, SetsSound
<1>3. \A p \in Position : f + p \in st.received <=> old.data[p] # None
  <2>1. \A p \in Position : f + p \in st.received => old.data[p] # None
    BY <1>1 DEF SlotInv, Readable, SetFor
  <2> QED
    BY <2>1, <1>2 DEF Tracks
<1>4. HeardOf(h, f) = Holds(old, f)
  BY <1>2 DEF Tracks
<1>5. Verdict(st, sh) = IF EarlyVerdict(st, sh) # "none" THEN EarlyVerdict(st, sh)
                        ELSE FecVerdict(old, sh)
  BY DEF Verdict
<1> HIDE DEF old
<1>6. ~IsComplete(old)
  <2>1. PICK p \in Position : f + p \notin st.received
    BY <1>1, SetRangePositions DEF Full
  <2>2. p \in Missing(old)
    BY <2>1, <1>3 DEF Missing
  <2>3. IsFiniteSet(Missing(old)) /\ Cardinality(Missing(old)) \in Nat
    BY CountsFinite
  <2>4. Cardinality(Missing(old)) # 0
    BY <2>2, <2>3, FS_EmptySet
  <2> QED
    BY <2>3, <2>4, <1>2, GeometryAssumption DEF Counted, IsComplete
<1>7. old.root # None => old.root = sh.root /\ old.sig = sh.sig
  <2> SUFFICES ASSUME old.root # None PROVE old.root = sh.root /\ old.sig = sh.sig
    OBVIOUS
  <2>1. PICK a \in S : a.fec = f /\ a.root = old.root /\ a.sig = old.sig
    BY <1>2 DEF Genuine
  <2> QED
    BY <2>1 DEF Consistent
<1>8. \/ sh.kind = "data" /\ sh.index \in st.received
      \/ Get(old, sh) # None
  BY <1>1, <1>5, <1>6, <1>7 DEF EarlyVerdict, FecVerdict
<1>9. CASE sh.kind = "data"
  <2>1. old.data[sh.pos] # None
    BY <1>1, <1>3, <1>8, <1>9 DEF Get
  <2>2. <<"data", f, sh.pos>> \in Holds(old, f)
    BY <2>1, <1>1, <1>9 DEF Holds, Names, Missing
  <2> QED
    BY <2>2, <1>4, <1>9 DEF HeardOf
<1>10. CASE sh.kind = "code"
  <2>1. sh.pos - K \in CodeHeld(old) /\ K + (sh.pos - K) = sh.pos
    BY <1>1, <1>8, <1>10, GeometryAssumption DEF Get, CodeHeld, IsShred
  <2>2. <<"code", f, sh.pos>> \in Holds(old, f)
    BY <2>1 DEF Holds, Names
  <2> QED
    BY <2>2, <1>4, <1>10 DEF HeardOf
<1> QED
  BY <1>9, <1>10 DEF IsShred

(* A slot that has heard nothing is coupled.                                *)
LEMMA DefaultCoupled ==
  ASSUME NEW S
  PROVE  Coupled(S, SlotDefault, {}) /\ SetsSound(SlotDefault, Recovery)
<1>1. /\ SlotDefault.received = {} /\ SlotDefault.complete = {}
      /\ \A f \in SetIndex : SlotDefault.sets[f] = None
  BY DEF SlotDefault
<1>2. \A f \in SetIndex : SetFor(SlotDefault, f) = FecDefault /\ ~Full(SlotDefault, f)
  <2> SUFFICES ASSUME NEW f \in SetIndex PROVE ~Full(SlotDefault, f)
    BY <1>1 DEF SetFor
  <2>1. f + 0 \in SetRange(f)
    BY SetRangePositions, GeometryAssumption DEF Position
  <2> QED
    BY <2>1, <1>1 DEF Full
<1>3. \A f : Genuine(S, FecDefault, f) /\ Holds(FecDefault, f) = {}
  BY DEF Genuine, FecDefault, Holds, Names, Missing, CodeHeld
<1>4. \A p \in Position : FecDefault.data[p] = None
  BY DEF FecDefault
<1>5. \A f : HeardOf({}, f) = {}
  BY DEF HeardOf
<1> QED
  BY <1>1, <1>2, <1>3, <1>4, <1>5 DEF Coupled, Tracks, SetsSound

(* What is heard with a shred: nothing when its proof is not sound.         *)
HeardWith(h, sh) ==
  h \cup {x \in {<<sh.kind, sh.fec, sh.pos>>} : sh.root # None}

(* SlotState::insert keeps the slot coupled.                                *)
LEMMA InsertCoupled ==
  ASSUME NEW S, Consistent(S), NEW st, SlotInv(st), SetsSound(st, Recovery),
         NEW h, Coupled(S, st, h), NEW sh, IsShred(sh), sh.root # None => sh \in S
  PROVE  Coupled(S, SlotInsert(st, sh, Recovery), HeardWith(h, sh))
<1> DEFINE new == SlotInsert(st, sh, Recovery)
           x == <<sh.kind, sh.fec, sh.pos>>
           h2 == HeardWith(h, sh)
<1>1. /\ h2 \in SUBSET Ideal(EndsOf(S))!BlockShred /\ h \subseteq h2
      /\ st \in SlotState /\ sh.fec \in SetIndex
      /\ st.complete = st.received \cap EndsOf(S)
      /\ \A f \in SetIndex : Tracks(S, st, h, f)
  BY ShredInBlock DEF Coupled, HeardWith, SlotInv, IsShred
<1>2. \A f \in SetIndex \ {sh.fec} : HeardOf(h2, f) = HeardOf(h, f)
  BY DEF HeardOf, HeardWith
<1>3. CASE Verdict(st, sh) # "new"
  <2>1. /\ new.received = st.received /\ new.complete = st.complete
        /\ \A f \in SetIndex : SetFor(new, f) = SetFor(st, f)
    <3>1. CASE EarlyVerdict(st, sh) # "none"
      BY <3>1 DEF SlotInsert
    <3>2. CASE EarlyVerdict(st, sh) = "none"
      <4> DEFINE mid == [st EXCEPT !.sets[sh.fec] = SetFor(st, sh.fec)]
      <4>1. new = mid
        BY <3>2, <1>3 DEF SlotInsert
      <4>2. /\ mid.received = st.received /\ mid.complete = st.complete
            /\ \A f \in SetIndex :
                 mid.sets[f] = IF f = sh.fec THEN SetFor(st, sh.fec) ELSE st.sets[f]
        BY <1>1 DEF SlotState
      <4> HIDE DEF mid
      <4>3. SetFor(st, sh.fec) # None
        BY NoneAssumption, FecDefaultInv DEF SetFor, FecInv
      <4> QED
        BY <4>1, <4>2, <4>3 DEF SetFor
    <3> QED
      BY <3>1, <3>2
  <2>2. ~Full(st, sh.fec) => h2 = h
    <3>1. CASE sh.root = None
      BY <3>1 DEF HeardWith
    <3>2. CASE sh.root # None
      BY <3>2, <1>3, RefusedTracks DEF HeardWith
    <3> QED
      BY <3>1, <3>2
  <2> HIDE DEF new, h2
  <2>3. \A f \in SetIndex : ~Full(st, f) => HeardOf(h2, f) = HeardOf(h, f)
    BY <2>2, <1>2
  <2>4. \A f \in SetIndex : Tracks(S, new, h2, f)
    BY <2>1, <2>3, <1>1, TracksKept
  <2> QED
    BY <2>1, <2>4, <1>1 DEF Coupled, new, h2
<1>4. CASE Verdict(st, sh) = "new"
  <2> DEFINE set == NewSet(st, sh, Recovery)
             fresh == Fresh(st, sh, Recovery)
  <2>1. sh \in S /\ h2 = h \cup {x}
    <3>1. sh.root # None
      BY <1>4 DEF Verdict, EarlyVerdict, FecVerdict
    <3> QED
      BY <3>1 DEF HeardWith
  <2>2. Tracks(S, new, h2, sh.fec) /\ Genuine(S, set, sh.fec)
    BY <2>1, <1>4, AcceptedTracks
  <2>3. /\ new.received = st.received \cup fresh
        /\ new.complete = st.complete \cup {i \in fresh : set.data[i - sh.fec].complete}
        /\ \A g \in SetIndex :
             \/ new.sets[g] = IF g = sh.fec THEN set ELSE st.sets[g]
             \/ new.sets[g] = None /\ Full(new, g)
    BY <1>4, AcceptedChanges
  <2>4. /\ fresh \subseteq SetRange(sh.fec)
        /\ \A i \in fresh : set.data[i - sh.fec] # None
    BY <1>4, NewSetInv, PacketAssumption
  <2> HIDE DEF new, h2, set, fresh
  <2>5. \A i \in fresh : set.data[i - sh.fec].complete <=> i \in EndsOf(S)
    <3> SUFFICES ASSUME NEW i \in fresh
                 PROVE  set.data[i - sh.fec].complete <=> i \in EndsOf(S)
      OBVIOUS
    <3>1. PICK p \in Position : i = sh.fec + p
      BY <2>4, <1>1, SetRangePositions
    <3>2. i - sh.fec = p
      BY <3>1, <1>1, SetInIndex
    <3>3. set.data[p] # None
      BY <3>2, <2>4
    <3> QED
      BY <3>1, <3>2, <3>3, <2>2 DEF Genuine
  <2>6. new.complete = new.received \cap EndsOf(S)
    BY <2>3, <2>5, <1>1
  <2>7. \A f \in SetIndex \ {sh.fec} : Tracks(S, new, h2, f)
    <3> SUFFICES ASSUME NEW f \in SetIndex, f # sh.fec PROVE Tracks(S, new, h2, f)
      OBVIOUS
    <3>1. \A p \in Position : f + p \in new.received <=> f + p \in st.received
      <4> SUFFICES ASSUME NEW p \in Position, f + p \in fresh PROVE FALSE
        BY <2>3
      <4>1. PICK q \in Position : f + p = sh.fec + q
        BY <2>4, <1>1, SetRangePositions
      <4> QED
        BY <4>1, <1>1, SetUnique
    <3>2. Full(new, f) => Full(st, f)
      BY <3>1, SetRangePositions DEF Full
    <3>3. \/ SetFor(new, f) = SetFor(st, f)
          \/ SetFor(new, f) = FecDefault /\ Full(st, f)
      BY <2>3, <3>2 DEF SetFor
    <3> QED
      BY <3>1, <3>3, <1>1, <1>2, TracksKept
  <2> QED
    BY <2>2, <2>6, <2>7, <1>1 DEF Coupled, new, h2
<1> QED
  BY <1>3, <1>4

(* The first shred of run g has the root of the set of S that it is of.     *)
BeginsIn(S, g) ==
  \E a \in S : a.fec = g.start - (g.start % K) /\ g.bytes[g.start].root = a.root

(* A run begins with bytes of the block.                                    *)
LEMMA SegmentRoot ==
  ASSUME NEW S, Consistent(S), NEW st, SlotInv(st), SetsSound(st, Recovery),
         NEW h, Coupled(S, st, h), NEW sh, IsShred(sh), sh.root # None => sh \in S,
         NEW g \in Segments(st, sh, Recovery)
  PROVE  BeginsIn(S, g)
<1> DEFINE mid == Stow(st, sh, Recovery)
           runs == ReadyRuns(mid, Fresh(st, sh, Recovery))
<1>1. Verdict(st, sh) = "new"
  BY DEF Segments
<1>2. PICK r \in runs : g = SegmentOf(mid, r)
  BY <1>1 DEF Segments
<1>3. /\ \A f \in SetIndex : mid.sets[f] # None => FecInv(mid.sets[f])
      /\ Readable(mid) /\ mid.consumed = st.consumed
  BY <1>1, StowInv, PacketAssumption
<1>4. /\ r[1] \in Index /\ r[2] \in Index /\ r[1] <= r[2]
      /\ r[1] .. r[2] \subseteq mid.received
      /\ \A i \in r[1] .. r[2] : i \notin st.consumed
  BY <1>1, ReadyRunsFacts, PacketAssumption DEF IsRun
<1>5. sh \in S /\ sh.fec \in SetIndex
  BY <1>1 DEF Verdict, EarlyVerdict, FecVerdict, IsShred
<1>6. ASSUME NEW f \in SetIndex, mid.sets[f] # None
      PROVE  Genuine(S, mid.sets[f], f)
  <2>1. mid.sets[f] = IF f = sh.fec THEN NewSet(st, sh, Recovery) ELSE st.sets[f]
    BY <1>5 DEF Stow, SlotInv, SlotState
  <2>2. CASE f = sh.fec
    BY <1>1, <1>5, <2>1, <2>2, AcceptedTracks
  <2>3. CASE f # sh.fec
    BY <1>6, <2>1, <2>3 DEF Coupled, Tracks, SetFor
  <2> QED
    BY <2>2, <2>3
<1> DEFINE i == r[1]
           f == i - (i % K)
           p == i - f
<1>7. i \in i .. r[2] /\ g.start = i /\ g.bytes[i] = ShredAt(mid, i)
  <2>1. i \in i .. r[2]
    BY <1>4, GeometryAssumption DEF Index
  <2> QED
    BY <2>1, <1>2 DEF SegmentOf
<1>8. f \in SetIndex /\ p \in Position /\ f + p = i
  BY <1>4, SetOfIndex
<1>9. ShredAt(mid, i) = mid.sets[f].data[p]
  BY DEF ShredAt
<1> HIDE DEF mid, runs, i, f, p
<1>10. i \in mid.received /\ i \in SetRange(f) /\ i \notin mid.consumed
  BY <1>3, <1>4, <1>7, <1>8, SetInIndex, GeometryAssumption DEF SetRange, Position, i
<1>11. mid.sets[f] # None /\ mid.sets[f].data[p] # None
  BY <1>3, <1>8, <1>10 DEF Readable, SetIsConsumed
<1>12. FecInv(mid.sets[f]) /\ Genuine(S, mid.sets[f], f)
  BY <1>3, <1>6, <1>8, <1>11
<1>13. /\ mid.sets[f].data[p].root = mid.sets[f].root
       /\ mid.sets[f].root # None
  <2>1. mid.sets[f].data[p] \in Shard
    BY <1>8, <1>11, <1>12 DEF FecInv, FecSet, DataArray
  <2> QED
    BY <2>1, <1>8, <1>11, <1>12, GeometryAssumption DEF FecInv, Shard
<1>14. PICK a \in S : a.fec = f /\ a.root = mid.sets[f].root
  BY <1>12, <1>13 DEF Genuine
<1> QED
  BY <1>7, <1>9, <1>13, <1>14 DEF BeginsIn, f

-----------------------------------------------------------------------------
(* When a set is rebuilt *)

(* K shreds were heard of a set whose data is all there.                    *)
LEMMA EarnedCount ==
  ASSUME NEW S, NEW h \in SUBSET Ideal(EndsOf(S))!BlockShred, NEW f, Earned(h, f)
  PROVE  Cardinality(HeardOf(h, f)) >= K
<1>1. IsFiniteSet(HeardOf(h, f)) /\ Cardinality(HeardOf(h, f)) \in Nat
  BY HeardFinite, FS_CardinalityType
<1>2. CASE \A p \in Position : <<"data", f, p>> \in h
  <2>1. Names(Position, {}, f) \subseteq HeardOf(h, f)
    BY <1>2 DEF Names, HeardOf
  <2>2. Position \in SUBSET Position /\ {} \in SUBSET CodePosition
    OBVIOUS
  <2>3. Cardinality(Names(Position, {}, f)) = Cardinality(Position) + Cardinality({})
    BY <2>2, NamesCount
  <2>4. Cardinality(Position) = K /\ Cardinality({}) = 0 /\ K \in Nat
    BY FS_Interval, FS_EmptySet, GeometryAssumption DEF Position
  <2>5. Cardinality(Names(Position, {}, f)) <= Cardinality(HeardOf(h, f))
    BY <1>1, <2>1, FS_Subset
  <2> QED
    BY <1>1, <2>3, <2>4, <2>5
<1> QED
  BY <1>2 DEF Earned

(* The data shreds among those heard.                                       *)
DataOf(g) == {x \in g : x[1] = "data"}

(* A shred is the K-th heard of its set, one of them is code; and the data  *)
(* that was not heard then.                                                 *)
HeardBy(h, sh) == HeardOf(h \cup {<<sh.kind, sh.fec, sh.pos>>}, sh.fec)

AtK(h, sh) ==
  /\ <<sh.kind, sh.fec, sh.pos>> \notin h
  /\ Cardinality(HeardBy(h, sh)) = K
  /\ HeardBy(h, sh) # DataOf(HeardBy(h, sh))

Lacking(h, sh) == K - Cardinality(DataOf(HeardBy(h, sh)))

(* An accepted shred.                                                       *)
LEMMA AcceptedRecovers ==
  ASSUME NEW S, Consistent(S), NEW st, SlotInv(st), SetsSound(st, Recovery), Recovery,
         NEW h, Coupled(S, st, h), NEW sh \in S, IsShred(sh), Verdict(st, sh) = "new"
  PROVE  Cardinality(Recovered(st, sh, Recovery)) = IF AtK(h, sh) THEN Lacking(h, sh) ELSE 0
<1> DEFINE f == sh.fec
           x == <<sh.kind, f, sh.pos>>
           old == SetFor(st, f)
           put == FecInsert(old, sh)
           heard == HeardBy(h, sh)
           missing == Missing(put)
<1>0. /\ ~Full(st, f) /\ FecVerdict(old, sh) = "new" /\ Tracks(S, st, h, f)
      /\ FecInv(old) /\ Counted(old) /\ Genuine(S, old, f)
      /\ \A p \in Position : f + p \in st.received <=> old.data[p] # None
  BY AcceptedNotFull
<1>1. /\ f \in SetIndex /\ FecVerdict(old, sh) = "new" /\ FecInv(old) /\ Counted(old)
      /\ Genuine(S, old, f) /\ HeardOf(h, f) = Holds(old, f)
      /\ \A p \in Position : f + p \in st.received <=> old.data[p] # None
  <2>1. f \in SetIndex
    BY DEF IsShred
  <2>2. HeardOf(h, f) = Holds(old, f)
    BY <1>0 DEF Tracks
  <2> QED
    BY <1>0, <2>1, <2>2
<1>2. ~IsComplete(old)
  <2>1. PICK p \in Position : f + p \notin st.received
    BY <1>0, <1>1, SetRangePositions DEF Full
  <2>2. p \in Missing(old)
    BY <2>1, <1>1 DEF Missing
  <2>3. IsFiniteSet(Missing(old)) /\ Cardinality(Missing(old)) \in Nat
    BY CountsFinite
  <2>4. Cardinality(Missing(old)) # 0
    BY <2>2, <2>3, FS_EmptySet
  <2> QED
    BY <2>3, <2>4, <1>1, GeometryAssumption DEF Counted, IsComplete
<1>3. ~CanRecover(old)
  <2> SUFFICES ASSUME CanRecover(old) PROVE FALSE
    OBVIOUS
  <2>1. PICK c \in CodePosition : old.code[c] # None
    BY <1>1 DEF CanRecover, FecInv
  <2>2. old.code[c] \in Shard /\ old.code[c].root = old.root
    BY <2>1, <1>1 DEF FecInv, FecSet, CodeArray
  <2>3. old.root # None
    BY <2>2, GeometryAssumption DEF Shard
  <2>4. RecoverOK(old, f)
    BY <2>3, <1>1, GenuineRecovers
  <2>5. Tried(old, f, Recovery)
    BY <1>1, FecDefaultCounted DEF SetFor, SetsSound, Tried
  <2> QED
    BY <2>4, <2>5 DEF Tried
<1>4. /\ FecInv(put) /\ put.root \in Root /\ Counted(put) /\ Genuine(S, put, f)
      /\ put \in FecSet /\ RecoverOK(put, f)
  <2>1. FecInv(put) /\ put.root \in Root /\ Counted(put) /\ Genuine(S, put, f)
    BY <1>1, FecInsertInv, FecInsertCounted, InsertGenuine
  <2>2. put.root # None
    BY <2>1, GeometryAssumption
  <2> QED
    BY <2>1, <2>2, GenuineRecovers DEF FecInv
<1>5. x \notin Holds(old, f)
  <2>1. Get(old, sh) = None
    BY <1>1 DEF FecVerdict
  <2>2. CASE sh.kind = "data"
    BY <2>1, <2>2 DEF Get, Holds, Names, Missing
  <2>3. CASE sh.kind = "code"
    <3> SUFFICES ASSUME x \in Holds(old, f) PROVE FALSE
      OBVIOUS
    <3>1. PICK c \in CodeHeld(old) : sh.pos = K + c
      BY <2>3 DEF Holds, Names
    <3>2. c \in Int /\ sh.pos \in Int /\ K \in Int
      BY GeometryAssumption DEF CodeHeld, CodePosition, IsShred
    <3>3. sh.pos - K = c
      BY <3>1, <3>2
    <3> QED
      BY <2>1, <2>3, <3>3 DEF Get, CodeHeld
  <2> QED
    BY <2>2, <2>3 DEF IsShred
<1>6. x \notin h
  BY <1>1, <1>5 DEF HeardOf
<1>7. heard = Holds(old, f) \cup {x}
  BY <1>1 DEF HeardOf, HeardBy
<1>8. /\ IsFiniteSet(missing) /\ Cardinality(missing) \in Nat
      /\ put.num_data = K - Cardinality(missing) /\ put.num_code = Cardinality(CodeHeld(put))
      /\ put.num_data \in Nat /\ put.num_code \in Nat
      /\ old.num_data \in Nat /\ old.num_code \in Nat
  BY <1>1, <1>4, CountsFinite DEF Counted, FecInv, FecSet
<1>9. IsFiniteSet(heard) /\ Cardinality(heard) = old.num_data + old.num_code + 1
  <2>1. IsFiniteSet(Holds(old, f)) /\ Cardinality(Holds(old, f)) = old.num_data + old.num_code
    BY <1>1, HoldsCount DEF FecInv
  <2> HIDE DEF x, heard, old
  <2>2. Cardinality(Holds(old, f) \cup {x}) = Cardinality(Holds(old, f)) + 1
    BY <1>5, <2>1, FS_AddElement
  <2>3. IsFiniteSet(Holds(old, f) \cup {x})
    BY <2>1, FS_AddElement
  <2> QED
    BY <1>7, <2>1, <2>2, <2>3
<1>10. Recovered(st, sh, Recovery) =
         IF CanRecover(put) THEN {f + p : p \in missing} ELSE {}
  BY <1>4 DEF Recovered, Recovers, RecoveryFails
<1>11. f \in Int
  BY <1>1, SetInIndex, GeometryAssumption DEF Position
<1> HIDE DEF missing, put, heard, old, x
<1>12. Cardinality({f + p : p \in missing}) = Cardinality(missing)
  <2> DEFINE g == [p \in missing |-> f + p]
             T == {f + p : p \in missing}
  <2>1. g \in [missing -> T]
    OBVIOUS
  <2>2. \A p \in missing : p \in Int
    BY GeometryAssumption DEF missing, Missing, Position
  <2>3. \A p, q \in missing : g[p] = g[q] => p = q
    <3> SUFFICES ASSUME NEW p \in missing, NEW q \in missing, f + p = f + q PROVE p = q
      OBVIOUS
    <3>1. p \in Int /\ q \in Int
      BY <2>2
    <3>2. PICK a \in Int : a = f
      BY <1>11
    <3> HIDE DEF f
    <3>3. a + p = a + q
      BY <3>2
    <3> QED
      BY <3>1, <3>3
  <2>4. \A y \in T : \E p \in missing : g[p] = y
    OBVIOUS
  <2> HIDE DEF g, T
  <2>5. Cardinality(T) = Cardinality(missing)
    BY <2>1, <2>3, <2>4, <1>8, ImageCount
  <2> QED
    BY <2>5 DEF T
<1>13. CASE IsComplete(put)
  <2>1. ~CanRecover(put)
    BY <1>13 DEF CanRecover
  <2>2. Cardinality(missing) = 0
    BY <1>8, <1>13, GeometryAssumption DEF IsComplete
  <2>3. missing = {}
    BY <2>2, <1>8, FS_EmptySet
  <2>4. \A p \in Position : <<"data", f, p>> \in heard
    <3> TAKE p \in Position
    <3>1. old.data[p] # None \/ (sh.kind = "data" /\ p = sh.pos)
      BY <2>3, <1>1, FecInsertContents DEF missing, Missing, put
    <3> QED
      BY <3>1, <1>7 DEF Holds, Names, Missing, x
  <2>5. Names(Position, {}, f) \subseteq DataOf(heard)
    <3> SUFFICES ASSUME NEW p \in Position PROVE <<"data", f, p>> \in DataOf(heard)
      BY DEF Names
    <3>1. <<"data", f, p>>[1] = "data"
      OBVIOUS
    <3> QED
      BY <2>4, <3>1 DEF DataOf
  <2>6. DataOf(heard) \subseteq heard
    BY DEF DataOf
  <2>7. /\ Cardinality(Names(Position, {}, f)) = K /\ K \in Nat
        /\ IsFiniteSet(Names(Position, {}, f))
    <3>1. Position \in SUBSET Position /\ {} \in SUBSET CodePosition
      OBVIOUS
    <3>2. Cardinality(Position) = K /\ Cardinality({}) = 0 /\ K \in Nat
      BY FS_Interval, FS_EmptySet, GeometryAssumption DEF Position
    <3> QED
      BY <3>1, <3>2, NamesCount
  <2>8. Cardinality(heard) = K => heard = DataOf(heard)
    <3>1. Names(Position, {}, f) \subseteq heard
      BY <2>5, <2>6
    <3>2. Cardinality(heard) = K => Names(Position, {}, f) = heard
      BY <3>1, <2>7, <1>9, FS_Subset
    <3> QED
      BY <3>2, <2>5, <2>6
  <2> QED
    BY <2>1, <2>8, <1>10, FS_EmptySet DEF AtK, heard
<1>14. CASE ~IsComplete(put)
  <2>1. heard = Holds(put, f)
    BY <1>1, <1>7, <1>14, InsertHolds DEF put, x
  <2>2. Cardinality(heard) = put.num_data + put.num_code
    BY <2>1, <1>4, HoldsCount
  <2> DEFINE D == Position \ missing
             C == CodeHeld(put)
  <2>3. heard = Names(D, C, f) /\ DataOf(heard) = Names(D, {}, f)
    <3>1. heard = Names(D, C, f)
      BY <2>1 DEF Holds, missing
    <3> HIDE DEF D, C, heard
    <3> QED
      BY <3>1 DEF Names, DataOf
  <2>4. Cardinality(Names(D, {}, f)) = put.num_data
    <3>1. D \in SUBSET Position /\ {} \in SUBSET CodePosition
      OBVIOUS
    <3>2. Cardinality(D) = put.num_data
      <4>1. /\ IsFiniteSet(Position) /\ Cardinality(Position) = K
            /\ Position \cap missing = missing
        BY FS_Interval, GeometryAssumption DEF Position, Missing, missing
      <4>2. Cardinality(D) = Cardinality(Position) - Cardinality(Position \cap missing)
        BY <4>1, FS_Difference
      <4> QED
        BY <4>1, <4>2, <1>8
    <3>3. Cardinality({}) = 0
      BY FS_EmptySet
    <3> QED
      BY <3>1, <3>2, <3>3, <1>8, NamesCount
  <2>5. heard # DataOf(heard) <=> put.num_code > 0
    <3>1. IsFiniteSet(C)
      BY CountsFinite
    <3>2. put.num_code > 0 <=> C # {}
      BY <3>1, <1>8, FS_EmptySet
    <3>3. heard # DataOf(heard) <=> C # {}
      <4> HIDE DEF C, D, heard
      <4>1. C = {} => Names(D, C, f) = Names(D, {}, f)
        OBVIOUS
      <4>2. ASSUME NEW c \in C PROVE <<"code", f, K + c>> \in Names(D, C, f) \ Names(D, {}, f)
        BY DEF Names
      <4> QED
        BY <2>3, <4>1, <4>2
    <3> QED
      BY <3>2, <3>3
  <2>6. CanRecover(put) <=> Cardinality(heard) = K /\ put.num_code > 0
    <3>1. CanRecover(put) <=> put.num_code > 0 /\ put.num_data + put.num_code >= K
      BY <1>14 DEF CanRecover
    <3>2. old.num_code = 0 \/ old.num_data + old.num_code < K
      BY <1>2, <1>3, <1>8, GeometryAssumption DEF CanRecover
    <3>3. old.num_data < K
      <4>1. old.num_data = K - Cardinality(Missing(old)) /\ Cardinality(Missing(old)) \in Nat
        BY <1>1, CountsFinite DEF Counted
      <4> QED
        BY <4>1, <1>2, <1>8, GeometryAssumption DEF IsComplete
    <3>4. put.num_data + put.num_code = old.num_data + old.num_code + 1
      BY <2>2, <1>9
    <3> HIDE DEF put, old, heard
    <3> QED
      BY <3>1, <3>2, <3>3, <3>4, <2>2, <1>8, GeometryAssumption
  <2>7. AtK(h, sh) <=> CanRecover(put)
    BY <2>5, <2>6, <1>6 DEF AtK, heard, x
  <2>8. Lacking(h, sh) = Cardinality(missing)
    <3>1. Lacking(h, sh) = K - put.num_data
      BY <2>3, <2>4 DEF Lacking, heard
    <3> QED
      BY <3>1, <1>8, GeometryAssumption
  <2>9. CASE CanRecover(put)
    BY <2>7, <2>8, <2>9, <1>10, <1>12
  <2>10. CASE ~CanRecover(put)
    BY <2>7, <2>10, <1>10, FS_EmptySet
  <2> QED
    BY <2>9, <2>10
<1> QED
  BY <1>13, <1>14

(* With recovery, SlotState::insert rebuilds a set of a consistent block on *)
(* the very shred that is the K-th heard of it, provided that one of them   *)
(* is code, and then rebuilds all the data that was not heard.              *)
LEMMA RebuildsAtK ==
  ASSUME NEW S, Consistent(S), NEW st, SlotInv(st), SetsSound(st, Recovery), Recovery,
         NEW h, Coupled(S, st, h), NEW sh \in S, IsShred(sh), sh.root # None
  PROVE  (IF Verdict(st, sh) = "new" THEN Cardinality(Recovered(st, sh, Recovery)) ELSE 0) =
         (IF AtK(h, sh) THEN Lacking(h, sh) ELSE 0)
<1> DEFINE x == <<sh.kind, sh.fec, sh.pos>>
           heard == HeardBy(h, sh)
<1>1. CASE Verdict(st, sh) = "new"
  BY <1>1, AcceptedRecovers
<1>2. CASE Verdict(st, sh) # "new" /\ ~Full(st, sh.fec)
  <2>1. x \in h
    BY <1>2, RefusedTracks
  <2> QED
    BY <1>2, <2>1 DEF AtK
<1>3. CASE Verdict(st, sh) # "new" /\ Full(st, sh.fec)
  <2>1. Earned(h, sh.fec) /\ h \in SUBSET Ideal(EndsOf(S))!BlockShred
    BY <1>3 DEF Coupled, Tracks, IsShred
  <2>2. /\ Cardinality(HeardOf(h, sh.fec)) >= K /\ IsFiniteSet(HeardOf(h, sh.fec))
        /\ Cardinality(HeardOf(h, sh.fec)) \in Nat
    BY <2>1, EarnedCount, HeardFinite, FS_CardinalityType
  <2>3. x \notin h => /\ heard = HeardOf(h, sh.fec) \cup {x}
                      /\ x \notin HeardOf(h, sh.fec)
    BY DEF HeardOf, HeardBy
  <2> HIDE DEF x, heard
  <2>4. x \notin h => Cardinality(heard) = Cardinality(HeardOf(h, sh.fec)) + 1
    BY <2>2, <2>3, FS_AddElement
  <2>5. ~(x \notin h /\ Cardinality(heard) = K)
    BY <2>2, <2>4, GeometryAssumption
  <2> QED
    BY <2>5, <1>3 DEF AtK, x, heard
<1> QED
  BY <1>1, <1>2, <1>3

(* Where the first set of a block is its first run, the runs that begin     *)
(* with the slot can be delivered when enough of that set was heard: of its *)
(* shreds with recovery, of its data without.                               *)
LEMMA FirstRun ==
  ASSUME NEW S, NEW h \in SUBSET Ideal(EndsOf(S))!BlockShred,
         {i \in EndsOf(S) : i < K} = {K - 1}, NEW e
  PROVE  <<0, e>> \in Ideal(EndsOf(S))!Deliverable(h) <=>
           /\ e = K - 1
           /\ IF Recovery THEN Cardinality(HeardOf(h, 0)) >= K
              ELSE Cardinality(DataOf(HeardOf(h, 0))) >= K
<1> DEFINE E == EndsOf(S)
           av == Ideal(E)!Available(h)
           data == Names(Position, {}, 0)
           mine == DataOf(HeardOf(h, 0))
<1>1. K \in Nat \ {0} /\ NumSets \in Nat \ {0} /\ K * NumSets \in Nat /\ K <= K * NumSets
  BY GeometryAssumption
<1>2. E \subseteq Nat
  <2>1. E \subseteq Index
    BY LeafAssumption DEF EndsOf
  <2> QED
    BY <1>1, <2>1 DEF Index, MAX_SHREDS_PER_SLOT
<1>3. K - 1 \in E /\ \A i \in E : i < K => i = K - 1
  OBVIOUS
<1> HIDE DEF E
<1>4. <<0, e>> \in Ideal(E)!Runs <=> e = K - 1
  <2>1. <<0, e>> \in Ideal(E)!Runs <=> e \in E /\ (0 .. (e - 1)) \cap E = {} /\ 0 <= e
    BY <1>1 DEF Ideal!Runs, Ideal!DataIndex
  <2>2. ASSUME e \in E, (0 .. (e - 1)) \cap E = {} PROVE e = K - 1
    <3>1. e \in Nat /\ ~(K - 1 \in 0 .. (e - 1))
      BY <2>2, <1>2, <1>3
    <3> QED
      BY <3>1, <2>2, <1>1, <1>3
  <2>3. (0 .. (K - 2)) \cap E = {}
    BY <1>1, <1>2, <1>3
  <2> QED
    BY <2>1, <2>2, <2>3, <1>1, <1>3
<1>5. \A i \in Position : i \in av <=> \/ <<"data", 0, i>> \in h
                                       \/ Recovery /\ Cardinality(HeardOf(h, 0)) >= K
  <2> TAKE i \in Position
  <2>1. i \in Nat /\ i % K = i /\ i - i = 0 /\ i - 0 = i /\ i \in Ideal(E)!DataIndex
    BY <1>1 DEF Position, Ideal!DataIndex
  <2>2. Ideal(E)!Cardinality({x \in h : x[2] = 0}) = Cardinality(HeardOf(h, 0))
    BY SameCardinality DEF HeardOf
  <2> QED
    BY <2>1, <2>2 DEF Ideal!Available
<1>6. 0 .. (K - 1) \subseteq av <=> Earned(h, 0)
  <2>1. 0 \in Position /\ Position = 0 .. (K - 1)
    BY <1>1 DEF Position
  <2> QED
    BY <1>5, <2>1 DEF Earned
<1>7. IsFiniteSet(data) /\ Cardinality(data) = K
  <2>1. Position \in SUBSET Position /\ {} \in SUBSET CodePosition
    OBVIOUS
  <2>2. IsFiniteSet(data) /\ Cardinality(data) = Cardinality(Position) + Cardinality({})
    BY <2>1, NamesCount
  <2>3. Cardinality(Position) = K /\ Cardinality({}) = 0
    BY <1>1, FS_Interval, FS_EmptySet DEF Position
  <2> QED
    BY <1>1, <2>2, <2>3
<1>8. mine \subseteq data
  <2> SUFFICES ASSUME NEW x \in h, x[2] = 0, x[1] = "data" PROVE x \in data
    BY DEF DataOf, HeardOf
  <2>1. x \in Ideal(EndsOf(S))!BlockShred
    OBVIOUS
  <2>2. CASE \E n \in 0 .. (NumSets - 1), p \in 0 .. (K - 1) : x = <<"data", K * n, p>>
    BY <2>2 DEF Position, Names
  <2>3. CASE \E n \in 0 .. (NumSets - 1), c \in 0 .. (M - 1) : x = <<"code", K * n, K + c>>
    BY <2>3
  <2> QED
    BY <2>1, <2>2, <2>3 DEF Ideal!BlockShred
<1>9. (\A p \in Position : <<"data", 0, p>> \in h) <=> Cardinality(mine) >= K
  <2>1. (\A p \in Position : <<"data", 0, p>> \in h) => data \subseteq mine
    BY DEF Names, DataOf, HeardOf
  <2>2. data \subseteq mine => \A p \in Position : <<"data", 0, p>> \in h
    BY DEF Names, DataOf, HeardOf
  <2> HIDE DEF mine, data
  <2>3. /\ IsFiniteSet(mine) /\ Cardinality(mine) \in Nat /\ Cardinality(mine) <= K
        /\ Cardinality(mine) = K => mine = data
    BY <1>7, <1>8, FS_Subset, FS_CardinalityType
  <2>4. Cardinality(mine) >= K <=> mine = data
    BY <2>3, <1>1, <1>7
  <2> QED
    BY <2>1, <2>2, <2>4, <1>8
<1>10. Recovery \in BOOLEAN
  BY PacketAssumption
<1>11. Earned(h, 0) => Cardinality(HeardOf(h, 0)) >= K
  BY EarnedCount
<1>12. Earned(h, 0) <=> IF Recovery THEN Cardinality(HeardOf(h, 0)) >= K
                        ELSE Cardinality(mine) >= K
  BY <1>9, <1>10, <1>11 DEF Earned
<1>13. <<0, e>> \in Ideal(E)!Deliverable(h) <=> e = K - 1 /\ 0 .. (K - 1) \subseteq av
  BY <1>4 DEF Ideal!Deliverable
<1> QED
  BY <1>6, <1>12, <1>13 DEF E

=============================================================================
