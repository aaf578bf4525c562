---------------------------- MODULE AnalysisProofs ----------------------------
(***************************************************************************)
(* Proofs about Analysis: the two policies of analyze-recovery side by     *)
(* side, and beside what it counts of each FEC set.                        *)
(*                                                                         *)
(* The theorems of DeshredderProofs hold of each pass, so that what a slot *)
(* has handed out follows from the shreds that were heard of it, whatever  *)
(* the policy; the invariant says that both passes have heard the same     *)
(* shreds of every slot that neither has passed, and that they are the     *)
(* shreds that the set states have noted.                                  *)
(***************************************************************************)
EXTENDS Analysis, FiniteSetTheorems, TLAPS

(* The two passes, with the lemmas of the core.                             *)
EP ==
  INSTANCE DeshredderProofs WITH
    Recovery <- TRUE, ShredVersion <- None,
    slots <- e_slots, highest_slot <- e_highest, out <- e_out,
    emitted <- e_emitted, tally <- e_tally, panicked <- e_panicked

WP ==
  INSTANCE DeshredderProofs WITH
    Recovery <- FALSE, ShredVersion <- None,
    slots <- w_slots, highest_slot <- w_highest, out <- w_out,
    emitted <- w_emitted, tally <- w_tally, panicked <- w_panicked

(* What Shred and Fec define is the same in both vocabularies, ...          *)
LEMMA SameShreds ==
  /\ \A p :
       /\ Eager!WellFormed(p) <=> EP!WellFormed(p)
       /\ Waiting!WellFormed(p) <=> WP!WellFormed(p)
  /\ \A p :
       /\ Eager!Parse(p) = EP!Parse(p)
       /\ Waiting!Parse(p) = WP!Parse(p)
  /\ \A set :
       /\ Eager!CanRecover(set) <=> EP!CanRecover(set)
       /\ Waiting!CanRecover(set) <=> WP!CanRecover(set)
  /\ \A set, sh :
       /\ Eager!FecVerdict(set, sh) = EP!FecVerdict(set, sh)
       /\ Waiting!FecVerdict(set, sh) = WP!FecVerdict(set, sh)
  /\ \A set, sh :
       /\ Eager!FecInsert(set, sh) = EP!FecInsert(set, sh)
       /\ Waiting!FecInsert(set, sh) = WP!FecInsert(set, sh)
  /\ \A set :
       /\ Eager!Missing(set) = EP!Missing(set)
       /\ Waiting!Missing(set) = WP!Missing(set)
  /\ \A set, f :
       /\ Eager!Filled(set, f) = EP!Filled(set, f)
       /\ Waiting!Filled(set, f) = WP!Filled(set, f)
  /\ \A set, i :
       /\ Eager!Rebuilt(set, i) = EP!Rebuilt(set, i)
       /\ Waiting!Rebuilt(set, i) = WP!Rebuilt(set, i)
  /\ \A set, f :
       /\ Eager!RecoverOK(set, f) = EP!RecoverOK(set, f)
       /\ Waiting!RecoverOK(set, f) = WP!RecoverOK(set, f)
<1>1. \A p :
       /\ Eager!WellFormed(p) <=> EP!WellFormed(p)
       /\ Waiting!WellFormed(p) <=> WP!WellFormed(p)
  BY DEF Eager!CODE_HEADERS_SIZE, EP!CODE_HEADERS_SIZE, Waiting!CODE_HEADERS_SIZE,
       WP!CODE_HEADERS_SIZE, Eager!CODE_SHRED_SIZE, EP!CODE_SHRED_SIZE,
       Waiting!CODE_SHRED_SIZE, WP!CODE_SHRED_SIZE, Eager!Capacity, EP!Capacity,
       Waiting!Capacity, WP!Capacity, Eager!CodeHeaderOK, EP!CodeHeaderOK,
       Waiting!CodeHeaderOK, WP!CodeHeaderOK, Eager!DATA_HEADERS_SIZE,
       EP!DATA_HEADERS_SIZE, Waiting!DATA_HEADERS_SIZE, WP!DATA_HEADERS_SIZE,
       Eager!DATA_SHRED_SIZE, EP!DATA_SHRED_SIZE, Waiting!DATA_SHRED_SIZE,
       WP!DATA_SHRED_SIZE, Eager!DataHeaderOK, EP!DataHeaderOK, Waiting!DataHeaderOK,
       WP!DataHeaderOK, Eager!Headers, EP!Headers, Waiting!Headers, WP!Headers,
       Eager!IsMultipleOf, EP!IsMultipleOf, Waiting!IsMultipleOf, WP!IsMultipleOf,
       Eager!LastInSlot, EP!LastInSlot, Waiting!LastInSlot, WP!LastInSlot,
       Eager!MAX_SHREDS_PER_SLOT, EP!MAX_SHREDS_PER_SLOT, Waiting!MAX_SHREDS_PER_SLOT,
       WP!MAX_SHREDS_PER_SLOT, Eager!MERKLE_ROOT_SIZE, EP!MERKLE_ROOT_SIZE,
       Waiting!MERKLE_ROOT_SIZE, WP!MERKLE_ROOT_SIZE, Eager!PROOF_ENTRY_SIZE,
       EP!PROOF_ENTRY_SIZE, Waiting!PROOF_ENTRY_SIZE, WP!PROOF_ENTRY_SIZE,
       Eager!SIGNATURE_SIZE, EP!SIGNATURE_SIZE, Waiting!SIGNATURE_SIZE,
       WP!SIGNATURE_SIZE, Eager!VARIANT_OFFSET, EP!VARIANT_OFFSET,
       Waiting!VARIANT_OFFSET, WP!VARIANT_OFFSET, Eager!WellFormed, EP!WellFormed,
       Waiting!WellFormed, WP!WellFormed, Eager!WireSize, EP!WireSize,
       Waiting!WireSize, WP!WireSize
<1>2. \A p :
       /\ Eager!Parse(p) = EP!Parse(p)
       /\ Waiting!Parse(p) = WP!Parse(p)
  BY DEF Eager!CODE_HEADERS_SIZE, EP!CODE_HEADERS_SIZE, Waiting!CODE_HEADERS_SIZE,
       WP!CODE_HEADERS_SIZE, Eager!CODE_SHRED_SIZE, EP!CODE_SHRED_SIZE,
       Waiting!CODE_SHRED_SIZE, WP!CODE_SHRED_SIZE, Eager!Capacity, EP!Capacity,
       Waiting!Capacity, WP!Capacity, Eager!DATA_HEADERS_SIZE, EP!DATA_HEADERS_SIZE,
       Waiting!DATA_HEADERS_SIZE, WP!DATA_HEADERS_SIZE, Eager!DATA_SHRED_SIZE,
       EP!DATA_SHRED_SIZE, Waiting!DATA_SHRED_SIZE, WP!DATA_SHRED_SIZE,
       Eager!ErasureShard, EP!ErasureShard, Waiting!ErasureShard, WP!ErasureShard,
       Eager!ErasureShardIndex, EP!ErasureShardIndex, Waiting!ErasureShardIndex,
       WP!ErasureShardIndex, Eager!Headers, EP!Headers, Waiting!Headers, WP!Headers,
       Eager!LastInSlot, EP!LastInSlot, Waiting!LastInSlot, WP!LastInSlot,
       Eager!MERKLE_ROOT_SIZE, EP!MERKLE_ROOT_SIZE, Waiting!MERKLE_ROOT_SIZE,
       WP!MERKLE_ROOT_SIZE, Eager!MerkleRoot, EP!MerkleRoot, Waiting!MerkleRoot,
       WP!MerkleRoot, Eager!PROOF_ENTRY_SIZE, EP!PROOF_ENTRY_SIZE,
       Waiting!PROOF_ENTRY_SIZE, WP!PROOF_ENTRY_SIZE, Eager!Parse, EP!Parse,
       Waiting!Parse, WP!Parse, Eager!SIGNATURE_SIZE, EP!SIGNATURE_SIZE,
       Waiting!SIGNATURE_SIZE, WP!SIGNATURE_SIZE, Eager!ShardLen, EP!ShardLen,
       Waiting!ShardLen, WP!ShardLen, Eager!WireSize, EP!WireSize, Waiting!WireSize,
       WP!WireSize
<1>3. \A set :
       /\ Eager!CanRecover(set) <=> EP!CanRecover(set)
       /\ Waiting!CanRecover(set) <=> WP!CanRecover(set)
  BY DEF Eager!CanRecover, EP!CanRecover, Waiting!CanRecover, WP!CanRecover,
       Eager!IsComplete, EP!IsComplete, Waiting!IsComplete, WP!IsComplete
<1>4. \A set, sh :
       /\ Eager!FecVerdict(set, sh) = EP!FecVerdict(set, sh)
       /\ Waiting!FecVerdict(set, sh) = WP!FecVerdict(set, sh)
  BY DEF Eager!FecVerdict, EP!FecVerdict, Waiting!FecVerdict, WP!FecVerdict, Eager!Get,
       EP!Get, Waiting!Get, WP!Get, Eager!IsComplete, EP!IsComplete,
       Waiting!IsComplete, WP!IsComplete
<1>5. \A set, sh :
       /\ Eager!FecInsert(set, sh) = EP!FecInsert(set, sh)
       /\ Waiting!FecInsert(set, sh) = WP!FecInsert(set, sh)
  BY DEF Eager!CodePosition, EP!CodePosition, Waiting!CodePosition, WP!CodePosition,
       Eager!DropCode, EP!DropCode, Waiting!DropCode, WP!DropCode, Eager!FecInsert,
       EP!FecInsert, Waiting!FecInsert, WP!FecInsert, Eager!IsComplete, EP!IsComplete,
       Waiting!IsComplete, WP!IsComplete, Eager!Pin, EP!Pin, Waiting!Pin, WP!Pin,
       Eager!Place, EP!Place, Waiting!Place, WP!Place, Eager!ShardOf, EP!ShardOf,
       Waiting!ShardOf, WP!ShardOf
<1>6. \A set :
       /\ Eager!Missing(set) = EP!Missing(set)
       /\ Waiting!Missing(set) = WP!Missing(set)
  BY DEF Eager!Missing, EP!Missing, Waiting!Missing, WP!Missing, Eager!Position,
       EP!Position, Waiting!Position, WP!Position
<1>7. \A set, f :
       /\ Eager!Filled(set, f) = EP!Filled(set, f)
       /\ Waiting!Filled(set, f) = WP!Filled(set, f)
  BY DEF Eager!CodePosition, EP!CodePosition, Waiting!CodePosition, WP!CodePosition,
       Eager!Filled, EP!Filled, Waiting!Filled, WP!Filled, Eager!Missing, EP!Missing,
       Waiting!Missing, WP!Missing, Eager!Position, EP!Position, Waiting!Position,
       WP!Position, Eager!Reconstructs, EP!Reconstructs, Waiting!Reconstructs,
       WP!Reconstructs, Eager!Refused, EP!Refused, Waiting!Refused, WP!Refused,
       Eager!Stored, EP!Stored, Waiting!Stored, WP!Stored
<1>8. \A set, i :
       /\ Eager!Rebuilt(set, i) = EP!Rebuilt(set, i)
       /\ Waiting!Rebuilt(set, i) = WP!Rebuilt(set, i)
  BY DEF Eager!CodePosition, EP!CodePosition, Waiting!CodePosition, WP!CodePosition,
       Eager!Position, EP!Position, Waiting!Position, WP!Position, Eager!Rebuilt,
       EP!Rebuilt, Waiting!Rebuilt, WP!Rebuilt, Eager!Stored, EP!Stored,
       Waiting!Stored, WP!Stored
<1>9. \A set, f :
       /\ Eager!RecoverOK(set, f) = EP!RecoverOK(set, f)
       /\ Waiting!RecoverOK(set, f) = WP!RecoverOK(set, f)
  BY DEF Eager!CodePosition, EP!CodePosition, Waiting!CodePosition, WP!CodePosition,
       Eager!Missing, EP!Missing, Waiting!Missing, WP!Missing, Eager!Position,
       EP!Position, Waiting!Position, WP!Position, Eager!Reconstructs,
       EP!Reconstructs, Waiting!Reconstructs, WP!Reconstructs, Eager!RecoverOK,
       EP!RecoverOK, Waiting!RecoverOK, WP!RecoverOK, Eager!Refused, EP!Refused,
       Waiting!Refused, WP!Refused, Eager!Stored, EP!Stored, Waiting!Stored, WP!Stored
<1> QED
  BY <1>1, <1>2, <1>3, <1>4, <1>5, <1>6, <1>7, <1>8, <1>9

(* ... what Slot defines apart from recovery, ...                           *)
LEMMA SameSlots ==
  /\ \A sh :
       /\ Eager!Panics(sh) <=> EP!Panics(sh)
       /\ Waiting!Panics(sh) <=> WP!Panics(sh)
  /\ Eager!SlotDefault = EP!SlotDefault
  /\ Waiting!SlotDefault = WP!SlotDefault
  /\ \A st, f :
       /\ Eager!SetFor(st, f) = EP!SetFor(st, f)
       /\ Waiting!SetFor(st, f) = WP!SetFor(st, f)
  /\ \A st, sh :
       /\ Eager!EarlyVerdict(st, sh) = EP!EarlyVerdict(st, sh)
       /\ Waiting!EarlyVerdict(st, sh) = WP!EarlyVerdict(st, sh)
  /\ \A st, sh :
       /\ Eager!Verdict(st, sh) = EP!Verdict(st, sh)
       /\ Waiting!Verdict(st, sh) = WP!Verdict(st, sh)
  /\ \A st, fresh :
       /\ Eager!ReadyRuns(st, fresh) = EP!ReadyRuns(st, fresh)
       /\ Waiting!ReadyRuns(st, fresh) = WP!ReadyRuns(st, fresh)
  /\ \A st, runs :
       /\ Eager!Complete(st, runs) = EP!Complete(st, runs)
       /\ Waiting!Complete(st, runs) = WP!Complete(st, runs)
  /\ \A st, r :
       /\ Eager!SegmentOf(st, r) = EP!SegmentOf(st, r)
       /\ Waiting!SegmentOf(st, r) = WP!SegmentOf(st, r)
<1>1. \A sh :
       /\ Eager!Panics(sh) <=> EP!Panics(sh)
       /\ Waiting!Panics(sh) <=> WP!Panics(sh)
  BY DEF Eager!Panics, EP!Panics, Waiting!Panics, WP!Panics, Eager!SetIndex,
       EP!SetIndex, Waiting!SetIndex, WP!SetIndex
<1>2. /\ Eager!SlotDefault = EP!SlotDefault
      /\ Waiting!SlotDefault = WP!SlotDefault
  BY DEF Eager!SetIndex, EP!SetIndex, Waiting!SetIndex, WP!SetIndex, Eager!SlotDefault,
       EP!SlotDefault, Waiting!SlotDefault, WP!SlotDefault
<1>3. \A st, f :
       /\ Eager!SetFor(st, f) = EP!SetFor(st, f)
       /\ Waiting!SetFor(st, f) = WP!SetFor(st, f)
  BY DEF Eager!CodePosition, EP!CodePosition, Waiting!CodePosition, WP!CodePosition,
       Eager!FecDefault, EP!FecDefault, Waiting!FecDefault, WP!FecDefault,
       Eager!Position, EP!Position, Waiting!Position, WP!Position, Eager!SetFor,
       EP!SetFor, Waiting!SetFor, WP!SetFor
<1>4. \A st, sh :
       /\ Eager!EarlyVerdict(st, sh) = EP!EarlyVerdict(st, sh)
       /\ Waiting!EarlyVerdict(st, sh) = WP!EarlyVerdict(st, sh)
  BY DEF Eager!EarlyVerdict, EP!EarlyVerdict, Waiting!EarlyVerdict, WP!EarlyVerdict,
       Eager!SetIsConsumed, EP!SetIsConsumed, Waiting!SetIsConsumed, WP!SetIsConsumed,
       Eager!SetRange, EP!SetRange, Waiting!SetRange, WP!SetRange
<1>5. \A st, sh :
       /\ Eager!Verdict(st, sh) = EP!Verdict(st, sh)
       /\ Waiting!Verdict(st, sh) = WP!Verdict(st, sh)
  BY DEF Eager!CodePosition, EP!CodePosition, Waiting!CodePosition, WP!CodePosition,
       Eager!EarlyVerdict, EP!EarlyVerdict, Waiting!EarlyVerdict, WP!EarlyVerdict,
       Eager!FecDefault, EP!FecDefault, Waiting!FecDefault, WP!FecDefault,
       Eager!FecVerdict, EP!FecVerdict, Waiting!FecVerdict, WP!FecVerdict, Eager!Get,
       EP!Get, Waiting!Get, WP!Get, Eager!IsComplete, EP!IsComplete,
       Waiting!IsComplete, WP!IsComplete, Eager!Position, EP!Position,
       Waiting!Position, WP!Position, Eager!SetFor, EP!SetFor, Waiting!SetFor,
       WP!SetFor, Eager!SetIsConsumed, EP!SetIsConsumed, Waiting!SetIsConsumed,
       WP!SetIsConsumed, Eager!SetRange, EP!SetRange, Waiting!SetRange, WP!SetRange,
       Eager!Verdict, EP!Verdict, Waiting!Verdict, WP!Verdict
<1>6. \A st, fresh :
       /\ Eager!ReadyRuns(st, fresh) = EP!ReadyRuns(st, fresh)
       /\ Waiting!ReadyRuns(st, fresh) = WP!ReadyRuns(st, fresh)
  BY DEF Eager!Index, EP!Index, Waiting!Index, WP!Index, Eager!IsRun, EP!IsRun,
       Waiting!IsRun, WP!IsRun, Eager!MAX_SHREDS_PER_SLOT, EP!MAX_SHREDS_PER_SLOT,
       Waiting!MAX_SHREDS_PER_SLOT, WP!MAX_SHREDS_PER_SLOT, Eager!ReadyRuns,
       EP!ReadyRuns, Waiting!ReadyRuns, WP!ReadyRuns, Eager!Touched, EP!Touched,
       Waiting!Touched, WP!Touched
<1>7. \A st, runs :
       /\ Eager!Complete(st, runs) = EP!Complete(st, runs)
       /\ Waiting!Complete(st, runs) = WP!Complete(st, runs)
  BY DEF Eager!Complete, EP!Complete, Waiting!Complete, WP!Complete, Eager!Consume,
       EP!Consume, Waiting!Consume, WP!Consume, Eager!Freed, EP!Freed, Waiting!Freed,
       WP!Freed, Eager!SetIndex, EP!SetIndex, Waiting!SetIndex, WP!SetIndex,
       Eager!SetIsConsumed, EP!SetIsConsumed, Waiting!SetIsConsumed, WP!SetIsConsumed,
       Eager!SetRange, EP!SetRange, Waiting!SetRange, WP!SetRange
<1>8. \A st, r :
       /\ Eager!SegmentOf(st, r) = EP!SegmentOf(st, r)
       /\ Waiting!SegmentOf(st, r) = WP!SegmentOf(st, r)
  BY DEF Eager!SegmentOf, EP!SegmentOf, Waiting!SegmentOf, WP!SegmentOf, Eager!ShredAt,
       EP!ShredAt, Waiting!ShredAt, WP!ShredAt
<1> QED
  BY <1>1, <1>2, <1>3, <1>4, <1>5, <1>6, <1>7, <1>8

(* ... what it does with recovery, ...                                      *)
LEMMA SameRecovery ==
  /\ \A set, f :
       /\ Eager!Recover(set, f) = EP!Recover(set, f)
       /\ Waiting!Recover(set, f) = WP!Recover(set, f)
  /\ \A st, sh, rs :
       /\ Eager!NewSet(st, sh, rs) = EP!NewSet(st, sh, rs)
       /\ Waiting!NewSet(st, sh, rs) = WP!NewSet(st, sh, rs)
  /\ \A st, sh, rs :
       /\ Eager!Recovers(st, sh, rs) <=> EP!Recovers(st, sh, rs)
       /\ Waiting!Recovers(st, sh, rs) <=> WP!Recovers(st, sh, rs)
  /\ \A st, sh, rs :
       /\ Eager!RecoveryFails(st, sh, rs) <=> EP!RecoveryFails(st, sh, rs)
       /\ Waiting!RecoveryFails(st, sh, rs) <=> WP!RecoveryFails(st, sh, rs)
  /\ \A st, sh, rs :
       /\ Eager!Recovered(st, sh, rs) = EP!Recovered(st, sh, rs)
       /\ Waiting!Recovered(st, sh, rs) = WP!Recovered(st, sh, rs)
  /\ \A st, sh, rs :
       /\ Eager!Fresh(st, sh, rs) = EP!Fresh(st, sh, rs)
       /\ Waiting!Fresh(st, sh, rs) = WP!Fresh(st, sh, rs)
  /\ \A st, sh, rs :
       /\ Eager!Stow(st, sh, rs) = EP!Stow(st, sh, rs)
       /\ Waiting!Stow(st, sh, rs) = WP!Stow(st, sh, rs)
<1>1. \A set, f :
       /\ Eager!Recover(set, f) = EP!Recover(set, f)
       /\ Waiting!Recover(set, f) = WP!Recover(set, f)
  <2> SUFFICES ASSUME NEW set, NEW f
               PROVE  /\ Eager!Recover(set, f) = EP!Recover(set, f)
                      /\ Waiting!Recover(set, f) = WP!Recover(set, f)
    OBVIOUS
  <2> DEFINE Put(data, num, ok) ==
               LET filled == [set EXCEPT !.data = data, !.num_data = @ + num]
               IN  IF ok THEN [filled EXCEPT !.code = [c \in 0 .. (M - 1) |-> None],
                                             !.num_code = 0]
                   ELSE filled
             eE == [p \in 0 .. (K - 1) |-> IF p \in Eager!Filled(set, f)
                      THEN Eager!Rebuilt(set, f + p) ELSE set.data[p]]
             eP == [p \in 0 .. (K - 1) |-> IF p \in EP!Filled(set, f)
                      THEN EP!Rebuilt(set, f + p) ELSE set.data[p]]
             wE == [p \in 0 .. (K - 1) |-> IF p \in Waiting!Filled(set, f)
                      THEN Waiting!Rebuilt(set, f + p) ELSE set.data[p]]
             wP == [p \in 0 .. (K - 1) |-> IF p \in WP!Filled(set, f)
                      THEN WP!Rebuilt(set, f + p) ELSE set.data[p]]
  <2>1. eE = eP /\ wE = wP
    BY SameShreds
  <2>2. /\ Eager!Cardinality(Eager!Filled(set, f)) = EP!Cardinality(EP!Filled(set, f))
        /\ Waiting!Cardinality(Waiting!Filled(set, f)) = WP!Cardinality(WP!Filled(set, f))
    BY SameShreds DEF Eager!Cardinality, EP!Cardinality, Waiting!Cardinality, WP!Cardinality
  <2>3. /\ Eager!Recover(set, f) =
             Put(eE, Eager!Cardinality(Eager!Filled(set, f)), Eager!RecoverOK(set, f))
        /\ EP!Recover(set, f) =
             Put(eP, EP!Cardinality(EP!Filled(set, f)), EP!RecoverOK(set, f))
        /\ Waiting!Recover(set, f) =
             Put(wE, Waiting!Cardinality(Waiting!Filled(set, f)), Waiting!RecoverOK(set, f))
        /\ WP!Recover(set, f) =
             Put(wP, WP!Cardinality(WP!Filled(set, f)), WP!RecoverOK(set, f))
    BY DEF Eager!Recover, EP!Recover, Waiting!Recover, WP!Recover, Eager!DropCode,
       EP!DropCode, Waiting!DropCode, WP!DropCode, Eager!Position, EP!Position,
       Waiting!Position, WP!Position, Eager!CodePosition, EP!CodePosition,
       Waiting!CodePosition, WP!CodePosition
  <2> HIDE DEF Put, eE, eP, wE, wP
  <2> QED
    BY <2>1, <2>2, <2>3, SameShreds
<1>2. \A st, sh, rs :
       /\ Eager!Recovers(st, sh, rs) <=> EP!Recovers(st, sh, rs)
       /\ Waiting!Recovers(st, sh, rs) <=> WP!Recovers(st, sh, rs)
  BY SameShreds, SameSlots DEF Eager!Recovers, EP!Recovers, Waiting!Recovers, WP!Recovers
<1>3. \A st, sh, rs :
       /\ Eager!NewSet(st, sh, rs) = EP!NewSet(st, sh, rs)
       /\ Waiting!NewSet(st, sh, rs) = WP!NewSet(st, sh, rs)
  BY <1>1, <1>2, SameShreds, SameSlots DEF Eager!NewSet, EP!NewSet, Waiting!NewSet, WP!NewSet
<1>4. \A st, sh, rs :
       /\ Eager!RecoveryFails(st, sh, rs) <=> EP!RecoveryFails(st, sh, rs)
       /\ Waiting!RecoveryFails(st, sh, rs) <=> WP!RecoveryFails(st, sh, rs)
  BY <1>2, SameShreds, SameSlots
  DEF Eager!RecoveryFails, EP!RecoveryFails, Waiting!RecoveryFails, WP!RecoveryFails
<1>5. \A st, sh, rs :
       /\ Eager!Recovered(st, sh, rs) = EP!Recovered(st, sh, rs)
       /\ Waiting!Recovered(st, sh, rs) = WP!Recovered(st, sh, rs)
  BY <1>2, <1>4, SameShreds, SameSlots
  DEF Eager!Recovered, EP!Recovered, Waiting!Recovered, WP!Recovered
<1>6. \A st, sh, rs :
       /\ Eager!Fresh(st, sh, rs) = EP!Fresh(st, sh, rs)
       /\ Waiting!Fresh(st, sh, rs) = WP!Fresh(st, sh, rs)
  BY <1>5 DEF Eager!Fresh, EP!Fresh, Waiting!Fresh, WP!Fresh
<1>7. \A st, sh, rs :
       /\ Eager!Stow(st, sh, rs) = EP!Stow(st, sh, rs)
       /\ Waiting!Stow(st, sh, rs) = WP!Stow(st, sh, rs)
  <2> SUFFICES ASSUME NEW st, NEW sh, NEW rs
               PROVE  /\ Eager!Stow(st, sh, rs) = EP!Stow(st, sh, rs)
                      /\ Waiting!Stow(st, sh, rs) = WP!Stow(st, sh, rs)
    OBVIOUS
  <2> DEFINE Put(set, fresh) ==
               [st EXCEPT
                  !.sets[sh.fec] = set,
                  !.received = @ \cup fresh,
                  !.complete = @ \cup {i \in fresh : set.data[i - sh.fec].complete}]
  <2>1. /\ Eager!Stow(st, sh, rs) = Put(Eager!NewSet(st, sh, rs), Eager!Fresh(st, sh, rs))
        /\ EP!Stow(st, sh, rs) = Put(EP!NewSet(st, sh, rs), EP!Fresh(st, sh, rs))
        /\ Waiting!Stow(st, sh, rs)
             = Put(Waiting!NewSet(st, sh, rs), Waiting!Fresh(st, sh, rs))
        /\ WP!Stow(st, sh, rs) = Put(WP!NewSet(st, sh, rs), WP!Fresh(st, sh, rs))
    BY DEF Eager!Stow, EP!Stow, Waiting!Stow, WP!Stow
  <2> HIDE DEF Put
  <2> QED
    BY <1>3, <1>6, <2>1
<1> QED
  BY <1>1, <1>2, <1>3, <1>4, <1>5, <1>6, <1>7

(* ... and so is SlotState::insert.                                         *)
LEMMA SameInsert ==
  /\ \A st, sh, rs :
       /\ Eager!SlotInsert(st, sh, rs) = EP!SlotInsert(st, sh, rs)
       /\ Waiting!SlotInsert(st, sh, rs) = WP!SlotInsert(st, sh, rs)
  /\ \A st, sh, rs :
       /\ Eager!Segments(st, sh, rs) = EP!Segments(st, sh, rs)
       /\ Waiting!Segments(st, sh, rs) = WP!Segments(st, sh, rs)
<1>1. \A st, sh, rs :
       /\ Eager!SlotInsert(st, sh, rs) = EP!SlotInsert(st, sh, rs)
       /\ Waiting!SlotInsert(st, sh, rs) = WP!SlotInsert(st, sh, rs)
  BY SameSlots, SameRecovery
  DEF Eager!SlotInsert, EP!SlotInsert, Waiting!SlotInsert, WP!SlotInsert
<1>2. \A st, sh, rs :
       /\ Eager!Segments(st, sh, rs) = EP!Segments(st, sh, rs)
       /\ Waiting!Segments(st, sh, rs) = WP!Segments(st, sh, rs)
  BY SameSlots, SameRecovery DEF Eager!Segments, EP!Segments, Waiting!Segments, WP!Segments
<1> QED
  BY <1>1, <1>2

(* So the two passes are two runs of the core.                              *)
LEMMA SamePush ==
  /\ Eager!Init => EP!Init
  /\ Waiting!Init => WP!Init
  /\ \A p \in Packet : (Eager!Push(p) => EP!Push(p)) /\ (Waiting!Push(p) => WP!Push(p))
  /\ Eager!AllHanded = EP!AllHanded /\ Waiting!AllHanded = WP!AllHanded
  /\ \A s, h : (Eager!Stale(s, h) <=> EP!Stale(s, h)) /\ (Waiting!Stale(s, h) <=> WP!Stale(s, h))
<1>1. (Eager!Init => EP!Init) /\ (Waiting!Init => WP!Init)
  BY SameSlots DEF Eager!Init, EP!Init, Waiting!Init, WP!Init, Eager!Count, EP!Count,
       Waiting!Count, WP!Count, Eager!Counter, EP!Counter, Waiting!Counter, WP!Counter
<1>2. /\ Eager!AllHanded = EP!AllHanded /\ Waiting!AllHanded = WP!AllHanded
      /\ \A b : Eager!Handed(b) = EP!Handed(b) /\ Waiting!Handed(b) = WP!Handed(b)
  BY DEF Eager!AllHanded, EP!AllHanded, Waiting!AllHanded, WP!AllHanded, Eager!Handed,
       EP!Handed, Waiting!Handed, WP!Handed
<1>3. \A s, h : (Eager!Stale(s, h) <=> EP!Stale(s, h)) /\ (Waiting!Stale(s, h) <=> WP!Stale(s, h))
  BY DEF Eager!Stale, EP!Stale, Waiting!Stale, WP!Stale, Eager!Add, EP!Add, Waiting!Add,
       WP!Add
<1>4. \A names :
       /\ Eager!Count(names) = EP!Count(names)
       /\ Waiting!Count(names) = WP!Count(names)
  BY DEF Eager!Count, EP!Count, Waiting!Count, WP!Count, Eager!Counter, EP!Counter,
       Waiting!Counter, WP!Counter
<1>5. \A s :
       /\ Eager!SlotAt(s) = EP!SlotAt(s)
       /\ Waiting!SlotAt(s) = WP!SlotAt(s)
  BY SameSlots DEF Eager!SlotAt, EP!SlotAt, Waiting!SlotAt, WP!SlotAt
<1>6. \A map, s, st :
       /\ Eager!With(map, s, st) = EP!With(map, s, st)
       /\ Waiting!With(map, s, st) = WP!With(map, s, st)
  BY DEF Eager!With, EP!With, Waiting!With, WP!With
<1>7. \A map, moved, slot :
       /\ Eager!Evict(map, moved, slot) = EP!Evict(map, moved, slot)
       /\ Waiting!Evict(map, moved, slot) = WP!Evict(map, moved, slot)
  BY DEF Eager!Add, EP!Add, Waiting!Add, WP!Add, Eager!Evict, EP!Evict, Waiting!Evict,
       WP!Evict, Eager!Keep, EP!Keep, Waiting!Keep, WP!Keep, Eager!PopFar, EP!PopFar,
       Waiting!PopFar, WP!PopFar, Eager!PopOld, EP!PopOld, Waiting!PopOld, WP!PopOld,
       Eager!Cardinality, EP!Cardinality, Waiting!Cardinality, WP!Cardinality
<1>8. \A st, sh, segments :
       /\ Eager!InsertCounts(st, sh, segments) = EP!InsertCounts(st, sh, segments)
       /\ Waiting!InsertCounts(st, sh, segments) = WP!InsertCounts(st, sh, segments)
  <2>1. \A S : /\ Eager!Cardinality(S) = EP!Cardinality(S)
               /\ Waiting!Cardinality(S) = WP!Cardinality(S)
    BY DEF Eager!Cardinality, EP!Cardinality, Waiting!Cardinality, WP!Cardinality
  <2> SUFFICES ASSUME NEW st, NEW sh, NEW segments
               PROVE  /\ Eager!InsertCounts(st, sh, segments) = EP!InsertCounts(st, sh, segments)
                      /\ Waiting!InsertCounts(st, sh, segments) = WP!InsertCounts(st, sh, segments)
    OBVIOUS
  <2> DEFINE Put(counts, recovered, failures, batches) ==
               [counts EXCEPT !["recovered"] = recovered,
                              !["recovery_failures"] = failures, !["batches"] = batches]
  <2>2. /\ Eager!InsertCounts(st, sh, segments) =
             Put(Eager!Count({"packets", Eager!Verdict(st, sh)}),
               IF Eager!Verdict(st, sh) = "new"
               THEN Eager!Cardinality(Eager!Recovered(st, sh, TRUE)) ELSE 0,
               IF Eager!Verdict(st, sh) = "new" /\ Eager!RecoveryFails(st, sh, TRUE)
               THEN 1 ELSE 0,
               Eager!Cardinality(segments))
        /\ EP!InsertCounts(st, sh, segments) =
             Put(EP!Count({"packets", EP!Verdict(st, sh)}),
               IF EP!Verdict(st, sh) = "new"
               THEN EP!Cardinality(EP!Recovered(st, sh, TRUE)) ELSE 0,
               IF EP!Verdict(st, sh) = "new" /\ EP!RecoveryFails(st, sh, TRUE)
               THEN 1 ELSE 0,
               EP!Cardinality(segments))
        /\ Waiting!InsertCounts(st, sh, segments) =
             Put(Waiting!Count({"packets", Waiting!Verdict(st, sh)}),
               IF Waiting!Verdict(st, sh) = "new"
               THEN Waiting!Cardinality(Waiting!Recovered(st, sh, FALSE)) ELSE 0,
               IF Waiting!Verdict(st, sh) = "new" /\ Waiting!RecoveryFails(st, sh, FALSE)
               THEN 1 ELSE 0,
               Waiting!Cardinality(segments))
        /\ WP!InsertCounts(st, sh, segments) =
             Put(WP!Count({"packets", WP!Verdict(st, sh)}),
               IF WP!Verdict(st, sh) = "new"
               THEN WP!Cardinality(WP!Recovered(st, sh, FALSE)) ELSE 0,
               IF WP!Verdict(st, sh) = "new" /\ WP!RecoveryFails(st, sh, FALSE)
               THEN 1 ELSE 0,
               WP!Cardinality(segments))
    BY DEF Eager!InsertCounts, EP!InsertCounts, Waiting!InsertCounts, WP!InsertCounts
  <2> HIDE DEF Put
  <2> QED
    BY <1>4, <2>1, <2>2, SameSlots, SameRecovery
<1>9. \A slot, g :
       /\ Eager!RawBatch(slot, g) = EP!RawBatch(slot, g)
       /\ Waiting!RawBatch(slot, g) = WP!RawBatch(slot, g)
  BY DEF Eager!RawBatch, EP!RawBatch, Waiting!RawBatch, WP!RawBatch
<1>10. \A p :
       /\ Eager!Accepted(p) <=> EP!Accepted(p)
       /\ Waiting!Accepted(p) <=> WP!Accepted(p)
  BY SameShreds DEF Eager!Accepted, EP!Accepted, Waiting!Accepted, WP!Accepted
<1>11. ASSUME NEW p \in Packet
       PROVE  (Eager!Push(p) => EP!Push(p)) /\ (Waiting!Push(p) => WP!Push(p))
  <2>1. /\ Eager!PushInvalid(p) => EP!PushInvalid(p)
        /\ Waiting!PushInvalid(p) => WP!PushInvalid(p)
    BY <1>2, <1>4, SameShreds
    DEF Eager!PushInvalid, EP!PushInvalid, Waiting!PushInvalid, WP!PushInvalid,
       Eager!Ignore, EP!Ignore, Waiting!Ignore, WP!Ignore, Eager!Hand, EP!Hand,
       Waiting!Hand, WP!Hand
  <2>2. /\ Eager!PushWrongVersion(p) => EP!PushWrongVersion(p)
        /\ Waiting!PushWrongVersion(p) => WP!PushWrongVersion(p)
    BY <1>2, <1>4, <1>10, SameShreds
    DEF Eager!PushWrongVersion, EP!PushWrongVersion, Waiting!PushWrongVersion,
       WP!PushWrongVersion, Eager!Ignore, EP!Ignore, Waiting!Ignore, WP!Ignore,
       Eager!Hand, EP!Hand, Waiting!Hand, WP!Hand
  <2>3. /\ Eager!PushStale(p) => EP!PushStale(p)
        /\ Waiting!PushStale(p) => WP!PushStale(p)
    BY <1>2, <1>3, <1>4, <1>10
    DEF Eager!PushStale, EP!PushStale, Waiting!PushStale, WP!PushStale, Eager!Ignore,
       EP!Ignore, Waiting!Ignore, WP!Ignore, Eager!Hand, EP!Hand, Waiting!Hand,
       WP!Hand
  <2>4. /\ Eager!PushPanics(p) => EP!PushPanics(p)
        /\ Waiting!PushPanics(p) => WP!PushPanics(p)
    BY <1>2, <1>3, <1>4, <1>5, <1>6, <1>10, SameShreds, SameSlots
    DEF Eager!PushPanics, EP!PushPanics, Waiting!PushPanics, WP!PushPanics, Eager!Hand,
       EP!Hand, Waiting!Hand, WP!Hand
  <2>5. /\ Eager!PushShred(p) => EP!PushShred(p)
        /\ Waiting!PushShred(p) => WP!PushShred(p)
    BY <1>2, <1>3, <1>5, <1>6, <1>7, <1>8, <1>9, <1>10, SameShreds, SameSlots, SameInsert
    DEF Eager!PushShred, EP!PushShred, Waiting!PushShred, WP!PushShred, Eager!Hand,
       EP!Hand, Waiting!Hand, WP!Hand, Eager!Moves, EP!Moves, Waiting!Moves, WP!Moves
  <2> QED
    BY <2>1, <2>2, <2>3, <2>4, <2>5 DEF Eager!Push, EP!Push, Waiting!Push, WP!Push
<1> QED
  BY <1>1, <1>2, <1>3, <1>11

(* Both passes are instances of the core that its proofs are about.         *)
LEMMA CoreConstants ==
  /\ EP!GeometryAssumption /\ EP!LeafAssumption /\ EP!NoneAssumption
  /\ EP!PacketAssumption /\ EP!ConfigAssumption
  /\ WP!GeometryAssumption /\ WP!LeafAssumption /\ WP!NoneAssumption
  /\ WP!PacketAssumption /\ WP!ConfigAssumption
<1>1. EP!GeometryAssumption /\ WP!GeometryAssumption
  BY GeometryAssumption
<1>2. EP!LeafAssumption /\ WP!LeafAssumption
  BY LeafAssumption DEF EP!Index, WP!Index, Index, EP!MAX_SHREDS_PER_SLOT,
    WP!MAX_SHREDS_PER_SLOT, MAX_SHREDS_PER_SLOT
<1>3. EP!NoneAssumption /\ WP!NoneAssumption
  BY NoneAssumption DEF Shard, EP!Shard, WP!Shard, FecSet, EP!FecSet, WP!FecSet,
    DataArray, EP!DataArray, WP!DataArray, CodeArray, EP!CodeArray, WP!CodeArray,
    Position, EP!Position, WP!Position, CodePosition, EP!CodePosition, WP!CodePosition
<1>4. EP!PacketAssumption /\ WP!PacketAssumption
  BY AnalysisAssumption DEF Datagram, EP!Datagram, WP!Datagram
<1>5. EP!ConfigAssumption /\ WP!ConfigAssumption
  BY AnalysisAssumption
<1> QED
  BY <1>1, <1>2, <1>3, <1>4, <1>5

(* The analysis reads records with the words of Shred and Slot themselves.  *)
LEMMA BaseWords ==
  ASSUME NEW p \in Packet
  PROVE  /\ EP!Accepted(p) <=> WellFormed(p)
         /\ WP!Accepted(p) <=> WellFormed(p)
         /\ EP!Parse(p) = Parse(p) /\ WP!Parse(p) = Parse(p)
         /\ EP!Panics(Parse(p)) <=> Panics(Parse(p))
         /\ WP!Panics(Parse(p)) <=> Panics(Parse(p))
         /\ Parse(p).slot = p.slot /\ Parse(p).fec = p.fec_set_index
         /\ Parse(p).root = MerkleRoot(p) /\ Parse(p).kind = p.variant
         /\ p.slot \in 0 .. (W - 1)
<1>1. /\ EP!WellFormed(p) <=> WellFormed(p)
      /\ WP!WellFormed(p) <=> WellFormed(p)
  BY DEF CODE_HEADERS_SIZE, EP!CODE_HEADERS_SIZE, WP!CODE_HEADERS_SIZE, CODE_SHRED_SIZE,
       EP!CODE_SHRED_SIZE, WP!CODE_SHRED_SIZE, Capacity, EP!Capacity, WP!Capacity,
       CodeHeaderOK, EP!CodeHeaderOK, WP!CodeHeaderOK, DATA_HEADERS_SIZE,
       EP!DATA_HEADERS_SIZE, WP!DATA_HEADERS_SIZE, DATA_SHRED_SIZE,
       EP!DATA_SHRED_SIZE, WP!DATA_SHRED_SIZE, DataHeaderOK, EP!DataHeaderOK,
       WP!DataHeaderOK, Headers, EP!Headers, WP!Headers, IsMultipleOf,
       EP!IsMultipleOf, WP!IsMultipleOf, LastInSlot, EP!LastInSlot, WP!LastInSlot,
       MAX_SHREDS_PER_SLOT, EP!MAX_SHREDS_PER_SLOT, WP!MAX_SHREDS_PER_SLOT,
       MERKLE_ROOT_SIZE, EP!MERKLE_ROOT_SIZE, WP!MERKLE_ROOT_SIZE, PROOF_ENTRY_SIZE,
       EP!PROOF_ENTRY_SIZE, WP!PROOF_ENTRY_SIZE, SIGNATURE_SIZE, EP!SIGNATURE_SIZE,
       WP!SIGNATURE_SIZE, VARIANT_OFFSET, EP!VARIANT_OFFSET, WP!VARIANT_OFFSET,
       WellFormed, EP!WellFormed, WP!WellFormed, WireSize, EP!WireSize, WP!WireSize
<1>2. EP!Parse(p) = Parse(p) /\ WP!Parse(p) = Parse(p)
  BY DEF CODE_HEADERS_SIZE, EP!CODE_HEADERS_SIZE, WP!CODE_HEADERS_SIZE, CODE_SHRED_SIZE,
       EP!CODE_SHRED_SIZE, WP!CODE_SHRED_SIZE, Capacity, EP!Capacity, WP!Capacity,
       DATA_HEADERS_SIZE, EP!DATA_HEADERS_SIZE, WP!DATA_HEADERS_SIZE, DATA_SHRED_SIZE,
       EP!DATA_SHRED_SIZE, WP!DATA_SHRED_SIZE, ErasureShard, EP!ErasureShard,
       WP!ErasureShard, ErasureShardIndex, EP!ErasureShardIndex, WP!ErasureShardIndex,
       Headers, EP!Headers, WP!Headers, LastInSlot, EP!LastInSlot, WP!LastInSlot,
       MERKLE_ROOT_SIZE, EP!MERKLE_ROOT_SIZE, WP!MERKLE_ROOT_SIZE, MerkleRoot,
       EP!MerkleRoot, WP!MerkleRoot, PROOF_ENTRY_SIZE, EP!PROOF_ENTRY_SIZE,
       WP!PROOF_ENTRY_SIZE, Parse, EP!Parse, WP!Parse, SIGNATURE_SIZE,
       EP!SIGNATURE_SIZE, WP!SIGNATURE_SIZE, ShardLen, EP!ShardLen, WP!ShardLen,
       WireSize, EP!WireSize, WP!WireSize
<1>3. /\ EP!Panics(Parse(p)) <=> Panics(Parse(p))
      /\ WP!Panics(Parse(p)) <=> Panics(Parse(p))
  BY DEF Panics, EP!Panics, WP!Panics, SetIndex, EP!SetIndex, WP!SetIndex
<1>4. (EP!Accepted(p) <=> EP!WellFormed(p)) /\ (WP!Accepted(p) <=> WP!WellFormed(p))
  BY DEF EP!Accepted, WP!Accepted
<1>5. /\ Parse(p).slot = p.slot /\ Parse(p).fec = p.fec_set_index
      /\ Parse(p).root = MerkleRoot(p) /\ Parse(p).kind = p.variant
  BY DEF Parse
<1>6. p.slot \in 0 .. (W - 1)
  BY AnalysisAssumption DEF Datagram
<1> QED
  BY <1>1, <1>2, <1>3, <1>4, <1>5, <1>6

(* Every block of the capture is consistent, also of a slot without one.    *)
LEMMA BlocksConsistent ==
  ASSUME ConsistentCapture, NEW s
  PROVE  EP!Consistent(Block(s)) /\ WP!Consistent(Block(s))
<1>1. Eager!Consistent(Block(s))
  <2>1. CASE \E p \in Packet : WellFormed(p) /\ p.slot = s
    BY <2>1 DEF ConsistentCapture
  <2>2. CASE ~ \E p \in Packet : WellFormed(p) /\ p.slot = s
    <3>1. \A p \in Packet : Eager!WellFormed(p) <=> WellFormed(p)
      BY BaseWords, SameShreds DEF EP!Accepted
    <3>2. Block(s) = {}
      BY <2>2, <3>1 DEF Block, Eager!ShredsOf
    <3> QED
      BY <3>2 DEF Eager!Consistent
  <2> QED
    BY <2>1, <2>2
<1> QED
  BY <1>1 DEF Eager!Consistent, EP!Consistent, WP!Consistent,
    Eager!Position, EP!Position, WP!Position

(* A record with a sound proof is a shred of its block.                     *)
LEMMA ShredOfBlock ==
  ASSUME NEW p \in Packet, WellFormed(p), Parse(p).root # None
  PROVE  Parse(p) \in Block(p.slot)
<1>1. Eager!WellFormed(p) /\ Eager!Parse(p) = Parse(p)
  BY BaseWords, SameShreds DEF EP!Accepted
<1>2. Eager!MerkleRoot(p) # None
  <2>1. Eager!Parse(p).root = Eager!MerkleRoot(p)
    BY DEF Eager!Parse
  <2> QED
    BY <1>1, <2>1
<1> QED
  BY <1>1, <1>2 DEF Block, Eager!ShredsOf

-----------------------------------------------------------------------------
(* The set states *)

SetState ==
  [arrivals: Seq(Nat), seen: SUBSET ({"data", "code"} \X Nat), num_data: Nat,
   first_code_at: Nat \cup {None}, data_complete_at: Nat \cup {None},
   threshold_at: Nat \cup {None}, missing_at_threshold: Int]

(* What one more shred changes in a SetState.                               *)
LEMMA ArrivedFields ==
  ASSUME NEW st \in SetState, NEW sh, NEW now \in Nat
  PROVE  LET next == Noted(st, sh, now)
             at == /\ Len(next.arrivals) = K /\ next.first_code_at # None
         IN  /\ next.seen = st.seen \cup {Seen(sh)}
             /\ next.arrivals = Append(st.arrivals, now)
             /\ next.num_data = IF sh.kind = "data" THEN st.num_data + 1 ELSE st.num_data
             /\ next.data_complete_at =
                  IF sh.kind = "data" /\ st.num_data + 1 = K
                  THEN now ELSE st.data_complete_at
             /\ next.first_code_at =
                  IF sh.kind = "code" /\ st.first_code_at = None
                  THEN now ELSE st.first_code_at
             /\ next.threshold_at = IF at THEN now ELSE st.threshold_at
             /\ next.missing_at_threshold =
                  IF at THEN K - next.num_data ELSE st.missing_at_threshold
             /\ DOMAIN next = DOMAIN SetDefault
<1> DEFINE mid == Arrived(st, sh, now)
           next == Noted(st, sh, now)
<1>1. /\ mid.seen = st.seen \cup {Seen(sh)}
      /\ mid.arrivals = Append(st.arrivals, now)
      /\ mid.num_data = IF sh.kind = "data" THEN st.num_data + 1 ELSE st.num_data
      /\ mid.data_complete_at =
           IF sh.kind = "data" /\ st.num_data + 1 = K THEN now ELSE st.data_complete_at
      /\ mid.first_code_at =
           IF sh.kind = "code" /\ st.first_code_at = None THEN now ELSE st.first_code_at
      /\ mid.threshold_at = st.threshold_at
      /\ mid.missing_at_threshold = st.missing_at_threshold
      /\ DOMAIN mid = DOMAIN SetDefault
  BY DEF Arrived, SetState, SetDefault
<1>2. next = IF AtThreshold(mid)
             THEN [mid EXCEPT !.threshold_at = now, !.missing_at_threshold = K - mid.num_data]
             ELSE mid
  BY DEF Noted
<1>3. AtThreshold(mid) <=> Len(mid.arrivals) = K /\ mid.first_code_at # None
  BY DEF AtThreshold
<1> HIDE DEF mid, next
<1>4. /\ next.seen = mid.seen /\ next.arrivals = mid.arrivals /\ next.num_data = mid.num_data
      /\ next.data_complete_at = mid.data_complete_at
      /\ next.first_code_at = mid.first_code_at
      /\ next.threshold_at = IF AtThreshold(mid) THEN now ELSE mid.threshold_at
      /\ next.missing_at_threshold =
           IF AtThreshold(mid) THEN K - mid.num_data ELSE mid.missing_at_threshold
      /\ DOMAIN next = DOMAIN mid
  BY <1>1, <1>2 DEF SetDefault
<1> QED
  BY <1>1, <1>3, <1>4 DEF next

(* The bits of seen_data.                                                   *)
DataSeen(seen) == {x \in seen : x[1] = "data"}

(* A SetState after the record at time now: it has counted what it has seen *)
(* and found the set recoverable with data missing.                         *)
SetInv(st, now) ==
  /\ st \in SetState /\ IsFiniteSet(st.seen)
  /\ Len(st.arrivals) = Cardinality(st.seen)
  /\ st.num_data = Cardinality(DataSeen(st.seen))
  /\ st.first_code_at # None <=> st.seen # DataSeen(st.seen)
  /\ st.threshold_at # None => st.threshold_at <= now /\ st.missing_at_threshold > 0

(* The record at time now is the one at which the set is recoverable.       *)
Crosses(st, sh) ==
  /\ Seen(sh) \notin st.seen
  /\ Cardinality(st.seen \cup {Seen(sh)}) = K
  /\ st.seen \cup {Seen(sh)} # DataSeen(st.seen \cup {Seen(sh)})

(* A SetState stays one.                                                    *)
LEMMA NotedIsState ==
  ASSUME NEW st \in SetState, NEW sh, Seen(sh) \in {"data", "code"} \X Nat, NEW t \in Nat
  PROVE  Noted(st, sh, t) \in SetState
<1>1. /\ st.seen \in SUBSET ({"data", "code"} \X Nat) /\ st.arrivals \in Seq(Nat)
      /\ st.num_data \in Nat
      /\ st.first_code_at \in Nat \cup {None} /\ st.data_complete_at \in Nat \cup {None}
  BY DEF SetState
<1> DEFINE a == st.seen \cup {Seen(sh)}
           b == Append(st.arrivals, t)
           c == IF sh.kind = "data" THEN st.num_data + 1 ELSE st.num_data
           d == IF sh.kind = "data" /\ st.num_data + 1 = K THEN t ELSE st.data_complete_at
           e == IF sh.kind = "code" /\ st.first_code_at = None THEN t ELSE st.first_code_at
           mid == Arrived(st, sh, t)
<1>2. mid = [st EXCEPT !.seen = a, !.arrivals = b, !.num_data = c,
                       !.data_complete_at = d, !.first_code_at = e]
  BY DEF Arrived
<1>3. a \in SUBSET ({"data", "code"} \X Nat)
  BY <1>1
<1>4. b \in Seq(Nat)
  BY <1>1
<1>5. c \in Nat
  BY <1>1
<1>6. d \in Nat \cup {None} /\ e \in Nat \cup {None}
  BY <1>1
<1> HIDE DEF a, b, c, d, e, mid
<1>7. mid \in SetState
  BY <1>2, <1>3, <1>4, <1>5, <1>6 DEF SetState
<1>8. K - mid.num_data \in Int
  BY <1>7, GeometryAssumption DEF SetState
<1>9. Noted(st, sh, t) =
        IF AtThreshold(mid)
        THEN [mid EXCEPT !.threshold_at = t, !.missing_at_threshold = K - mid.num_data]
        ELSE mid
  BY DEF Noted, mid
<1> QED
  BY <1>7, <1>8, <1>9 DEF SetState

(* A set without shreds.                                                    *)
LEMMA DefaultSetInv ==
  ASSUME NEW now \in Nat
  PROVE  SetInv(SetDefault, now)
<1>1. /\ SetDefault.seen = {} /\ SetDefault.num_data = 0 /\ SetDefault.arrivals = <<>>
      /\ SetDefault.first_code_at = None /\ SetDefault.threshold_at = None
  BY DEF SetDefault
<1>2. SetDefault \in SetState
  BY DEF SetDefault, SetState
<1>3. DataSeen({}) = {} /\ Cardinality({}) = 0 /\ IsFiniteSet({})
  BY FS_EmptySet DEF DataSeen
<1> QED
  BY <1>1, <1>2, <1>3 DEF SetInv

(* Counting a shred that was not seen before.                               *)
LEMMA SeenCounts ==
  ASSUME NEW seen \in SUBSET ({"data", "code"} \X Nat), IsFiniteSet(seen),
         NEW x \in ({"data", "code"} \X Nat) \ seen
  PROVE  LET more == seen \cup {x}
         IN  /\ IsFiniteSet(more) /\ Cardinality(seen) \in Nat
             /\ Cardinality(more) = Cardinality(seen) + 1
             /\ Cardinality(DataSeen(seen)) \in Nat /\ Cardinality(DataSeen(more)) \in Nat
             /\ Cardinality(DataSeen(more)) =
                  Cardinality(DataSeen(seen)) + (IF x[1] = "data" THEN 1 ELSE 0)
             /\ more # DataSeen(more) <=> seen # DataSeen(seen) \/ x[1] = "code"
             /\ more # DataSeen(more) => Cardinality(DataSeen(more)) < Cardinality(more)
<1> DEFINE more == seen \cup {x}
<1>1. /\ IsFiniteSet(more) /\ Cardinality(seen) \in Nat
      /\ Cardinality(more) = Cardinality(seen) + 1
  BY FS_AddElement, FS_CardinalityType
<1>2. DataSeen(seen) \subseteq seen /\ DataSeen(more) \subseteq more
  BY DEF DataSeen
<1>3. IsFiniteSet(DataSeen(seen)) /\ IsFiniteSet(DataSeen(more))
  BY <1>1, <1>2, FS_Subset
<1>4. /\ Cardinality(DataSeen(seen)) \in Nat /\ Cardinality(DataSeen(more)) \in Nat
      /\ Cardinality(more) \in Nat
  BY <1>1, <1>3, FS_CardinalityType
<1>5. x[1] = "data" => DataSeen(more) = DataSeen(seen) \cup {x} /\ x \notin DataSeen(seen)
  BY DEF DataSeen
<1>6. x[1] = "code" => DataSeen(more) = DataSeen(seen) /\ x \notin DataSeen(more)
  BY DEF DataSeen
<1>7. x[1] \in {"data", "code"}
  OBVIOUS
<1>8. Cardinality(DataSeen(more)) = Cardinality(DataSeen(seen)) + (IF x[1] = "data" THEN 1 ELSE 0)
  <2>1. CASE x[1] = "data"
    BY <2>1, <1>3, <1>5, FS_AddElement
  <2>2. CASE x[1] = "code"
    BY <2>2, <1>4, <1>6
  <2> QED
    BY <1>7, <2>1, <2>2
<1>9. more # DataSeen(more) <=> seen # DataSeen(seen) \/ x[1] = "code"
  <2>1. \A S : S = DataSeen(S) <=> \A y \in S : y[1] = "data"
    BY DEF DataSeen
  <2>2. (\A y \in more : y[1] = "data") <=> (\A y \in seen : y[1] = "data") /\ x[1] = "data"
    OBVIOUS
  <2>3. x[1] = "code" <=> x[1] # "data"
    BY <1>7
  <2> QED
    BY <2>1, <2>2, <2>3
<1>10. more # DataSeen(more) => Cardinality(DataSeen(more)) < Cardinality(more)
  <2>1. Cardinality(DataSeen(more)) <= Cardinality(more)
    BY <1>1, <1>2, FS_Subset
  <2>2. Cardinality(DataSeen(more)) = Cardinality(more) => DataSeen(more) = more
    BY <1>1, <1>2, FS_Subset
  <2> QED
    BY <1>4, <2>1, <2>2
<1> HIDE DEF more
<1> QED
  BY <1>1, <1>4, <1>8, <1>9, <1>10 DEF more

(* What one more record of a set does to its SetState, ...                  *)
Notes(sh, now) ==
  LET st == SetAt(<<sh.slot, sh.fec>>)
      next == Follow(sh, now + 1)
  IN  /\ SetInv(next, now + 1)
      /\ next.seen = st.seen \cup {Seen(sh)}
      /\ next.threshold_at = now + 1 <=> Crosses(st, sh)
      /\ Crosses(st, sh) =>
           next.missing_at_threshold = K - Cardinality(DataSeen(next.seen))

(* ... as Follow does it.                                                   *)
LEMMA FollowInv ==
  ASSUME NEW sh, sh.kind \in {"data", "code"}, sh.pos \in Nat, NEW now \in Nat,
         SetInv(SetAt(<<sh.slot, sh.fec>>), now)
  PROVE  Notes(sh, now)
<1> DEFINE st == SetAt(<<sh.slot, sh.fec>>)
           next == Follow(sh, now + 1)
           x == Seen(sh)
           at == Len(next.arrivals) = K /\ next.first_code_at # None
<1>1. SetInv(st, now) /\ st \in SetState
  BY DEF SetInv
<1>2. next = IF x \in st.seen THEN st ELSE Noted(st, sh, now + 1)
  BY DEF Follow
<1>3. x \in {"data", "code"} \X Nat /\ x[1] = sh.kind
  BY GeometryAssumption DEF Seen
<1> HIDE DEF st, x
<1>4. /\ K \in Nat /\ None \notin Nat /\ now + 1 \in Nat /\ now + 1 # None
      /\ IsFiniteSet(st.seen)
  BY <1>1, GeometryAssumption, AnalysisAssumption DEF SetInv
<1>5. /\ st.seen \in SUBSET ({"data", "code"} \X Nat) /\ st.arrivals \in Seq(Nat)
      /\ st.num_data \in Nat /\ st.missing_at_threshold \in Int
      /\ st.first_code_at \in Nat \cup {None} /\ st.data_complete_at \in Nat \cup {None}
      /\ st.threshold_at \in Nat \cup {None}
  BY <1>1 DEF SetState
<1>6. CASE x \in st.seen
  <2>1. next = st /\ ~Crosses(st, sh) /\ st.seen \cup {x} = st.seen
    BY <1>2, <1>6 DEF Crosses, x
  <2>2. st.threshold_at # None => st.threshold_at \in Nat /\ st.threshold_at <= now
    BY <1>1, <1>4, <1>5 DEF SetInv
  <2>3. st.threshold_at # now + 1
    BY <1>4, <1>5, <2>2
  <2>4. SetInv(st, now + 1)
    BY <1>1, <2>2 DEF SetInv
  <2> QED
    BY <2>1, <2>3, <2>4 DEF Notes, st, x
<1>7. CASE x \notin st.seen
  <2>1. next = Noted(st, sh, now + 1)
    BY <1>2, <1>7
  <2> HIDE DEF next
  <2>2. /\ next.seen = st.seen \cup {x}
        /\ next.arrivals = Append(st.arrivals, now + 1)
        /\ next.num_data = IF sh.kind = "data" THEN st.num_data + 1 ELSE st.num_data
        /\ next.data_complete_at =
             IF sh.kind = "data" /\ st.num_data + 1 = K
             THEN now + 1 ELSE st.data_complete_at
        /\ next.first_code_at =
             IF sh.kind = "code" /\ st.first_code_at = None
             THEN now + 1 ELSE st.first_code_at
        /\ next.threshold_at = IF at THEN now + 1 ELSE st.threshold_at
        /\ next.missing_at_threshold = IF at THEN K - next.num_data ELSE st.missing_at_threshold
    <3>1. PICK t \in Nat : t = now + 1
      BY <1>4
    <3>2. x = Seen(sh)
      BY DEF x
    <3>3. next = Noted(st, sh, t)
      BY <2>1, <3>1
    <3> HIDE DEF x
    <3> QED
      BY <1>1, <3>1, <3>2, <3>3, ArrivedFields
  <2>3. next \in SetState
    BY <1>1, <1>3, <1>4, <1>5, <2>1, NotedIsState DEF x
  <2>4. /\ IsFiniteSet(next.seen) /\ Cardinality(st.seen) \in Nat
        /\ Cardinality(next.seen) = Cardinality(st.seen) + 1
        /\ Cardinality(DataSeen(st.seen)) \in Nat /\ Cardinality(DataSeen(next.seen)) \in Nat
        /\ Cardinality(DataSeen(next.seen)) =
             Cardinality(DataSeen(st.seen)) + (IF sh.kind = "data" THEN 1 ELSE 0)
        /\ next.seen # DataSeen(next.seen) <=> st.seen # DataSeen(st.seen) \/ sh.kind = "code"
        /\ next.seen # DataSeen(next.seen) =>
             Cardinality(DataSeen(next.seen)) < Cardinality(next.seen)
    <3>1. PICK seen \in SUBSET ({"data", "code"} \X Nat) : seen = st.seen
      BY <1>5
    <3>2. PICK y \in ({"data", "code"} \X Nat) \ seen : y = x
      BY <1>3, <1>7, <3>1
    <3>3. next.seen = seen \cup {y} /\ y[1] = sh.kind
      BY <1>3, <2>2, <3>1, <3>2
    <3>4. IsFiniteSet(seen)
      BY <1>4, <3>1
    <3> QED
      BY <3>1, <3>3, <3>4, SeenCounts
  <2>5. Len(next.arrivals) = Cardinality(next.seen)
    <3>1. Len(Append(st.arrivals, now + 1)) = Len(st.arrivals) + 1
      BY <1>4, <1>5
    <3> QED
      BY <1>1, <2>2, <2>4, <3>1 DEF SetInv
  <2>6. next.num_data = Cardinality(DataSeen(next.seen))
    BY <1>1, <2>2, <2>4 DEF SetInv
  <2>7. next.first_code_at # None <=> next.seen # DataSeen(next.seen)
    BY <1>1, <1>4, <1>5, <2>2, <2>4 DEF SetInv
  <2>8. at <=> Crosses(st, sh)
    BY <1>7, <2>2, <2>5, <2>7 DEF Crosses, x
  <2>9. Crosses(st, sh) => next.missing_at_threshold > 0
    <3> SUFFICES ASSUME Crosses(st, sh) PROVE next.missing_at_threshold > 0
      OBVIOUS
    <3>1. next.missing_at_threshold = K - next.num_data
      BY <2>2, <2>8
    <3>2. Cardinality(next.seen) = K /\ next.num_data < K /\ next.num_data \in Nat
      BY <2>4, <2>5, <2>6, <2>7, <2>8
    <3> QED
      BY <3>1, <3>2, <1>4
  <2>10. st.threshold_at # None =>
           st.threshold_at \in Nat /\ st.threshold_at <= now /\ st.missing_at_threshold > 0
    BY <1>1, <1>4, <1>5 DEF SetInv
  <2>11. next.threshold_at = now + 1 <=> Crosses(st, sh)
    BY <1>4, <1>5, <2>2, <2>8, <2>10
  <2>12. next.threshold_at # None => next.threshold_at <= now + 1 /\ next.missing_at_threshold > 0
    BY <1>4, <1>5, <2>2, <2>8, <2>9, <2>10
  <2>13. SetInv(next, now + 1)
    BY <2>3, <2>4, <2>5, <2>6, <2>7, <2>12 DEF SetInv
  <2> QED
    BY <2>2, <2>6, <2>8, <2>11, <2>13 DEF Notes, st, x, next
<1> QED
  BY <1>6, <1>7

(* The core counts with the same words.                                     *)
LEMMA SameCounting ==
  ASSUME NEW S
  PROVE  /\ (EP!IsFiniteSet(S) <=> IsFiniteSet(S)) /\ (WP!IsFiniteSet(S) <=> IsFiniteSet(S))
         /\ EP!Cardinality(S) = Cardinality(S) /\ WP!Cardinality(S) = Cardinality(S)
<1>1. (EP!IsFiniteSet(S) <=> IsFiniteSet(S)) /\ (WP!IsFiniteSet(S) <=> IsFiniteSet(S))
  BY DEF EP!IsFiniteSet, WP!IsFiniteSet, IsFiniteSet
<1>2. EP!Cardinality(S) = Cardinality(S) /\ WP!Cardinality(S) = Cardinality(S)
  BY DEF EP!Cardinality, WP!Cardinality, Cardinality
<1> QED
  BY <1>1, <1>2

-----------------------------------------------------------------------------
(* A record *)

(* What a record changes, in the words of the core's proofs.                *)
LEMMA RecordFacts ==
  ASSUME NEW p \in Packet, Record(p)
  PROVE  /\ n' = n + 1 /\ EP!Push(p) /\ WP!Push(p)
         /\ eager' = Times(eager, Decoded(e_out', "entries"), n + 1, e_tally')
         /\ waiting' = Times(waiting, Decoded(w_out', "entries"), n + 1, w_tally')
         /\ HeardSlots' = IF WellFormed(p) THEN HeardSlots \cup {p.slot} ELSE HeardSlots
         /\ DOMAIN sets' = IF WellFormed(p)
                           THEN DOMAIN sets \cup {<<p.slot, p.fec_set_index>>} ELSE DOMAIN sets
         /\ \A key : SetAt(key)' =
              IF WellFormed(p) /\ key = <<p.slot, p.fec_set_index>>
              THEN Follow(Parse(p), n + 1) ELSE SetAt(key)
<1> DEFINE sh == Parse(p)
           mine == <<p.slot, p.fec_set_index>>
<1>1. /\ n' = n + 1 /\ Eager!Push(p) /\ Waiting!Push(p)
      /\ eager' = Times(eager, Decoded(e_out', "entries"), n + 1, e_tally')
      /\ waiting' = Times(waiting, Decoded(w_out', "entries"), n + 1, w_tally')
  BY DEF Record
<1>2. EP!Push(p) /\ WP!Push(p)
  BY <1>1, SamePush
<1>3. sh.slot = p.slot /\ sh.fec = p.fec_set_index
  BY BaseWords
<1>4. sets' = IF WellFormed(p)
              THEN [k \in DOMAIN sets \cup {mine} |->
                      IF k = mine THEN Follow(sh, n + 1) ELSE sets[k]]
              ELSE sets
  BY <1>3 DEF Record
<1> DEFINE new == Follow(sh, n + 1)
<1>5. DOMAIN sets' = IF WellFormed(p) THEN DOMAIN sets \cup {mine} ELSE DOMAIN sets
  BY <1>4
<1>6. HeardSlots' = IF WellFormed(p) THEN HeardSlots \cup {p.slot} ELSE HeardSlots
  <2>1. mine[1] = p.slot
    OBVIOUS
  <2>2. HeardSlots' = {key[1] : key \in DOMAIN sets'} /\ HeardSlots = {key[1] : key \in DOMAIN sets}
    BY DEF HeardSlots
  <2> HIDE DEF mine
  <2> QED
    BY <1>5, <2>1, <2>2
<1> HIDE DEF mine, sh, new
<1>7. \A key : SetAt(key)' = IF key \in DOMAIN sets' THEN sets'[key] ELSE SetDefault
  BY DEF SetAt, SetDefault
<1>8. \A key : SetAt(key)' = IF WellFormed(p) /\ key = mine THEN new ELSE SetAt(key)
  BY <1>4, <1>7 DEF SetAt, new
<1> QED
  BY <1>1, <1>2, <1>5, <1>6, <1>8 DEF mine, sh, new

-----------------------------------------------------------------------------
(* The two policies side by side *)

(* The bit of a shred in seen_data or seen_code.                            *)
Bit(x) == <<x[1], x[3] % K>>

(* The shreds h heard of slot s are those its sets have seen.               *)
Tells(s, h) ==
  /\ \A x \in EP!Ideal({})!BlockShred : x \in h <=> Bit(x) \in SetAt(<<s, x[2]>>).seen
  /\ \A f : \A b \in SetAt(<<s, f>>).seen :
       \E x \in EP!Ideal({})!BlockShred : x[2] = f /\ Bit(x) = b

(* Both policies know slot s from the same shreds.                          *)
Shared(s, h) ==
  /\ EP!Coupled(Block(s), EP!SlotAt(s), h) /\ EP!SetsSound(EP!SlotAt(s), TRUE)
  /\ WP!Coupled(Block(s), WP!SlotAt(s), h) /\ WP!SetsSound(WP!SlotAt(s), FALSE)
  /\ SoundCapture => Tells(s, h)

(* A position has a bit of its own in seen_data or seen_code.               *)
LEMMA BitsApart ==
  ASSUME SoundCapture, NEW x \in EP!Ideal({})!BlockShred, NEW y \in EP!Ideal({})!BlockShred,
         x[2] = y[2], Bit(x) = Bit(y)
  PROVE  x = y
<1>1. K \in Nat /\ K > 0 /\ M \in Nat /\ M <= K
  BY GeometryAssumption DEF SoundCapture
<1>2. \A z \in EP!Ideal({})!BlockShred :
        /\ z = <<z[1], z[2], z[3]>> /\ z[3] \in Nat
        /\ \/ z[1] = "data" /\ z[3] < K
           \/ z[1] = "code" /\ z[3] >= K /\ z[3] - K < K
  <2> SUFFICES ASSUME NEW z \in EP!Ideal({})!BlockShred
               PROVE  /\ z = <<z[1], z[2], z[3]>> /\ z[3] \in Nat
                      /\ \/ z[1] = "data" /\ z[3] < K
                         \/ z[1] = "code" /\ z[3] >= K /\ z[3] - K < K
    OBVIOUS
  <2>1. CASE \E i \in 0 .. (NumSets - 1), q \in 0 .. (K - 1) : z = <<"data", K * i, q>>
    BY <2>1, <1>1
  <2>2. CASE \E i \in 0 .. (NumSets - 1), c \in 0 .. (M - 1) : z = <<"code", K * i, K + c>>
    BY <2>2, <1>1
  <2> QED
    BY <2>1, <2>2 DEF EP!Ideal!BlockShred
<1>3. \A a \in Nat : (a < K => a % K = a) /\ (a >= K /\ a - K < K => a % K = a - K)
  BY <1>1
<1>4. x[1] = y[1] /\ x[3] % K = y[3] % K
  BY DEF Bit
<1>5. x[3] = y[3]
  BY <1>1, <1>2, <1>3, <1>4
<1> QED
  BY <1>2, <1>4, <1>5

(* A record that parses is a shred, unless it names a set past the end of   *)
(* the slot.                                                                *)
LEMMA RecordIsShred ==
  ASSUME NEW p \in Packet, WellFormed(p)
  PROVE  /\ Parse(p).kind \in {"data", "code"} /\ Parse(p).pos \in Nat
         /\ ~Panics(Parse(p)) => /\ EP!IsShred(Parse(p)) /\ WP!IsShred(Parse(p))
                                 /\ <<Parse(p).kind, Parse(p).fec, Parse(p).pos>> \in
                                      EP!Ideal({})!BlockShred
<1>1. p \in EP!Datagram /\ p \in WP!Datagram
  BY CoreConstants DEF EP!PacketAssumption, WP!PacketAssumption
<1>2. /\ EP!WellFormed(p) /\ WP!WellFormed(p)
      /\ EP!Parse(p) = Parse(p) /\ WP!Parse(p) = Parse(p)
  BY BaseWords DEF EP!Accepted, WP!Accepted
<1>3. ASSUME ~Panics(Parse(p)) PROVE EP!IsShred(Parse(p)) /\ WP!IsShred(Parse(p))
  BY <1>1, <1>2, <1>3, BaseWords, CoreConstants, EP!ParseIsShred, WP!ParseIsShred
<1>4. ASSUME ~Panics(Parse(p))
      PROVE  <<Parse(p).kind, Parse(p).fec, Parse(p).pos>> \in EP!Ideal({})!BlockShred
  <2>1. <<Parse(p).kind, Parse(p).fec, Parse(p).pos>> \in EP!Ideal(EP!EndsOf({}))!BlockShred
    BY <1>3, <1>4, CoreConstants, EP!ShredInBlock
  <2> QED
    BY <2>1 DEF EP!Ideal!BlockShred
<1>5. Parse(p).kind \in {"data", "code"} /\ Parse(p).pos \in Nat
  <2>1. /\ p.index \in Nat /\ p.fec_set_index \in Nat /\ p.position \in Nat
        /\ p.variant \in {"data", "code"} /\ K \in Nat
        /\ p.variant = "data" => p.index >= p.fec_set_index
    BY AnalysisAssumption, GeometryAssumption DEF Datagram, WellFormed, DataHeaderOK
  <2>2. /\ Parse(p).kind = p.variant
        /\ Parse(p).pos = IF p.variant = "data" THEN p.index - p.fec_set_index ELSE K + p.position
    BY DEF Parse, ErasureShardIndex
  <2> QED
    BY <2>1, <2>2
<1> QED
  BY <1>3, <1>4, <1>5

(* What is heard with a record keeps to what was seen.                      *)
LEMMA TellsStep ==
  ASSUME SoundCapture, n \in Nat, NEW p \in Packet, Record(p), WellFormed(p),
         \A key : SetInv(SetAt(key), n), NEW h, Tells(p.slot, h)
  PROVE  Tells(p.slot, EP!HeardWith(h, Parse(p)))'
<1> DEFINE sh == Parse(p)
           y == <<sh.kind, sh.fec, sh.pos>>
           mine == <<p.slot, p.fec_set_index>>
           h2 == EP!HeardWith(h, sh)
<1>1. sh.root # None /\ ~Panics(sh) /\ sh.fec = p.fec_set_index /\ sh.slot = p.slot
  BY BaseWords DEF SoundCapture
<1>2. y \in EP!Ideal({})!BlockShred
  BY <1>1, RecordIsShred
<1>3. h2 = h \cup {y}
  BY <1>1 DEF EP!HeardWith
<1>4. \A key : SetAt(key)' = IF key = mine THEN Follow(sh, n + 1) ELSE SetAt(key)
  BY RecordFacts
<1>5. Follow(sh, n + 1).seen = SetAt(mine).seen \cup {Seen(sh)}
  <2>1. mine = <<sh.slot, sh.fec>> /\ SetInv(SetAt(<<sh.slot, sh.fec>>), n)
    <3>1. mine = <<sh.slot, sh.fec>>
      BY <1>1
    <3> QED
      BY <3>1
  <2>2. sh.kind \in {"data", "code"} /\ sh.pos \in Nat
    BY RecordIsShred
  <2> HIDE DEF mine, sh
  <2>3. Notes(sh, n)
    BY <2>1, <2>2, FollowInv
  <2> QED
    BY <2>1, <2>3 DEF Notes
<1>6. y[1] = sh.kind /\ y[2] = sh.fec /\ y[3] = sh.pos /\ Seen(sh) = Bit(y)
  BY DEF Seen, Bit
<1> DEFINE next == Follow(sh, n + 1)
<1>7. \A x \in EP!Ideal({})!BlockShred :
        (x \in h2) <=> (Bit(x) \in SetAt(<<p.slot, x[2]>>).seen')
  <2> SUFFICES ASSUME NEW x \in EP!Ideal({})!BlockShred
               PROVE  (x \in h2) <=> (Bit(x) \in SetAt(<<p.slot, x[2]>>).seen')
    OBVIOUS
  <2> DEFINE old == SetAt(<<p.slot, x[2]>>).seen
  <2>1. x \in h <=> Bit(x) \in old
    BY DEF Tells
  <2>2. SetAt(<<p.slot, x[2]>>).seen' = IF x[2] = y[2] THEN old \cup {Seen(sh)} ELSE old
    <3>1. SetAt(<<p.slot, x[2]>>)' =
            IF <<p.slot, x[2]>> = mine THEN next ELSE SetAt(<<p.slot, x[2]>>)
      BY <1>4
    <3>2. <<p.slot, x[2]>> = mine <=> x[2] = y[2]
      BY <1>1, <1>6
    <3> HIDE DEF mine, next, y, sh
    <3> QED
      BY <1>5, <3>1, <3>2 DEF next
  <2>3. x[2] = y[2] /\ Bit(x) = Seen(sh) => x = y
    BY <1>2, <1>6, BitsApart
  <2>4. x = y => x[2] = y[2] /\ Bit(x) = Seen(sh)
    BY <1>6
  <2> HIDE DEF old, y, h2
  <2> QED
    BY <2>1, <2>2, <2>3, <2>4, <1>3
<1>8. ASSUME NEW f, NEW b \in SetAt(<<p.slot, f>>).seen'
      PROVE  \E x \in EP!Ideal({})!BlockShred : x[2] = f /\ Bit(x) = b
  <2>1. CASE b \in SetAt(<<p.slot, f>>).seen
    BY <2>1 DEF Tells
  <2>2. CASE b \notin SetAt(<<p.slot, f>>).seen
    <3>1. <<p.slot, f>> = mine
      BY <1>4, <1>8, <2>2
    <3>2. f = y[2]
      BY <3>1, <1>1, <1>6
    <3>3. SetAt(<<p.slot, f>>)' = next
      BY <3>1, <1>4
    <3>4. b = Seen(sh)
      <4> HIDE DEF mine, next
      <4> QED
        BY <3>1, <3>3, <1>5, <1>8, <2>2 DEF next
    <3> QED
      BY <3>2, <3>4, <1>2, <1>6
  <2> QED
    BY <2>1, <2>2
<1> HIDE DEF h2, sh
<1> QED
  BY <1>7, <1>8 DEF Tells, h2, sh

(* A record keeps the policies together on a slot that neither has passed.  *)
LEMMA SharedStep ==
  ASSUME ConsistentCapture, EP!IInv, WP!IInv, n \in Nat, \A key : SetInv(SetAt(key), n),
         NEW p \in Packet, Record(p), IsFiniteSet(HeardSlots'), Few',
         DOMAIN e_slots \subseteq HeardSlots, DOMAIN w_slots \subseteq HeardSlots,
         NEW s \in 0 .. (W - 1), ~EP!Stale(s, e_highest'), ~WP!Stale(s, w_highest'),
         NEW h, Shared(s, h)
  PROVE  Shared(s, IF WellFormed(p) /\ p.slot = s /\ ~Panics(Parse(p))
                   THEN EP!HeardWith(h, Parse(p)) ELSE h)'
<1> DEFINE sh == Parse(p)
           mine == WellFormed(p) /\ p.slot = s /\ ~Panics(sh)
           S == Block(s)
<1>0. PICK D : D = HeardSlots'
  OBVIOUS
<1>1. /\ EP!Push(p) /\ WP!Push(p) /\ IsFiniteSet(D) /\ Cardinality(D) <= 4 * L
      /\ DOMAIN e_slots \subseteq D /\ DOMAIN w_slots \subseteq D
      /\ WellFormed(p) => p.slot \in D
      /\ EP!IsFiniteSet(D) /\ EP!Cardinality(D) = Cardinality(D)
      /\ WP!IsFiniteSet(D) /\ WP!Cardinality(D) = Cardinality(D)
  BY SameCounting, <1>0, RecordFacts DEF Few
<1>2. /\ EP!Parse(p) = sh /\ WP!Parse(p) = sh
      /\ (EP!Accepted(p) <=> WellFormed(p)) /\ (WP!Accepted(p) <=> WellFormed(p))
      /\ (EP!Panics(sh) <=> Panics(sh)) /\ (WP!Panics(sh) <=> Panics(sh))
  BY BaseWords
<1>3. s \in EP!SlotNumber /\ s \in WP!SlotNumber
  BY DEF EP!SlotNumber, WP!SlotNumber
<1>4. /\ ~EP!Stale(s, e_highest)
      /\ EP!SlotAt(s)' = IF mine THEN EP!SlotInsert(EP!SlotAt(s), sh, TRUE) ELSE EP!SlotAt(s)
  <2>1. /\ ~EP!Stale(s, e_highest)
        /\ EP!SlotAt(s)' =
             IF EP!Accepted(p) /\ p.slot = s /\ ~EP!Panics(EP!Parse(p))
             THEN EP!SlotInsert(EP!SlotAt(s), EP!Parse(p), TRUE) ELSE EP!SlotAt(s)
    BY <1>1, <1>2, <1>3, CoreConstants, EP!PushKeeps
  <2> QED
    BY <1>2, <2>1
<1>5. /\ ~WP!Stale(s, w_highest)
      /\ WP!SlotAt(s)' = IF mine THEN WP!SlotInsert(WP!SlotAt(s), sh, FALSE) ELSE WP!SlotAt(s)
  <2>1. /\ ~WP!Stale(s, w_highest)
        /\ WP!SlotAt(s)' =
             IF WP!Accepted(p) /\ p.slot = s /\ ~WP!Panics(WP!Parse(p))
             THEN WP!SlotInsert(WP!SlotAt(s), WP!Parse(p), FALSE) ELSE WP!SlotAt(s)
    BY <1>1, <1>2, <1>3, CoreConstants, WP!PushKeeps
  <2> QED
    BY <1>2, <2>1
<1>6. EP!SlotInv(EP!SlotAt(s)) /\ WP!SlotInv(WP!SlotAt(s))
  BY <1>3, <1>4, <1>5, CoreConstants, EP!NewSlotIsFresh, WP!NewSlotIsFresh
<1>7. EP!Consistent(S) /\ WP!Consistent(S)
  BY BlocksConsistent
<1>8. /\ EP!Coupled(S, EP!SlotAt(s), h) /\ EP!SetsSound(EP!SlotAt(s), TRUE)
      /\ WP!Coupled(S, WP!SlotAt(s), h) /\ WP!SetsSound(WP!SlotAt(s), FALSE)
      /\ SoundCapture => Tells(s, h)
  BY DEF Shared
<1>9. EP!HeardWith(h, sh) = WP!HeardWith(h, sh)
  BY DEF EP!HeardWith, WP!HeardWith
<1>10. CASE mine
  <2>1. EP!IsShred(sh) /\ WP!IsShred(sh) /\ (sh.root # None => sh \in S)
    BY <1>10, RecordIsShred, ShredOfBlock
  <2> DEFINE h2 == EP!HeardWith(h, sh)
             e2 == EP!SlotInsert(EP!SlotAt(s), sh, TRUE)
             w2 == WP!SlotInsert(WP!SlotAt(s), sh, FALSE)
  <2> HIDE DEF S, sh
  <2>2. EP!Coupled(S, e2, h2) /\ EP!SetsSound(e2, TRUE)
    BY <2>1, <1>6, <1>7, <1>8, CoreConstants, EP!InsertCoupled, EP!SlotInsertSound
  <2>3. WP!Coupled(S, w2, h2) /\ WP!SetsSound(w2, FALSE)
    BY <2>1, <1>6, <1>7, <1>8, <1>9, CoreConstants, WP!InsertCoupled, WP!SlotInsertSound
  <2>4. EP!SlotAt(s)' = e2 /\ WP!SlotAt(s)' = w2
    BY <1>4, <1>5, <1>10
  <2>5. SoundCapture => Tells(s, h2)'
    BY <1>8, <1>10, TellsStep DEF sh
  <2> HIDE DEF e2, w2, h2
  <2>6. Shared(s, h2)'
    BY <2>2, <2>3, <2>4, <2>5 DEF Shared, S
  <2> QED
    BY <2>6, <1>10 DEF h2, sh
<1>11. CASE ~mine
  <2>1. SoundCapture => Tells(s, h)'
    <3> SUFFICES ASSUME SoundCapture PROVE Tells(s, h)'
      OBVIOUS
    <3>1. WellFormed(p) => p.slot # s
      BY <1>11 DEF SoundCapture
    <3>2. \A f : SetAt(<<s, f>>)' = SetAt(<<s, f>>)
      BY <3>1, RecordFacts
    <3> QED
      BY <3>2, <1>8 DEF Tells
  <2>2. EP!SlotAt(s)' = EP!SlotAt(s) /\ WP!SlotAt(s)' = WP!SlotAt(s)
    BY <1>4, <1>5, <1>11
  <2>3. Shared(s, h)'
    BY <2>1, <2>2, <1>8 DEF Shared
  <2> QED
    BY <2>3, <1>11
<1> QED
  BY <1>10, <1>11

-----------------------------------------------------------------------------
(* The inductive invariant *)

(* The SetStates have followed the records, and the maps hold only slots    *)
(* that were heard of.                                                      *)
CaptureInv ==
  /\ n \in Nat
  /\ \A key \in DOMAIN sets : SetInv(sets[key], n)
  /\ IsFiniteSet(HeardSlots)
  /\ DOMAIN e_slots \subseteq HeardSlots /\ DOMAIN w_slots \subseteq HeardSlots

(* The window of the waiting policy is never ahead, and what either knows   *)
(* of a slot that recovery has not passed follows from the same shreds.     *)
PolicyInv ==
  Few =>
    /\ w_highest <= e_highest
    /\ \A s \in 0 .. (W - 1) : ~EP!Stale(s, e_highest) => \E h : Shared(s, h)

(* The core's own invariant of either pass.                                 *)
CoreInv == EP!IInv /\ EP!ExactlyOnce /\ WP!IInv /\ WP!ExactlyOnce

(* The inductive invariant.                                                 *)
AInv == CoreInv /\ CaptureInv /\ PolicyInv

(* Also a set that is not in the map keeps the invariant of its kind.       *)
LEMMA EverySetInv ==
  ASSUME CaptureInv
  PROVE  \A key : SetInv(SetAt(key), n)
BY DefaultSetInv DEF CaptureInv, SetAt

(* The bound of the window, in either vocabulary.                           *)
LEMMA Bounds ==
  ASSUME CoreInv
  PROVE  /\ e_highest \in Nat /\ w_highest \in Nat
         /\ \A s \in 0 .. (W - 1), hi \in Nat :
              /\ WP!Stale(s, hi) <=> EP!Stale(s, hi)
              /\ \A lo \in Nat : lo <= hi /\ EP!Stale(s, lo) => EP!Stale(s, hi)
              /\ s + L < W /\ hi <= s => ~EP!Stale(s, hi)
<1>1. W \in Nat \ {0} /\ L \in Nat
  BY AnalysisAssumption
<1>2. e_highest \in Nat /\ w_highest \in Nat
  BY <1>1 DEF CoreInv, EP!IInv, EP!MapInv, EP!SlotNumber, WP!IInv, WP!MapInv, WP!SlotNumber
<1>3. \A s \in 0 .. (W - 1) : (s + L) % W \in Nat /\ (s + L < W => (s + L) % W = s + L)
  BY <1>1
<1> SUFFICES ASSUME NEW s \in 0 .. (W - 1), NEW hi \in Nat
             PROVE  /\ WP!Stale(s, hi) <=> EP!Stale(s, hi)
                    /\ \A lo \in Nat : lo <= hi /\ EP!Stale(s, lo) => EP!Stale(s, hi)
                    /\ s + L < W /\ hi <= s => ~EP!Stale(s, hi)
  BY <1>2
<1>4. \A x : (EP!Stale(s, x) <=> (s + L) % W < x) /\ (WP!Stale(s, x) <=> (s + L) % W < x)
  BY DEF EP!Stale, WP!Stale, EP!Add, WP!Add
<1> QED
  BY <1>1, <1>3, <1>4

(* Nothing was read.                                                        *)
LEMMA InitAInv == Init => AInv
<1> SUFFICES ASSUME Init PROVE AInv
  OBVIOUS
<1>1. EP!Init /\ WP!Init
  BY SamePush DEF Init
<1>2. EP!IInv /\ WP!IInv
  BY <1>1, CoreConstants, EP!InitIInv, WP!InitIInv
<1>3. /\ DOMAIN e_slots = {} /\ e_highest = 0 /\ e_out = {} /\ e_emitted = {}
      /\ DOMAIN w_slots = {} /\ w_highest = 0 /\ w_out = {} /\ w_emitted = {}
  BY <1>1 DEF EP!Init, WP!Init
<1>4. EP!ExactlyOnce /\ WP!ExactlyOnce
  BY <1>3 DEF EP!ExactlyOnce, WP!ExactlyOnce
<1>5. n = 0 /\ DOMAIN sets = {} /\ HeardSlots = {}
  BY DEF Init, Empty, HeardSlots
<1>6. CaptureInv
  BY <1>3, <1>5, FS_EmptySet DEF CaptureInv
<1>7. ASSUME NEW s PROVE Shared(s, {})
  <2>1. EP!SlotAt(s) = EP!SlotDefault /\ WP!SlotAt(s) = WP!SlotDefault
    BY <1>3 DEF EP!SlotAt, WP!SlotAt
  <2>2. /\ EP!Coupled(Block(s), EP!SlotDefault, {}) /\ EP!SetsSound(EP!SlotDefault, TRUE)
        /\ WP!Coupled(Block(s), WP!SlotDefault, {}) /\ WP!SetsSound(WP!SlotDefault, FALSE)
    BY CoreConstants, EP!DefaultCoupled, WP!DefaultCoupled
  <2>3. Tells(s, {})
    <3>1. \A key : SetAt(key).seen = {}
      BY <1>5 DEF SetAt, SetDefault
    <3> QED
      BY <3>1 DEF Tells
  <2> QED
    BY <2>1, <2>2, <2>3 DEF Shared
<1>8. PolicyInv
  BY <1>3, <1>7 DEF PolicyInv
<1> QED
  BY <1>2, <1>4, <1>6, <1>8 DEF AInv, CoreInv

(* What was heard decides what either policy has handed out; and recovery   *)
(* hands out what waiting does.                                             *)
LEMMA BuiltBoth ==
  ASSUME ConsistentCapture, CoreInv, NEW s \in 0 .. (W - 1), NEW h, Shared(s, h),
         ~EP!Stale(s, e_highest), ~WP!Stale(s, w_highest)
  PROVE  /\ EP!BuiltOf(s) = EP!Ideal(EP!EndsOf(Block(s)))!Deliverable(h)
         /\ WP!BuiltOf(s) = WP!Ideal(WP!EndsOf(Block(s)))!Deliverable(h)
         /\ WP!BuiltOf(s) \subseteq EP!BuiltOf(s)
<1> DEFINE S == Block(s)
<1>1. EP!Consistent(S) /\ WP!Consistent(S)
  BY BlocksConsistent
<1>2. s \in EP!SlotNumber /\ s \in WP!SlotNumber
  BY DEF EP!SlotNumber, WP!SlotNumber
<1>3. /\ EP!Coupled(S, EP!SlotAt(s), h) /\ EP!SetsSound(EP!SlotAt(s), TRUE)
      /\ WP!Coupled(S, WP!SlotAt(s), h) /\ WP!SetsSound(WP!SlotAt(s), FALSE)
  BY DEF Shared
<1>4. EP!EndsOf(S) = WP!EndsOf(S)
  BY DEF EP!EndsOf, WP!EndsOf
<1> HIDE DEF S
<1>5. EP!BuiltOf(s) = EP!Ideal(EP!EndsOf(S))!Deliverable(h)
  BY <1>1, <1>2, <1>3, CoreConstants, EP!BuiltIsDeliverable DEF CoreInv
<1>6. WP!BuiltOf(s) = WP!Ideal(WP!EndsOf(S))!Deliverable(h)
  BY <1>1, <1>2, <1>3, CoreConstants, WP!BuiltIsDeliverable DEF CoreInv
<1>7. \A E : WP!Ideal(E)!Deliverable(h) \subseteq EP!Ideal(E)!Deliverable(h)
  <2> TAKE E
  <2>1. WP!Ideal(E)!Runs = EP!Ideal(E)!Runs
    BY DEF EP!Ideal!Runs, WP!Ideal!Runs, EP!Ideal!DataIndex, WP!Ideal!DataIndex
  <2>2. WP!Ideal(E)!Available(h) \subseteq EP!Ideal(E)!Available(h)
    BY DEF EP!Ideal!Available, WP!Ideal!Available, EP!Ideal!DataIndex, WP!Ideal!DataIndex
  <2> QED
    BY <2>1, <2>2 DEF EP!Ideal!Deliverable, WP!Ideal!Deliverable
<1> QED
  BY <1>4, <1>5, <1>6, <1>7 DEF S

(* A record keeps the capture followed.                                     *)
LEMMA CaptureStep ==
  ASSUME CoreInv, CaptureInv, NEW p \in Packet, Record(p)
  PROVE  CaptureInv' /\ HeardSlots \subseteq HeardSlots'
<1> DEFINE mine == <<p.slot, p.fec_set_index>>
<1>1. /\ n' = n + 1 /\ EP!Push(p) /\ WP!Push(p)
      /\ HeardSlots' = IF WellFormed(p) THEN HeardSlots \cup {p.slot} ELSE HeardSlots
      /\ DOMAIN sets' = IF WellFormed(p) THEN DOMAIN sets \cup {mine} ELSE DOMAIN sets
      /\ \A key : SetAt(key)' =
           IF WellFormed(p) /\ key = mine THEN Follow(Parse(p), n + 1) ELSE SetAt(key)
  BY RecordFacts
<1>2. n \in Nat /\ n' \in Nat /\ IsFiniteSet(HeardSlots) /\ n + 1 \in Nat
  BY <1>1 DEF CaptureInv
<1>3. IsFiniteSet(HeardSlots')
  BY <1>1, <1>2, FS_AddElement
<1>4. DOMAIN e_slots' \subseteq HeardSlots' /\ DOMAIN w_slots' \subseteq HeardSlots'
  <2>1. /\ \A s \in DOMAIN e_slots' : s \in DOMAIN e_slots \/ (EP!Accepted(p) /\ s = p.slot)
        /\ \A s \in DOMAIN w_slots' : s \in DOMAIN w_slots \/ (WP!Accepted(p) /\ s = p.slot)
    BY <1>1, CoreConstants, EP!PushMoves, WP!PushMoves DEF CoreInv
  <2>2. (EP!Accepted(p) <=> WellFormed(p)) /\ (WP!Accepted(p) <=> WellFormed(p))
    BY BaseWords
  <2> QED
    BY <1>1, <2>1, <2>2 DEF CaptureInv
<1>5. \A st : SetInv(st, n) => SetInv(st, n + 1)
  <2> SUFFICES ASSUME NEW st, SetInv(st, n) PROVE SetInv(st, n + 1)
    OBVIOUS
  <2>1. st.threshold_at # None =>
          st.threshold_at \in Nat /\ st.threshold_at <= n /\ st.missing_at_threshold > 0
    BY DEF SetInv, SetState
  <2>2. st.threshold_at # None => st.threshold_at <= n + 1
    BY <1>2, <2>1
  <2> QED
    BY <2>1, <2>2 DEF SetInv
<1>6. WellFormed(p) => SetInv(Follow(Parse(p), n + 1), n + 1)
  <2> SUFFICES ASSUME WellFormed(p) PROVE SetInv(Follow(Parse(p), n + 1), n + 1)
    OBVIOUS
  <2>1. PICK sh : sh = Parse(p)
    OBVIOUS
  <2>2. sh.kind \in {"data", "code"} /\ sh.pos \in Nat
    BY <2>1, RecordIsShred
  <2>3. SetInv(SetAt(<<sh.slot, sh.fec>>), n)
    BY EverySetInv
  <2>4. Notes(sh, n)
    BY <1>2, <2>2, <2>3, FollowInv
  <2> QED
    BY <2>1, <2>4 DEF Notes
<1>7. \A key \in DOMAIN sets' : SetInv(sets'[key], n + 1)
  <2> TAKE key \in DOMAIN sets'
  <2>1. SetAt(key)' = sets'[key]
    BY DEF SetAt
  <2>2. SetInv(SetAt(key), n)
    BY EverySetInv
  <2>3. SetAt(key)' = SetAt(key) \/ (WellFormed(p) /\ SetAt(key)' = Follow(Parse(p), n + 1))
    BY <1>1
  <2>4. SetInv(SetAt(key), n + 1)
    BY <2>2, <1>5
  <2> QED
    BY <2>1, <2>3, <2>4, <1>6
<1> QED
  BY <1>1, <1>2, <1>3, <1>4, <1>7 DEF CaptureInv, SetInv

(* The last of these, ...                                                   *)
Ahead ==
  \A s \in 0 .. (W - 1) : \A h :
    ConsistentCapture /\ CoreInv /\ Shared(s, h) /\ ~EP!Stale(s, e_highest)
    /\ ~WP!Stale(s, w_highest) => WP!BuiltOf(s) \subseteq EP!BuiltOf(s)

(* ... of the state after a step.                                           *)
LEMMA AheadAfter == Ahead'
<1>1. Ahead
  BY BuiltBoth DEF Ahead
<1> QED
  BY <1>1, PTL

(* Slots are never fewer than before.                                       *)
LEMMA FewBefore ==
  ASSUME CaptureInv, CaptureInv', HeardSlots \subseteq HeardSlots', Few'
  PROVE  Few
<1>1. IsFiniteSet(HeardSlots') /\ IsFiniteSet(HeardSlots) /\ Cardinality(HeardSlots') <= 4 * L
  BY DEF CaptureInv, Few
<1>2. Cardinality(HeardSlots) <= Cardinality(HeardSlots')
  BY <1>1, FS_Subset
<1>3. Cardinality(HeardSlots) \in Nat /\ Cardinality(HeardSlots') \in Nat /\ L \in Nat
  BY <1>1, FS_CardinalityType, AnalysisAssumption
<1> QED
  BY <1>1, <1>2, <1>3 DEF Few

(* A record keeps the policies together.                                    *)
LEMMA PolicyStep ==
  ASSUME ConsistentCapture, CoreInv, CoreInv', CaptureInv, CaptureInv',
         HeardSlots \subseteq HeardSlots', PolicyInv, NEW p \in Packet, Record(p)
  PROVE  PolicyInv'
<1> SUFFICES ASSUME Few'
             PROVE  /\ w_highest' <= e_highest'
                    /\ \A s \in 0 .. (W - 1) :
                         ~EP!Stale(s, e_highest') => \E h : Shared(s, h)'
  BY DEF PolicyInv
<1>1. Few
  BY FewBefore
<1>2. /\ w_highest <= e_highest
      /\ \A s \in 0 .. (W - 1) : ~EP!Stale(s, e_highest) => \E h : Shared(s, h)
  BY <1>1 DEF PolicyInv
<1>3. /\ e_highest \in Nat /\ w_highest \in Nat /\ e_highest' \in Nat /\ w_highest' \in Nat
      /\ \A s \in 0 .. (W - 1), hi \in Nat :
           /\ WP!Stale(s, hi) <=> EP!Stale(s, hi)
           /\ \A lo \in Nat : lo <= hi /\ EP!Stale(s, lo) => EP!Stale(s, hi)
           /\ s + L < W /\ hi <= s => ~EP!Stale(s, hi)
  <2>1. e_highest' \in Nat /\ w_highest' \in Nat
    BY AnalysisAssumption
    DEF CoreInv, EP!IInv, EP!MapInv, EP!SlotNumber, WP!IInv, WP!MapInv, WP!SlotNumber
  <2> QED
    BY <2>1, Bounds
<1>4. /\ \/ e_highest' = e_highest
         \/ WellFormed(p) /\ e_highest' = p.slot /\ p.slot > e_highest
      /\ \/ w_highest' = w_highest
         \/ WellFormed(p) /\ w_highest' = p.slot /\ p.slot > w_highest
      /\ p.slot \in 0 .. (W - 1)
  <2>1. /\ \/ e_highest' = e_highest
           \/ EP!Accepted(p) /\ e_highest' = p.slot /\ p.slot > e_highest
        /\ \/ w_highest' = w_highest
           \/ WP!Accepted(p) /\ w_highest' = p.slot /\ p.slot > w_highest
    BY RecordFacts, CoreConstants, EP!PushMoves, WP!PushMoves DEF CoreInv
  <2> QED
    BY <2>1, BaseWords
<1>5. ASSUME NEW s \in 0 .. (W - 1), ~EP!Stale(s, e_highest'), ~WP!Stale(s, w_highest')
      PROVE  \E h : Shared(s, h)'
  <2>1. ~EP!Stale(s, e_highest)
    BY <1>3, <1>4, <1>5
  <2>2. PICK h : Shared(s, h)
    BY <1>2, <2>1
  <2>3. PICK h2 : h2 = IF WellFormed(p) /\ p.slot = s /\ ~Panics(Parse(p))
                       THEN EP!HeardWith(h, Parse(p)) ELSE h
    OBVIOUS
  <2>4. Shared(s, IF WellFormed(p) /\ p.slot = s /\ ~Panics(Parse(p))
                  THEN EP!HeardWith(h, Parse(p)) ELSE h)'
    BY <1>5, <2>2, EverySetInv, SharedStep DEF CoreInv, CaptureInv
  <2> QED
    BY <2>3, <2>4
<1>6. w_highest' <= e_highest'
  <2>1. CASE w_highest' = w_highest
    BY <2>1, <1>2, <1>3, <1>4
  <2>2. CASE w_highest' # w_highest /\ p.slot <= e_highest
    BY <2>2, <1>3, <1>4
  <2>3. CASE w_highest' # w_highest /\ p.slot > e_highest
    <3> DEFINE t == p.slot
    <3>1. WellFormed(p) /\ w_highest' = t /\ t > w_highest /\ t \in 0 .. (W - 1) /\ t \in Nat
      BY <2>3, <1>4
    <3>2. t + L < W
      BY <3>1 DEF ConsistentCapture
    <3>3. e_highest' <= t /\ w_highest' <= t
      BY <2>3, <3>1, <1>3, <1>4
    <3>4. ~EP!Stale(t, e_highest') /\ ~WP!Stale(t, w_highest')
      BY <3>1, <3>2, <3>3, <1>3
    <3>5. PICK h : Shared(t, h)'
      BY <3>1, <3>4, <1>5
    <3>6. (WP!BuiltOf(t) \subseteq EP!BuiltOf(t))'
      BY <3>1, <3>4, <3>5, AheadAfter DEF Ahead
    <3>7. PICK r \in WP!AllHanded' : r[1] = t
      BY <3>1, <1>3 DEF CoreInv, WP!IInv, WP!HandedInv
    <3>8. <<r[2], r[3]>> \in WP!BuiltOf(t)'
      BY <3>7 DEF WP!BuiltOf
    <3>9. PICK q \in EP!AllHanded' : q[1] = t
      BY <3>6, <3>8 DEF EP!BuiltOf
    <3>10. t <= e_highest'
      BY <3>9 DEF CoreInv, EP!IInv, EP!HandedInv
    <3> QED
      BY <3>1, <3>10
  <2> QED
    BY <2>1, <2>2, <2>3, <1>3, <1>4
<1>7. ASSUME NEW s \in 0 .. (W - 1), ~EP!Stale(s, e_highest')
      PROVE  \E h : Shared(s, h)'
  <2>1. ~WP!Stale(s, w_highest')
    BY <1>3, <1>6, <1>7
  <2> QED
    BY <1>5, <1>7, <2>1
<1> QED
  BY <1>6, <1>7

(* The invariant holds in every reachable state.                            *)
LEMMA SpecAInv ==
  ASSUME L >= 1, ConsistentCapture
  PROVE  Spec => []AInv
<1>1. ASSUME AInv, [Next]_vars PROVE AInv'
  <2>1. CASE UNCHANGED vars
    <3>1. /\ UNCHANGED <<n, sets>>
          /\ UNCHANGED <<e_slots, e_highest, e_out, e_emitted, e_tally, e_panicked>>
          /\ UNCHANGED <<w_slots, w_highest, w_out, w_emitted, w_tally, w_panicked>>
      BY <2>1 DEF vars, eagerVars, waitingVars
    <3>2. UNCHANGED EP!vars /\ UNCHANGED WP!vars
      BY <3>1 DEF EP!vars, WP!vars
    <3>3. CoreInv'
      BY <1>1, <3>2, CoreConstants, EP!StepIInv, WP!StepIInv DEF AInv, CoreInv
    <3>4. HeardSlots' = HeardSlots /\ (Few' <=> Few) /\ \A key : SetAt(key)' = SetAt(key)
      BY <3>1 DEF HeardSlots, Few, SetAt
    <3>5. CaptureInv'
      BY <1>1, <3>1, <3>4 DEF AInv, CaptureInv, SetInv
    <3>6. \A s : EP!SlotAt(s)' = EP!SlotAt(s) /\ WP!SlotAt(s)' = WP!SlotAt(s)
      BY <3>1 DEF EP!SlotAt, WP!SlotAt
    <3>7. \A s, h : Shared(s, h) => Shared(s, h)'
      BY <3>4, <3>6 DEF Shared, Tells
    <3>8. PolicyInv'
      BY <1>1, <3>1, <3>4, <3>7 DEF AInv, PolicyInv
    <3> QED
      BY <3>3, <3>5, <3>8 DEF AInv
  <2>2. ASSUME NEW p \in Packet, Record(p) PROVE AInv'
    <3>1. EP!Next /\ WP!Next
      BY <2>2, RecordFacts DEF EP!Next, WP!Next
    <3>2. CoreInv'
      BY <1>1, <3>1, CoreConstants, EP!StepIInv, WP!StepIInv DEF AInv, CoreInv
    <3>3. CaptureInv' /\ HeardSlots \subseteq HeardSlots'
      BY <1>1, <2>2, CaptureStep DEF AInv
    <3>4. PolicyInv'
      BY <1>1, <2>2, <3>2, <3>3, PolicyStep DEF AInv
    <3> QED
      BY <3>2, <3>3, <3>4 DEF AInv
  <2> QED
    BY <1>1, <2>1, <2>2 DEF Next
<1> QED
  BY <1>1, InitAInv, PTL DEF Spec

(* In a capture of blocks that were shredded consistently, in no more slots *)
(* than the map holds, recovery hands out every batch that waiting does, by *)
(* the same record and with the same shred range, unless its own window has *)
(* passed the slot.                                                         *)
THEOREM AnalysisEagerIsNoLater ==
  ASSUME L >= 1, ConsistentCapture
  PROVE  Spec => []EagerIsNoLater
<1>1. AInv => EagerIsNoLater
  <2> SUFFICES ASSUME AInv, Few, NEW b \in Waiting!AllHanded, ~Eager!Stale(b[1], e_highest)
               PROVE  b \in Eager!AllHanded
    BY DEF EagerIsNoLater
  <2>1. b \in WP!AllHanded /\ ~EP!Stale(b[1], e_highest)
    BY SamePush
  <2>2. b \in (0 .. (W - 1)) \X Index \X Index
    BY <2>1 DEF AInv, CoreInv, WP!IInv, WP!HandedInv, WP!SlotNumber, WP!Index, Index,
      WP!MAX_SHREDS_PER_SLOT, MAX_SHREDS_PER_SLOT
  <2>3. b[1] \in 0 .. (W - 1) /\ b = <<b[1], b[2], b[3]>>
    BY <2>2
  <2>4. PICK s \in 0 .. (W - 1) : s = b[1]
    BY <2>3
  <2>5. ~EP!Stale(s, e_highest) /\ ~WP!Stale(s, w_highest) /\ CoreInv
    BY <2>1, <2>4, Bounds DEF AInv, PolicyInv
  <2>6. PICK h : Shared(s, h)
    BY <2>5 DEF AInv, PolicyInv
  <2>7. WP!BuiltOf(s) \subseteq EP!BuiltOf(s)
    BY <2>5, <2>6, BuiltBoth
  <2>8. <<b[2], b[3]>> \in WP!BuiltOf(s)
    BY <2>1, <2>4 DEF WP!BuiltOf
  <2>9. PICK q \in EP!AllHanded : q[1] = s /\ <<q[2], q[3]>> = <<b[2], b[3]>>
    BY <2>7, <2>8 DEF EP!BuiltOf
  <2>10. q = <<q[1], q[2], q[3]>>
    BY DEF AInv, CoreInv, EP!IInv, EP!HandedInv, EP!SlotNumber
  <2>11. q = b
    BY <2>3, <2>4, <2>9, <2>10
  <2> QED
    BY <2>11, SamePush
<1> QED
  BY <1>1, SpecAInv, PTL

-----------------------------------------------------------------------------
(* When the deshredder rebuilds *)

(* The bits of a set count its shreds.                                      *)
LEMMA BitsCount ==
  ASSUME SoundCapture, NEW f, NEW g, IsFiniteSet(g),
         \A x \in g : x \in EP!Ideal({})!BlockShred /\ x[2] = f,
         NEW seen, \A x \in g : Bit(x) \in seen,
         \A b \in seen : \E x \in g : Bit(x) = b
  PROVE  /\ Cardinality(g) = Cardinality(seen)
         /\ Cardinality(EP!DataOf(g)) = Cardinality(DataSeen(seen))
         /\ g # EP!DataOf(g) <=> seen # DataSeen(seen)
<1>1. \A x, y \in g : Bit(x) = Bit(y) => x = y
  BY BitsApart
<1>2. \A x : Bit(x)[1] = x[1]
  BY DEF Bit
<1>3. Cardinality(g) = Cardinality(seen)
  <2> DEFINE m == [x \in g |-> Bit(x)]
  <2>1. m \in [g -> seen] /\ \A x \in g : m[x] = Bit(x)
    OBVIOUS
  <2> HIDE DEF m
  <2>2. m \in Surjection(g, seen) /\ m \in Injection(g, seen)
    BY <1>1, <2>1 DEF Surjection, Injection, IsInjective
  <2> QED
    BY <2>2, FS_Surjection
<1>4. IsFiniteSet(EP!DataOf(g)) /\ EP!DataOf(g) \subseteq g
  <2>1. EP!DataOf(g) \subseteq g
    BY DEF EP!DataOf
  <2> QED
    BY <2>1, FS_Subset
<1>5. Cardinality(EP!DataOf(g)) = Cardinality(DataSeen(seen))
  <2> DEFINE d == EP!DataOf(g)
             e == DataSeen(seen)
             m == [x \in d |-> Bit(x)]
  <2>1. \A x \in d : Bit(x) \in e
    BY <1>2 DEF EP!DataOf, DataSeen
  <2>2. \A b \in e : \E x \in d : Bit(x) = b
    BY <1>2 DEF EP!DataOf, DataSeen
  <2>3. m \in [d -> e] /\ \A x \in d : m[x] = Bit(x)
    BY <2>1
  <2> HIDE DEF m, d, e
  <2>4. \A x, y \in d : Bit(x) = Bit(y) => x = y
    BY <1>1, <1>4 DEF d
  <2>5. m \in Surjection(d, e) /\ m \in Injection(d, e)
    BY <2>2, <2>3, <2>4 DEF Surjection, Injection, IsInjective
  <2>6. Cardinality(d) = Cardinality(e)
    BY <2>5, <1>4, FS_Surjection DEF d
  <2> QED
    BY <2>6 DEF d, e
<1>6. g # EP!DataOf(g) <=> seen # DataSeen(seen)
  <2>1. g = EP!DataOf(g) <=> \A x \in g : x[1] = "data"
    BY DEF EP!DataOf
  <2>2. seen = DataSeen(seen) <=> \A b \in seen : b[1] = "data"
    BY DEF DataSeen
  <2>3. (\A x \in g : x[1] = "data") <=> (\A b \in seen : b[1] = "data")
    BY <1>2
  <2> QED
    BY <2>1, <2>2, <2>3
<1> QED
  BY <1>3, <1>5, <1>6

(* The analysis and the slot agree on when a set can be rebuilt.            *)
LEMMA CrossesIsAtK ==
  ASSUME SoundCapture, n \in Nat, NEW p \in Packet, WellFormed(p),
         SetInv(SetAt(<<p.slot, p.fec_set_index>>), n),
         NEW h \in SUBSET EP!Ideal({})!BlockShred, Tells(p.slot, h)
  PROVE  LET sh == Parse(p)
             st == SetAt(<<p.slot, p.fec_set_index>>)
         IN  /\ EP!AtK(h, sh) <=> Crosses(st, sh)
             /\ EP!Lacking(h, sh) = K - Cardinality(DataSeen(st.seen \cup {Seen(sh)}))
<1> DEFINE sh == Parse(p)
           f == sh.fec
           st == SetAt(<<p.slot, f>>)
           y == <<sh.kind, f, sh.pos>>
           g == EP!HeardBy(h, sh)
           more == st.seen \cup {Seen(sh)}
<1>1. f = p.fec_set_index /\ ~Panics(sh)
  BY BaseWords DEF SoundCapture
<1>2. y \in EP!Ideal({})!BlockShred
  BY <1>1, RecordIsShred
<1>3. y[2] = f /\ Seen(sh) = Bit(y)
  BY DEF Seen, Bit
<1>4. g = {x \in h \cup {y} : x[2] = f}
  BY DEF EP!HeardBy, EP!HeardOf
<1>5. IsFiniteSet(st.seen)
  BY <1>1 DEF SetInv
<1>6. /\ \A x \in EP!Ideal({})!BlockShred : x[2] = f => (x \in h <=> Bit(x) \in st.seen)
      /\ \A b \in st.seen : \E x \in EP!Ideal({})!BlockShred : x[2] = f /\ Bit(x) = b
  <2>1. \A x \in EP!Ideal({})!BlockShred : x \in h <=> Bit(x) \in SetAt(<<p.slot, x[2]>>).seen
    BY DEF Tells
  <2>2. \A b \in SetAt(<<p.slot, f>>).seen :
          \E x \in EP!Ideal({})!BlockShred : x[2] = f /\ Bit(x) = b
    BY DEF Tells
  <2> QED
    BY <2>1, <2>2
<1> HIDE DEF st, y, g, sh
<1>7. IsFiniteSet(g)
  <2>1. h \cup {y} \in SUBSET EP!Ideal(EP!EndsOf({}))!BlockShred
    BY <1>2 DEF EP!Ideal!BlockShred
  <2>2. EP!IsFiniteSet(EP!HeardOf(h \cup {y}, f))
    BY <2>1, CoreConstants, EP!HeardFinite
  <2> QED
    BY <2>2, SameCounting DEF g, y, EP!HeardBy
<1>8. \A x \in g : x \in EP!Ideal({})!BlockShred /\ x[2] = f
  BY <1>2, <1>4
<1>9. \A x \in g : Bit(x) \in more
  BY <1>3, <1>4, <1>6
<1>10. \A b \in more : \E x \in g : Bit(x) = b
  <2> TAKE b \in more
  <2>1. CASE b = Seen(sh)
    BY <2>1, <1>3, <1>4
  <2>2. CASE b \in st.seen
    <3>1. PICK x \in EP!Ideal({})!BlockShred : x[2] = f /\ Bit(x) = b
      BY <2>2, <1>6
    <3> QED
      BY <2>2, <3>1, <1>4, <1>6
  <2> QED
    BY <2>1, <2>2
<1>11. /\ Cardinality(g) = Cardinality(more)
       /\ Cardinality(EP!DataOf(g)) = Cardinality(DataSeen(more))
       /\ g # EP!DataOf(g) <=> more # DataSeen(more)
  <2> HIDE DEF more, f
  <2> QED
    BY <1>7, <1>8, <1>9, <1>10, BitsCount
<1>12. y \in h <=> Seen(sh) \in st.seen
  BY <1>2, <1>3, <1>6
<1>13. EP!AtK(h, sh) <=> y \notin h /\ Cardinality(g) = K /\ g # EP!DataOf(g)
  BY SameCounting DEF EP!AtK, g, y
<1>14. EP!Lacking(h, sh) = K - Cardinality(EP!DataOf(g))
  BY SameCounting DEF EP!Lacking, g
<1>15. Crosses(st, sh) <=> Seen(sh) \notin st.seen /\ Cardinality(more) = K /\ more # DataSeen(more)
  BY DEF Crosses
<1>16. EP!AtK(h, sh) <=> Crosses(st, sh)
  BY <1>11, <1>12, <1>13, <1>15
<1>17. EP!Lacking(h, sh) = K - Cardinality(DataSeen(more))
  BY <1>11, <1>14
<1> QED
  BY <1>1, <1>16, <1>17 DEF st, sh

(* What a push counts as recovered.                                         *)
LEMMA RecoveredCounted ==
  ASSUME NEW p \in Packet, EP!Push(p)
  PROVE  \/ /\ e_tally'["recovered"] = 0
            /\ ~WellFormed(p) \/ EP!Stale(p.slot, e_highest') \/ Panics(Parse(p))
         \/ /\ WellFormed(p) /\ ~EP!Stale(p.slot, e_highest)
            /\ e_tally'["recovered"] =
                 IF EP!Verdict(EP!SlotAt(p.slot), Parse(p)) = "new"
                 THEN EP!Cardinality(EP!Recovered(EP!SlotAt(p.slot), Parse(p), TRUE)) ELSE 0
<1>1. /\ EP!Parse(p) = Parse(p) /\ Parse(p).slot = p.slot
      /\ (EP!Accepted(p) <=> WellFormed(p)) /\ (EP!Panics(Parse(p)) <=> Panics(Parse(p)))
  BY BaseWords
<1>2. \A names : "recovered" \notin names => EP!Count(names)["recovered"] = 0
  BY DEF EP!Count, EP!Counter
<1>3. CASE EP!PushInvalid(p) \/ EP!PushWrongVersion(p) \/ EP!PushStale(p)
  <2>1. e_tally'["recovered"] = 0
    BY <1>2, <1>3 DEF EP!PushInvalid, EP!PushWrongVersion, EP!PushStale, EP!Ignore, EP!Hand
  <2>2. ~EP!Accepted(p) \/ EP!Stale(p.slot, e_highest')
    BY <1>3 DEF EP!PushInvalid, EP!PushWrongVersion, EP!PushStale, EP!Accepted, EP!Ignore
  <2> QED
    BY <1>1, <2>1, <2>2
<1>4. CASE EP!PushPanics(p)
  BY <1>1, <1>2, <1>4 DEF EP!PushPanics, EP!Hand
<1>5. CASE EP!PushShred(p)
  <2> DEFINE st == EP!SlotAt(p.slot)
             sh == Parse(p)
             out == EP!Segments(st, sh, TRUE)
  <2>1. /\ EP!Accepted(p) /\ ~EP!Stale(p.slot, e_highest)
        /\ e_tally' = EP!InsertCounts(st, sh, out)
    BY <1>1, <1>5 DEF EP!PushShred, EP!Hand
  <2> HIDE DEF st, sh, out
  <2>2. EP!InsertCounts(st, sh, out)["recovered"] =
          IF EP!Verdict(st, sh) = "new"
          THEN EP!Cardinality(EP!Recovered(st, sh, TRUE)) ELSE 0
    BY DEF EP!InsertCounts, EP!Count, EP!Counter
  <2> QED
    BY <1>1, <2>1, <2>2 DEF st, sh
<1> QED
  BY <1>3, <1>4, <1>5 DEF EP!Push

(* What a slot rebuilds is what the analysis finds missing.                 *)
LEMMA RebuiltIsMissing ==
  ASSUME ConsistentCapture, SoundCapture, AInv, Few, NEW p \in Packet,
         WellFormed(p), ~EP!Stale(p.slot, e_highest)
  PROVE  LET sh == Parse(p)
             st == SetAt(<<p.slot, p.fec_set_index>>)
         IN  (IF EP!Verdict(EP!SlotAt(p.slot), sh) = "new"
              THEN EP!Cardinality(EP!Recovered(EP!SlotAt(p.slot), sh, TRUE)) ELSE 0) =
             (IF Crosses(st, sh)
              THEN K - Cardinality(DataSeen(st.seen \cup {Seen(sh)})) ELSE 0)
<1> DEFINE sh == Parse(p)
           mine == <<p.slot, p.fec_set_index>>
<1>1. n \in Nat /\ CoreInv /\ \A key : SetInv(SetAt(key), n)
  BY EverySetInv DEF AInv, CaptureInv
<1>2. PICK s \in 0 .. (W - 1) : s = p.slot
  BY BaseWords
<1>3. PICK h : Shared(s, h)
  BY <1>2 DEF AInv, PolicyInv
<1> DEFINE slot == EP!SlotAt(s)
<1>4. /\ EP!Coupled(Block(s), slot, h) /\ EP!SetsSound(slot, TRUE) /\ Tells(s, h)
  BY <1>3 DEF Shared
<1>5. EP!Consistent(Block(s)) /\ sh.root # None /\ sh \in Block(s) /\ EP!IsShred(sh)
  BY <1>2, BlocksConsistent, RecordIsShred, ShredOfBlock, BaseWords DEF SoundCapture
<1>6. EP!SlotInv(slot)
  <2>1. s \in EP!SlotNumber
    BY DEF EP!SlotNumber
  <2> QED
    BY <2>1, <1>1, <1>2, CoreConstants, EP!NewSlotIsFresh DEF CoreInv
<1>7. h \in SUBSET EP!Ideal({})!BlockShred
  <2>1. h \subseteq EP!Ideal(EP!EndsOf(Block(s)))!BlockShred
    BY <1>4 DEF EP!Coupled
  <2> QED
    BY <2>1 DEF EP!Ideal!BlockShred
<1>8. (IF EP!Verdict(slot, sh) = "new" THEN EP!Cardinality(EP!Recovered(slot, sh, TRUE)) ELSE 0) =
      (IF EP!AtK(h, sh) THEN EP!Lacking(h, sh) ELSE 0)
  <2> HIDE DEF slot, sh
  <2> QED
    BY <1>4, <1>5, <1>6, CoreConstants, EP!RebuildsAtK
<1>9. /\ EP!AtK(h, sh) <=> Crosses(SetAt(mine), sh)
      /\ EP!Lacking(h, sh) = K - Cardinality(DataSeen(SetAt(mine).seen \cup {Seen(sh)}))
  BY <1>1, <1>2, <1>4, <1>7, CrossesIsAtK
<1> HIDE DEF sh, mine
<1> QED
  BY <1>2, <1>8, <1>9 DEF sh, mine

(* A record rebuilds exactly when it brings its set to the threshold.       *)
LEMMA RebuiltStep ==
  ASSUME ConsistentCapture, SoundCapture, AInv, AInv', NEW p \in Packet, Record(p)
  PROVE  RebuiltAtThreshold'
<1> DEFINE sh == Parse(p)
           mine == <<p.slot, p.fec_set_index>>
<1>1. /\ n' = n + 1 /\ EP!Push(p) /\ HeardSlots \subseteq HeardSlots'
      /\ DOMAIN sets' = IF WellFormed(p) THEN DOMAIN sets \cup {mine} ELSE DOMAIN sets
      /\ \A key : SetAt(key)' =
           IF WellFormed(p) /\ key = mine THEN Follow(sh, n + 1) ELSE SetAt(key)
  BY RecordFacts
<1>2. n \in Nat /\ None \notin Nat /\ CoreInv /\ CaptureInv
  BY AnalysisAssumption DEF AInv, CaptureInv
<1>3. \A key \in DOMAIN sets' : SetAt(key)' = sets'[key]
  BY DEF SetAt
<1>4. \A key : SetInv(SetAt(key), n)
  BY <1>2, EverySetInv
<1>5. \A key \in DOMAIN sets' : sets'[key].threshold_at # None =>
        sets'[key].missing_at_threshold > 0
  BY DEF AInv, CaptureInv, SetInv
<1>6. \A key : SetAt(key).threshold_at # n + 1
  <2> TAKE key
  <2>1. SetAt(key).threshold_at # None =>
          SetAt(key).threshold_at \in Nat /\ SetAt(key).threshold_at <= n
    BY <1>4 DEF SetInv, SetState
  <2> QED
    BY <1>2, <2>1
<1>7. \A key \in DOMAIN sets' : sets'[key].threshold_at = n + 1 => WellFormed(p) /\ key = mine
  BY <1>1, <1>3, <1>6
<1>8. WellFormed(p) => Notes(sh, n) /\ sh.slot = p.slot /\ sh.fec = p.fec_set_index
  <2> SUFFICES ASSUME WellFormed(p)
               PROVE  Notes(sh, n) /\ sh.slot = p.slot /\ sh.fec = p.fec_set_index
    OBVIOUS
  <2>1. sh.kind \in {"data", "code"} /\ sh.pos \in Nat
    BY RecordIsShred
  <2>2. sh.slot = p.slot /\ sh.fec = p.fec_set_index
    BY BaseWords
  <2> HIDE DEF sh
  <2>3. SetInv(SetAt(<<sh.slot, sh.fec>>), n)
    BY <1>4
  <2>4. Notes(sh, n)
    BY <2>1, <2>3, <1>2, FollowInv
  <2> QED
    BY <2>2, <2>4
<1>9. WellFormed(p) =>
        /\ mine \in DOMAIN sets' /\ sets'[mine] = Follow(sh, n + 1)
        /\ sets'[mine].threshold_at = n + 1 <=> Crosses(SetAt(mine), sh)
        /\ Crosses(SetAt(mine), sh) =>
             sets'[mine].missing_at_threshold =
               K - Cardinality(DataSeen(SetAt(mine).seen \cup {Seen(sh)}))
  <2> SUFFICES ASSUME WellFormed(p)
               PROVE  /\ mine \in DOMAIN sets' /\ sets'[mine] = Follow(sh, n + 1)
                      /\ sets'[mine].threshold_at = n + 1 <=> Crosses(SetAt(mine), sh)
                      /\ Crosses(SetAt(mine), sh) =>
                           sets'[mine].missing_at_threshold =
                             K - Cardinality(DataSeen(SetAt(mine).seen \cup {Seen(sh)}))
    OBVIOUS
  <2>1. mine \in DOMAIN sets' /\ sets'[mine] = Follow(sh, n + 1)
    BY <1>1, <1>3
  <2>2. mine = <<sh.slot, sh.fec>> /\ Notes(sh, n)
    BY <1>8
  <2> HIDE DEF mine, sh
  <2> QED
    BY <2>1, <2>2 DEF Notes
<1>10. ASSUME Few', WellFormed(p), ~EP!Stale(p.slot, e_highest)
       PROVE  (IF EP!Verdict(EP!SlotAt(p.slot), sh) = "new"
               THEN EP!Cardinality(EP!Recovered(EP!SlotAt(p.slot), sh, TRUE)) ELSE 0) =
              (IF Crosses(SetAt(mine), sh)
               THEN K - Cardinality(DataSeen(SetAt(mine).seen \cup {Seen(sh)})) ELSE 0)
  <2>1. Few
    BY <1>1, <1>2, <1>10, FewBefore DEF AInv
  <2> QED
    BY <1>10, <2>1, RebuiltIsMissing
<1> SUFFICES ASSUME Few'
             PROVE  /\ \A key \in DOMAIN sets' :
                         sets'[key].threshold_at = n + 1 /\ Followed(key[1])' =>
                           e_tally'["recovered"] = sets'[key].missing_at_threshold
                    /\ e_tally'["recovered"] > 0 =>
                         \E key \in DOMAIN sets' : sets'[key].threshold_at = n + 1
  BY <1>1, <1>5 DEF RebuiltAtThreshold
<1>11. mine[1] = p.slot
  OBVIOUS
<1>12. CASE /\ e_tally'["recovered"] = 0
            /\ ~WellFormed(p) \/ EP!Stale(p.slot, e_highest')
  <2>1. ASSUME NEW key \in DOMAIN sets', sets'[key].threshold_at = n + 1
        PROVE  ~Followed(key[1])'
    <3>1. WellFormed(p) /\ key = mine
      BY <1>7, <2>1
    <3>2. EP!Stale(key[1], e_highest')
      BY <3>1, <1>11, <1>12
    <3>3. Eager!Stale(key[1], e_highest')
      BY <3>2, SamePush
    <3> QED
      BY <3>3 DEF Followed
  <2> QED
    BY <1>12, <2>1
<1>13. CASE /\ WellFormed(p) /\ ~EP!Stale(p.slot, e_highest)
            /\ e_tally'["recovered"] =
                 IF EP!Verdict(EP!SlotAt(p.slot), sh) = "new"
                 THEN EP!Cardinality(EP!Recovered(EP!SlotAt(p.slot), sh, TRUE)) ELSE 0
  <2>1. e_tally'["recovered"] =
          IF Crosses(SetAt(mine), sh)
          THEN K - Cardinality(DataSeen(SetAt(mine).seen \cup {Seen(sh)})) ELSE 0
    BY <1>10, <1>13
  <2> HIDE DEF mine, sh
  <2>2. /\ mine \in DOMAIN sets'
        /\ sets'[mine].threshold_at = n + 1 <=> Crosses(SetAt(mine), sh)
        /\ Crosses(SetAt(mine), sh) =>
             sets'[mine].missing_at_threshold = e_tally'["recovered"]
    BY <1>9, <1>13, <2>1
  <2>3. \A key \in DOMAIN sets' : sets'[key].threshold_at = n + 1 => key = mine
    BY <1>7
  <2>4. e_tally'["recovered"] > 0 => Crosses(SetAt(mine), sh)
    BY <2>1
  <2> QED
    BY <2>2, <2>3, <2>4
<1> QED
  <2>1. WellFormed(p) => ~Panics(sh)
    BY DEF SoundCapture
  <2> QED
    BY <1>1, <1>12, <1>13, <2>1, RecoveredCounted

(* In a sound capture of blocks that were shredded consistently, in no more *)
(* slots than the map holds, the deshredder rebuilds a set on the record at *)
(* which the analysis finds it recoverable, rebuilds what the analysis      *)
(* finds missing, and that is never nothing.                                *)
THEOREM AnalysisRebuiltAtThreshold ==
  ASSUME L >= 1, ConsistentCapture, SoundCapture
  PROVE  Spec => []RebuiltAtThreshold
<1>1. Init => RebuiltAtThreshold
  <2> SUFFICES ASSUME Init PROVE RebuiltAtThreshold
    OBVIOUS
  <2>1. DOMAIN sets = {} /\ EP!Init
    BY SamePush DEF Init, Empty
  <2>2. e_tally["recovered"] = 0
    BY <2>1 DEF EP!Init, EP!Count, EP!Counter
  <2> QED
    BY <2>1, <2>2 DEF RebuiltAtThreshold
<1>2. ASSUME AInv, AInv', RebuiltAtThreshold, [Next]_vars PROVE RebuiltAtThreshold'
  <2>1. CASE UNCHANGED vars
    <3>1. UNCHANGED <<n, sets, e_tally, e_highest, w_highest>>
      BY <2>1 DEF vars, eagerVars, waitingVars
    <3>2. (Few' <=> Few) /\ \A s : Followed(s)' <=> Followed(s)
      BY <3>1 DEF Few, HeardSlots, Followed, Eager!Stale, Waiting!Stale, Eager!Add, Waiting!Add
    <3> QED
      BY <1>2, <3>1, <3>2 DEF RebuiltAtThreshold
  <2>2. ASSUME NEW p \in Packet, Record(p) PROVE RebuiltAtThreshold'
    BY <1>2, <2>2, RebuiltStep
  <2> QED
    BY <1>2, <2>1, <2>2 DEF Next
<1> QED
  BY <1>1, <1>2, SpecAInv, PTL DEF Spec

-----------------------------------------------------------------------------
(* The two measurements *)

(* The time stamps of a SetState tell how much of the set was seen.         *)
Stamped(st) ==
  /\ st.data_complete_at # None <=> Cardinality(DataSeen(st.seen)) >= K
  /\ st.threshold_at # None => Cardinality(st.seen) >= K
  /\ Cardinality(st.seen) >= K => st.threshold_at # None \/ st.data_complete_at # None

(* What one more record does to them, ...                                   *)
Stamps(sh, now) ==
  LET st == SetAt(<<sh.slot, sh.fec>>)
      next == Follow(sh, now + 1)
  IN  /\ Stamped(next)
      /\ next.threshold_at = IF Crosses(st, sh) THEN now + 1 ELSE st.threshold_at
      /\ next.data_complete_at =
           IF /\ Cardinality(DataSeen(st.seen)) < K
              /\ Cardinality(DataSeen(next.seen)) >= K
           THEN now + 1 ELSE st.data_complete_at

(* ... as Follow does it.                                                   *)
LEMMA FollowStamps ==
  ASSUME NEW sh, sh.kind \in {"data", "code"}, sh.pos \in Nat, NEW now \in Nat,
         SetInv(SetAt(<<sh.slot, sh.fec>>), now), Stamped(SetAt(<<sh.slot, sh.fec>>))
  PROVE  Stamps(sh, now)
<1> DEFINE st == SetAt(<<sh.slot, sh.fec>>)
           next == Follow(sh, now + 1)
           x == Seen(sh)
           at == Len(next.arrivals) = K /\ next.first_code_at # None
           some == Cardinality(st.seen)
           more == Cardinality(next.seen)
           data == Cardinality(DataSeen(st.seen))
           mdata == Cardinality(DataSeen(next.seen))
<1>1. SetInv(st, now) /\ st \in SetState /\ Stamped(st)
  BY DEF SetInv
<1>2. Notes(sh, now)
  BY FollowInv
<1>3. /\ next.seen = st.seen \cup {x}
      /\ next.threshold_at = now + 1 <=> Crosses(st, sh)
  BY <1>2 DEF Notes
<1>4. next = IF x \in st.seen THEN st ELSE Noted(st, sh, now + 1)
  BY DEF Follow
<1>5. x \in {"data", "code"} \X Nat /\ x[1] = sh.kind
  BY GeometryAssumption DEF Seen
<1>6. Crosses(st, sh) <=> x \notin st.seen /\ more = K /\ next.seen # DataSeen(next.seen)
  BY <1>3 DEF Crosses
<1> HIDE DEF st, x, next
<1>7. /\ K \in Nat /\ None \notin Nat /\ now + 1 \in Nat /\ now + 1 # None
      /\ IsFiniteSet(st.seen) /\ st.num_data = data
  BY <1>1, GeometryAssumption, AnalysisAssumption DEF SetInv
<1>8. /\ st.seen \in SUBSET ({"data", "code"} \X Nat)
      /\ st.data_complete_at \in Nat \cup {None} /\ st.threshold_at \in Nat \cup {None}
  BY <1>1 DEF SetState
<1>9. some \in Nat /\ data \in Nat /\ more \in Nat /\ mdata \in Nat
  <2>1. IsFiniteSet(next.seen)
    BY <1>3, <1>7, FS_AddElement
  <2>2. DataSeen(st.seen) \subseteq st.seen /\ DataSeen(next.seen) \subseteq next.seen
    BY DEF DataSeen
  <2> QED
    BY <1>7, <2>1, <2>2, FS_Subset, FS_CardinalityType
<1>10. CASE x \in st.seen
  <2>1. next = st /\ ~Crosses(st, sh)
    BY <1>4, <1>6, <1>10
  <2> QED
    BY <2>1, <1>1, <1>7, <1>9 DEF Stamps, st, next
<1>11. CASE x \notin st.seen
  <2>1. next = Noted(st, sh, now + 1)
    BY <1>4, <1>11
  <2>2. /\ next.data_complete_at =
             IF sh.kind = "data" /\ st.num_data + 1 = K THEN now + 1 ELSE st.data_complete_at
        /\ next.threshold_at = IF at THEN now + 1 ELSE st.threshold_at
    <3>1. PICK t \in Nat : t = now + 1
      BY <1>7
    <3>2. next = Noted(st, sh, t)
      BY <2>1, <3>1
    <3> QED
      BY <1>1, <3>1, <3>2, ArrivedFields
  <2>3. /\ more = some + 1 /\ mdata = data + (IF sh.kind = "data" THEN 1 ELSE 0)
    <3>1. PICK seen \in SUBSET ({"data", "code"} \X Nat) : seen = st.seen
      BY <1>8
    <3>2. PICK y \in ({"data", "code"} \X Nat) \ seen : y = x
      BY <1>5, <1>11, <3>1
    <3>3. next.seen = seen \cup {y} /\ y[1] = sh.kind /\ IsFiniteSet(seen)
      BY <1>3, <1>5, <1>7, <3>1, <3>2
    <3> QED
      BY <3>1, <3>3, SeenCounts
  <2>4. st.threshold_at # now + 1
    BY <1>1, <1>7, <1>8 DEF SetInv
  <2>5. next.threshold_at = IF Crosses(st, sh) THEN now + 1 ELSE st.threshold_at
    BY <1>3, <2>2, <2>4
  <2>6. next.data_complete_at =
          IF data < K /\ mdata >= K THEN now + 1 ELSE st.data_complete_at
    <3>1. (sh.kind = "data" /\ st.num_data + 1 = K) <=> (data < K /\ mdata >= K)
      <4> HIDE DEF data, mdata
      <4> QED
        BY <1>7, <1>9, <2>3
    <3> QED
      BY <2>2, <3>1
  <2>7. /\ st.data_complete_at # None <=> data >= K
        /\ st.threshold_at # None => some >= K
        /\ some >= K => st.threshold_at # None \/ st.data_complete_at # None
    BY <1>1 DEF Stamped
  <2>8. next.seen = DataSeen(next.seen) => mdata = more
    OBVIOUS
  <2> HIDE DEF some, more, data, mdata
  <2>9. next.data_complete_at # None <=> mdata >= K
    BY <2>3, <2>6, <2>7, <1>7, <1>9
  <2>10. next.threshold_at # None => more >= K
    BY <2>3, <2>5, <2>7, <1>6, <1>7, <1>9
  <2>11. more >= K => next.threshold_at # None \/ next.data_complete_at # None
    <3>1. CASE some >= K
      BY <3>1, <2>5, <2>6, <2>7, <1>7
    <3>2. CASE ~(some >= K) /\ more >= K
      <4>1. more = K
        BY <3>2, <2>3, <1>7, <1>9
      <4> QED
        BY <4>1, <2>5, <2>8, <2>9, <1>6, <1>7, <1>11
    <3> QED
      BY <3>1, <3>2
  <2>12. Stamped(next)
    BY <2>9, <2>10, <2>11 DEF Stamped, more, mdata
  <2> QED
    BY <2>5, <2>6, <2>12 DEF Stamps, st, next, data, mdata
<1> QED
  BY <1>10, <1>11

(* What either policy has handed out from the start of slot s, as told by   *)
(* what was seen of its first set.                                          *)
FirstHanded(s) ==
  LET seen == SetAt(<<s, 0>>).seen
  IN  /\ \A e : <<0, e>> \in EP!BuiltOf(s) <=> e = K - 1 /\ Cardinality(seen) >= K
      /\ \A e : <<0, e>> \in WP!BuiltOf(s) <=> e = K - 1 /\ Cardinality(DataSeen(seen)) >= K

(* It holds of every slot that recovery has not passed.                     *)
FirstRunsHanded ==
  ConsistentCapture /\ SoundCapture /\ AInv /\ Few =>
    \A s \in 0 .. (W - 1) :
      FirstSetIsRun(s) /\ ~EP!Stale(s, e_highest) => FirstHanded(s)

(* This follows from what RunDelivery says of the shreds heard, ...         *)
LEMMA FirstRunsBefore == FirstRunsHanded
<1> SUFFICES ASSUME ConsistentCapture, SoundCapture, AInv, Few, NEW s \in 0 .. (W - 1),
                    FirstSetIsRun(s), ~EP!Stale(s, e_highest)
             PROVE  FirstHanded(s)
  BY DEF FirstRunsHanded
<1> DEFINE S == Block(s)
           seen == SetAt(<<s, 0>>).seen
<1>1. ~WP!Stale(s, w_highest) /\ CoreInv
  BY Bounds DEF AInv, PolicyInv
<1>2. PICK h : Shared(s, h)
  BY DEF AInv, PolicyInv
<1>3. /\ EP!BuiltOf(s) = EP!Ideal(EP!EndsOf(S))!Deliverable(h)
      /\ WP!BuiltOf(s) = WP!Ideal(WP!EndsOf(S))!Deliverable(h)
  BY <1>1, <1>2, BuiltBoth
<1>4. Tells(s, h)
  BY <1>2 DEF Shared
<1>5. /\ h \in SUBSET EP!Ideal(EP!EndsOf(S))!BlockShred
      /\ h \in SUBSET WP!Ideal(WP!EndsOf(S))!BlockShred
  BY <1>2 DEF Shared, EP!Coupled, WP!Coupled
<1>6. {e \in EP!EndsOf(S) : e < K} = {K - 1} /\ {e \in WP!EndsOf(S) : e < K} = {K - 1}
  <2>1. EP!EndsOf(S) = Eager!EndsOf(S) /\ WP!EndsOf(S) = Eager!EndsOf(S)
    BY DEF EP!EndsOf, WP!EndsOf, Eager!EndsOf
  <2> QED
    BY <2>1 DEF FirstSetIsRun
<1> DEFINE g == EP!HeardOf(h, 0)
<1>7. WP!HeardOf(h, 0) = g /\ WP!DataOf(g) = EP!DataOf(g)
  BY DEF EP!HeardOf, WP!HeardOf, EP!DataOf, WP!DataOf
<1>8. Cardinality(g) = Cardinality(seen) /\ Cardinality(EP!DataOf(g)) = Cardinality(DataSeen(seen))
  <2>1. \A x \in h : x \in EP!Ideal({})!BlockShred
    BY <1>5 DEF EP!Ideal!BlockShred
  <2>2. \A x \in g : x \in EP!Ideal({})!BlockShred /\ x[2] = 0 /\ x \in h
    BY <2>1 DEF EP!HeardOf
  <2>3. IsFiniteSet(g)
    BY <1>5, SameCounting, CoreConstants, EP!HeardFinite
  <2>4. \A x \in EP!Ideal({})!BlockShred : x[2] = 0 => (x \in h <=> Bit(x) \in seen)
    BY <1>4 DEF Tells
  <2>5. \A b \in seen : \E x \in EP!Ideal({})!BlockShred : x[2] = 0 /\ Bit(x) = b
    BY <1>4 DEF Tells
  <2>6. \A x \in h : x[2] = 0 => x \in g
    BY DEF EP!HeardOf
  <2> HIDE DEF g, seen
  <2>7. \A x \in g : Bit(x) \in seen
    BY <2>2, <2>4
  <2>8. \A b \in seen : \E x \in g : Bit(x) = b
    BY <2>4, <2>5, <2>6
  <2>9. PICK f : f = 0
    OBVIOUS
  <2>10. \A x \in g : x \in EP!Ideal({})!BlockShred /\ x[2] = f
    BY <2>2, <2>9
  <2> QED
    BY <2>3, <2>7, <2>8, <2>10, BitsCount
<1> HIDE DEF S, seen
<1>9. \A e : <<0, e>> \in EP!BuiltOf(s) <=> e = K - 1 /\ Cardinality(seen) >= K
  <2> TAKE e
  <2>1. <<0, e>> \in EP!Ideal(EP!EndsOf(S))!Deliverable(h) <=>
          /\ e = K - 1
          /\ IF TRUE THEN EP!Cardinality(EP!HeardOf(h, 0)) >= K
             ELSE EP!Cardinality(EP!DataOf(EP!HeardOf(h, 0))) >= K
    BY <1>5, <1>6, CoreConstants, EP!FirstRun
  <2> QED
    BY <1>3, <1>8, <2>1, SameCounting
<1>10. \A e : <<0, e>> \in WP!BuiltOf(s) <=> e = K - 1 /\ Cardinality(DataSeen(seen)) >= K
  <2> TAKE e
  <2>1. <<0, e>> \in WP!Ideal(WP!EndsOf(S))!Deliverable(h) <=>
          /\ e = K - 1
          /\ IF FALSE THEN WP!Cardinality(WP!HeardOf(h, 0)) >= K
             ELSE WP!Cardinality(WP!DataOf(WP!HeardOf(h, 0))) >= K
    BY <1>5, <1>6, CoreConstants, WP!FirstRun
  <2> QED
    BY <1>3, <1>7, <1>8, <2>1, SameCounting
<1> QED
  BY <1>9, <1>10 DEF FirstHanded, seen

(* ... also after a step.                                                   *)
LEMMA FirstRunsAfter == FirstRunsHanded'
<1>1. FirstRunsHanded
  BY FirstRunsBefore
<1> QED
  BY <1>1, PTL

(* Without recovery a push rebuilds nothing.                                *)
LEMMA WaitingRebuildsNothing ==
  ASSUME NEW p \in Packet, WP!Push(p)
  PROVE  w_tally'["recovered"] = 0
<1>1. \A names : "recovered" \notin names => WP!Count(names)["recovered"] = 0
  BY DEF WP!Count, WP!Counter
<1>2. CASE WP!PushInvalid(p) \/ WP!PushWrongVersion(p) \/ WP!PushStale(p) \/ WP!PushPanics(p)
  BY <1>1, <1>2 DEF WP!PushInvalid, WP!PushWrongVersion, WP!PushStale, WP!PushPanics,
    WP!Ignore, WP!Hand
<1>3. CASE WP!PushShred(p)
  <2>1. PICK st, sh, segments : w_tally' = WP!InsertCounts(st, sh, segments)
    BY <1>3 DEF WP!PushShred, WP!Hand
  <2>2. WP!Cardinality(WP!Recovered(st, sh, FALSE)) = 0
    <3>1. WP!Recovered(st, sh, FALSE) = {}
      BY DEF WP!Recovered, WP!Recovers
    <3> QED
      BY <3>1, SameCounting, FS_EmptySet
  <2>3. WP!InsertCounts(st, sh, segments)["recovered"] =
          IF WP!Verdict(st, sh) = "new" THEN WP!Cardinality(WP!Recovered(st, sh, FALSE)) ELSE 0
    BY DEF WP!InsertCounts, WP!Count, WP!Counter
  <2> QED
    BY <2>1, <2>2, <2>3
<1> QED
  BY <1>2, <1>3 DEF WP!Push

(* The times that batch_times has noted of the first run of slot s are      *)
(* those the SetState of its first set has.                                 *)
Timed(s) ==
  LET st == SetAt(<<s, 0>>)
  IN  /\ <<s, 0>> \in DOMAIN eager <=> FirstDecodes(s) /\ Cardinality(st.seen) >= K
      /\ <<s, 0>> \in DOMAIN eager =>
           eager[<<s, 0>>] = IF st.threshold_at # None THEN st.threshold_at + Cost
                             ELSE st.data_complete_at
      /\ <<s, 0>> \in DOMAIN waiting <=>
           FirstDecodes(s) /\ Cardinality(DataSeen(st.seen)) >= K
      /\ <<s, 0>> \in DOMAIN waiting => waiting[<<s, 0>>] = st.data_complete_at

(* The stamps are right and, of a slot that recovery has not passed, those  *)
(* the policies show.                                                       *)
StampInv ==
  /\ \A key \in DOMAIN sets : Stamped(sets[key]) /\ key \in (0 .. (W - 1)) \X Nat
  /\ Few => \A s \in 0 .. (W - 1) :
       FirstSetIsRun(s) /\ ~EP!Stale(s, e_highest) => Timed(s)

(* A record counts as recovered what its set lacks when it crosses the      *)
(* threshold.                                                               *)
LEMMA CountedStep ==
  ASSUME ConsistentCapture, SoundCapture, AInv, Few, NEW p \in Packet, Record(p),
         WellFormed(p), ~EP!Stale(p.slot, e_highest')
  PROVE  LET sh == Parse(p)
             st == SetAt(<<p.slot, p.fec_set_index>>)
         IN  e_tally'["recovered"] =
               IF Crosses(st, sh) THEN K - Cardinality(DataSeen(st.seen \cup {Seen(sh)})) ELSE 0
<1>1. EP!Push(p) /\ ~Panics(Parse(p))
  BY RecordFacts DEF SoundCapture
<1>2. /\ ~EP!Stale(p.slot, e_highest)
      /\ e_tally'["recovered"] =
           IF EP!Verdict(EP!SlotAt(p.slot), Parse(p)) = "new"
           THEN EP!Cardinality(EP!Recovered(EP!SlotAt(p.slot), Parse(p), TRUE)) ELSE 0
  BY <1>1, RecoveredCounted
<1> QED
  BY <1>2, RebuiltIsMissing

(* What one more record does to the time that is noted of a batch, ...      *)
Notices(times, after, key, new, now, tally) ==
  /\ key \in DOMAIN after <=> key \in DOMAIN times \/ new
  /\ key \in DOMAIN after =>
       after[key] = IF new THEN now + Charge(tally) ELSE times[key]

(* ... as Times does it.                                                    *)
LEMMA TimesAt ==
  ASSUME NEW times, NEW after, NEW key, NEW new \in BOOLEAN, NEW now, NEW tally, NEW out,
         after = Times(times, out, now, tally),
         new <=> \E b \in out : <<b.slot, b.start>> = key
  PROVE  Notices(times, after, key, new, now, tally)
<1>1. DOMAIN after = DOMAIN times \cup {<<b.slot, b.start>> : b \in out}
  BY DEF Times
<1>2. key \in {<<b.slot, b.start>> : b \in out} <=> new
  OBVIOUS
<1>3. \A k \in DOMAIN after : after[k] =
        IF \E b \in out : k = <<b.slot, b.start>> THEN now + Charge(tally) ELSE times[k]
  BY DEF Times
<1> QED
  BY <1>1, <1>2, <1>3 DEF Notices

(* Also a set that is not in the map has the stamps of its kind.            *)
LEMMA EveryStamped ==
  ASSUME StampInv
  PROVE  \A key : Stamped(SetAt(key))
<1>1. Stamped(SetDefault)
  <2>1. /\ SetDefault.seen = {} /\ SetDefault.data_complete_at = None
        /\ SetDefault.threshold_at = None
    BY DEF SetDefault
  <2>2. DataSeen({}) = {} /\ Cardinality({}) = 0 /\ K \in Nat \ {0}
    BY FS_EmptySet, GeometryAssumption DEF DataSeen
  <2> QED
    BY <2>1, <2>2 DEF Stamped
<1> QED
  BY <1>1 DEF StampInv, SetAt

(* Of every set finitely many shreds were seen, also after a step.          *)
FiniteSeen == CaptureInv => \A key : IsFiniteSet(SetAt(key).seen)

LEMMA FiniteSeenAlways == FiniteSeen /\ FiniteSeen'
<1>1. FiniteSeen
  BY EverySetInv DEF FiniteSeen, SetInv
<1> QED
  BY <1>1, PTL

(* A record of the first set of a slot, with what it rebuilds, or another.  *)
LEMMA FirstSetStep ==
  ASSUME ConsistentCapture, SoundCapture, AInv, StampInv, NEW p \in Packet, Record(p),
         Few, NEW s \in 0 .. (W - 1), ~EP!Stale(s, e_highest), ~EP!Stale(s, e_highest')
  PROVE  LET st == SetAt(<<s, 0>>)
             next == SetAt(<<s, 0>>)'
         IN  \/ next = st
             \/ /\ n + 1 \in Nat /\ Stamped(next)
                /\ Cardinality(st.seen) <= Cardinality(next.seen)
                /\ Cardinality(next.seen) <= Cardinality(st.seen) + 1
                /\ \E cross \in BOOLEAN :
                     /\ cross <=> /\ Cardinality(st.seen) < K /\ Cardinality(next.seen) = K
                                  /\ next.seen # DataSeen(next.seen)
                     /\ next.threshold_at = IF cross THEN n + 1 ELSE st.threshold_at
                     /\ Charge(e_tally') = IF cross THEN Cost ELSE 0
                /\ next.data_complete_at =
                     IF /\ Cardinality(DataSeen(st.seen)) < K
                        /\ Cardinality(DataSeen(next.seen)) >= K
                     THEN n + 1 ELSE st.data_complete_at
<1> DEFINE st == SetAt(<<s, 0>>)
           next == SetAt(<<s, 0>>)'
           sh == Parse(p)
<1>1. SetAt(<<s, 0>>)' = IF WellFormed(p) /\ <<s, 0>> = <<p.slot, p.fec_set_index>>
                         THEN Follow(sh, n + 1) ELSE st
  BY RecordFacts
<1> SUFFICES ASSUME WellFormed(p), <<s, 0>> = <<p.slot, p.fec_set_index>>
             PROVE  /\ n + 1 \in Nat /\ Stamped(next)
                    /\ Cardinality(st.seen) <= Cardinality(next.seen)
                    /\ Cardinality(next.seen) <= Cardinality(st.seen) + 1
                    /\ \E cross \in BOOLEAN :
                         /\ cross <=> /\ Cardinality(st.seen) < K /\ Cardinality(next.seen) = K
                                      /\ next.seen # DataSeen(next.seen)
                         /\ next.threshold_at = IF cross THEN n + 1 ELSE st.threshold_at
                         /\ Charge(e_tally') = IF cross THEN Cost ELSE 0
                    /\ next.data_complete_at =
                         IF /\ Cardinality(DataSeen(st.seen)) < K
                            /\ Cardinality(DataSeen(next.seen)) >= K
                         THEN n + 1 ELSE st.data_complete_at
  BY <1>1
<1>2. n \in Nat /\ n + 1 \in Nat /\ K \in Nat /\ SetInv(st, n) /\ Stamped(st)
  BY GeometryAssumption, EverySetInv, EveryStamped DEF AInv, CaptureInv
<1>3. sh.slot = s /\ sh.fec = 0 /\ sh.kind \in {"data", "code"} /\ sh.pos \in Nat
  BY BaseWords, RecordIsShred
<1>4. <<sh.slot, sh.fec>> = <<s, 0>> /\ next = Follow(sh, n + 1)
  BY <1>1, <1>3
<1>5. e_tally'["recovered"] =
        IF Crosses(st, sh) THEN K - Cardinality(DataSeen(st.seen \cup {Seen(sh)})) ELSE 0
  <2>1. p.slot = s /\ <<p.slot, p.fec_set_index>> = <<s, 0>>
    OBVIOUS
  <2> QED
    BY <2>1, CountedStep
<1> HIDE DEF sh, st, next
<1>6. Stamps(sh, n) /\ Notes(sh, n)
  BY <1>2, <1>3, <1>4, FollowStamps, FollowInv DEF st
<1>7. /\ Stamped(next) /\ next.seen = st.seen \cup {Seen(sh)}
      /\ SetInv(next, n + 1)
      /\ next.threshold_at = IF Crosses(st, sh) THEN n + 1 ELSE st.threshold_at
      /\ next.data_complete_at =
           IF /\ Cardinality(DataSeen(st.seen)) < K
              /\ Cardinality(DataSeen(next.seen)) >= K
           THEN n + 1 ELSE st.data_complete_at
  BY <1>4, <1>6 DEF Stamps, Notes, st
<1>8. /\ IsFiniteSet(st.seen) /\ Cardinality(st.seen) \in Nat
      /\ Cardinality(next.seen) = IF Seen(sh) \in st.seen THEN Cardinality(st.seen)
                                  ELSE Cardinality(st.seen) + 1
  BY <1>2, <1>7, FS_AddElement, FS_CardinalityType DEF SetInv
<1>9. Crosses(st, sh) <=> /\ Cardinality(st.seen) < K /\ Cardinality(next.seen) = K
                          /\ next.seen # DataSeen(next.seen)
  <2>1. Crosses(st, sh) <=> /\ Seen(sh) \notin st.seen /\ Cardinality(next.seen) = K
                            /\ next.seen # DataSeen(next.seen)
    BY <1>7 DEF Crosses
  <2> QED
    BY <2>1, <1>2, <1>8
<1>10. Charge(e_tally') = IF Crosses(st, sh) THEN Cost ELSE 0
  <2>1. Crosses(st, sh) => K - Cardinality(DataSeen(next.seen)) > 0
    <3> SUFFICES ASSUME Crosses(st, sh) PROVE K - Cardinality(DataSeen(next.seen)) > 0
      OBVIOUS
    <3>1. next.missing_at_threshold = K - Cardinality(DataSeen(next.seen))
      BY <1>4, <1>6 DEF Notes, st
    <3>2. next.threshold_at # None
      BY <1>2, <1>7, AnalysisAssumption
    <3> QED
      BY <1>7, <3>1, <3>2 DEF SetInv
  <2> QED
    BY <1>5, <1>7, <2>1 DEF Charge
<1>11. PICK cross \in BOOLEAN : cross <=> Crosses(st, sh)
  OBVIOUS
<1>12. /\ cross <=> /\ Cardinality(st.seen) < K /\ Cardinality(next.seen) = K
                    /\ next.seen # DataSeen(next.seen)
       /\ next.threshold_at = IF cross THEN n + 1 ELSE st.threshold_at
       /\ Charge(e_tally') = IF cross THEN Cost ELSE 0
  BY <1>7, <1>9, <1>10, <1>11
<1>13. /\ Cardinality(st.seen) <= Cardinality(next.seen)
       /\ Cardinality(next.seen) <= Cardinality(st.seen) + 1
  BY <1>8
<1> QED
  BY <1>2, <1>7, <1>12, <1>13

(* The first run of a block is read as what the block says it is, ...       *)
LEMMA DecodesAsFirst ==
  ASSUME ConsistentCapture, NEW s, NEW raw, raw.start = 0,
         EP!BeginsIn(Block(s), raw)
  PROVE  Decode(raw) = "entries" <=> FirstDecodes(s)
<1>1. raw.start - (raw.start % K) = 0
  BY GeometryAssumption
<1>2. PICK a \in Block(s) : a.fec = 0 /\ raw.bytes[0].root = a.root
  BY <1>1 DEF EP!BeginsIn
<1>3. \A b \in Block(s) : b.fec = 0 => b.root = a.root
  <2> SUFFICES ASSUME NEW b \in Block(s), b.fec = 0 PROVE b.root = a.root
    OBVIOUS
  <2>1. PICK S : S = Block(s)
    OBVIOUS
  <2>2. EP!Consistent(S) /\ a \in S /\ b \in S /\ a.fec = b.fec
    BY <1>2, <2>1, BlocksConsistent
  <2>3. a.fec = b.fec => a.root = b.root
    BY <2>2 DEF EP!Consistent
  <2> QED
    BY <2>2, <2>3
<1>4. Decode(raw) = "entries" <=> <<a.root, 0>> \notin MarkerLeaf \cup BadLeaf
  BY <1>2 DEF Decode
<1> QED
  BY <1>2, <1>3, <1>4 DEF FirstDecodes

(* ... so that a policy times it if it hands it out and it decodes.         *)
LEMMA FirstTimed ==
  ASSUME ConsistentCapture, AInv, Few, NEW p \in Packet, Record(p),
         NEW s \in 0 .. (W - 1), ~EP!Stale(s, e_highest)
  PROVE  /\ (\E b \in Decoded(e_out', "entries") : <<b.slot, b.start>> = <<s, 0>>) <=>
              (FirstDecodes(s) /\ \E b \in e_out' : <<b.slot, b.start>> = <<s, 0>>)
         /\ (\E b \in Decoded(w_out', "entries") : <<b.slot, b.start>> = <<s, 0>>) <=>
              (FirstDecodes(s) /\ \E b \in w_out' : <<b.slot, b.start>> = <<s, 0>>)
<1>1. EP!Push(p) /\ WP!Push(p) /\ CoreInv
  BY RecordFacts DEF AInv
<1>2. ~WP!Stale(s, w_highest)
  BY <1>1, Bounds DEF AInv, PolicyInv
<1>3. PICK h : Shared(s, h)
  BY DEF AInv, PolicyInv
<1>4. PICK S : S = Block(s)
  OBVIOUS
<1>5. /\ EP!Consistent(S) /\ WP!Consistent(S)
      /\ EP!Coupled(S, EP!SlotAt(s), h) /\ EP!SetsSound(EP!SlotAt(s), TRUE)
      /\ WP!Coupled(S, WP!SlotAt(s), h) /\ WP!SetsSound(WP!SlotAt(s), FALSE)
  BY <1>3, <1>4, BlocksConsistent DEF Shared
<1>6. s \in EP!SlotNumber /\ s \in WP!SlotNumber
  BY DEF EP!SlotNumber, WP!SlotNumber
<1>7. /\ EP!WellFormed(p) /\ p.slot = s /\ EP!Parse(p).root # None => EP!Parse(p) \in S
      /\ WP!WellFormed(p) /\ p.slot = s /\ WP!Parse(p).root # None => WP!Parse(p) \in S
  BY <1>4, BaseWords, ShredOfBlock DEF EP!Accepted, WP!Accepted
<1>8. \A b \in e_out' : b.slot = s => EP!BeginsIn(S, b)
  BY <1>1, <1>5, <1>6, <1>7, CoreConstants, EP!HandedRoot DEF CoreInv
<1>9. \A b \in w_out' : b.slot = s => WP!BeginsIn(S, b)
  BY <1>1, <1>2, <1>5, <1>6, <1>7, CoreConstants, WP!HandedRoot DEF CoreInv
<1>10. \A b \in e_out' : b.slot = s /\ b.start = 0 => (Decode(b) = "entries" <=> FirstDecodes(s))
  BY <1>4, <1>8, DecodesAsFirst
<1>11. \A b \in w_out' : b.slot = s /\ b.start = 0 => (Decode(b) = "entries" <=> FirstDecodes(s))
  BY <1>4, <1>9, DecodesAsFirst DEF EP!BeginsIn, WP!BeginsIn
<1> QED
  BY <1>10, <1>11 DEF Decoded

(* A record keeps the times of the policies and those of the sets together. *)
LEMMA TimedStep ==
  ASSUME ConsistentCapture, SoundCapture, AInv, AInv', StampInv, NEW p \in Packet, Record(p),
         Few, Few', NEW s \in 0 .. (W - 1), FirstSetIsRun(s),
         ~EP!Stale(s, e_highest), ~EP!Stale(s, e_highest')
  PROVE  Timed(s)'
<1> DEFINE key == <<s, 0>>
           st == SetAt(<<s, 0>>)
           next == SetAt(<<s, 0>>)'
           some == Cardinality(st.seen)
           more == Cardinality(next.seen)
           data == Cardinality(DataSeen(st.seen))
           mdata == Cardinality(DataSeen(next.seen))
           enew == some < K /\ more >= K
           wnew == data < K /\ mdata >= K
           decodes == FirstDecodes(s)
<1>1. /\ EP!Push(p) /\ WP!Push(p)
      /\ eager' = Times(eager, Decoded(e_out', "entries"), n + 1, e_tally')
      /\ waiting' = Times(waiting, Decoded(w_out', "entries"), n + 1, w_tally')
  BY RecordFacts
<1>2. /\ \A e : <<0, e>> \in EP!BuiltOf(s) <=> e = K - 1 /\ some >= K
      /\ \A e : <<0, e>> \in WP!BuiltOf(s) <=> e = K - 1 /\ data >= K
  BY FirstRunsBefore DEF FirstRunsHanded, FirstHanded
<1>3. /\ \A e : <<0, e>> \in EP!BuiltOf(s)' <=> e = K - 1 /\ more >= K
      /\ \A e : <<0, e>> \in WP!BuiltOf(s)' <=> e = K - 1 /\ mdata >= K
  <2>1. (FirstSetIsRun(s) /\ ~EP!Stale(s, e_highest) => FirstHanded(s))'
    BY FirstRunsAfter DEF FirstRunsHanded
  <2>2. FirstSetIsRun(s)'
    BY DEF FirstSetIsRun, Block
  <2>3. FirstHanded(s)'
    BY <2>1, <2>2
  <2> QED
    BY <2>3 DEF FirstHanded
<1>4. /\ some \in Nat /\ more \in Nat /\ data \in Nat /\ mdata \in Nat
      /\ K \in Nat \ {0} /\ data <= some /\ mdata <= more
      /\ mdata = more => DataSeen(next.seen) = next.seen
  <2>1. IsFiniteSet(st.seen) /\ IsFiniteSet(next.seen)
    BY FiniteSeenAlways DEF AInv, FiniteSeen
  <2>2. DataSeen(st.seen) \subseteq st.seen /\ DataSeen(next.seen) \subseteq next.seen
    BY DEF DataSeen
  <2> QED
    BY <2>1, <2>2, FS_Subset, FS_CardinalityType, GeometryAssumption
<1>5. \A b : (<<b.slot, b.start>> = <<s, 0>>) <=> (<<b.slot, b.start>> = key)
  OBVIOUS
<1> HIDE DEF some, more, data, mdata, st, next
<1>6. enew <=> \E b \in e_out' : <<b.slot, b.start>> = key
  <2>1. /\ EP!BuiltOf(s) \subseteq EP!BuiltOf(s)'
        /\ (\E b \in e_out' : <<b.slot, b.start>> = <<s, 0>>) <=>
              \E e : <<0, e>> \in EP!BuiltOf(s)' /\ <<0, e>> \notin EP!BuiltOf(s)
    BY <1>1, CoreConstants, EP!NewlyHanded DEF AInv, CoreInv
  <2>2. (\E e : <<0, e>> \in EP!BuiltOf(s)' /\ <<0, e>> \notin EP!BuiltOf(s)) <=>
          more >= K /\ ~(some >= K)
    BY <1>2, <1>3
  <2>3. ~(some >= K) <=> some < K
    BY <1>4
  <2> QED
    BY <2>1, <2>2, <2>3
<1>7. wnew <=> \E b \in w_out' : <<b.slot, b.start>> = key
  <2>1. /\ WP!BuiltOf(s) \subseteq WP!BuiltOf(s)'
        /\ (\E b \in w_out' : <<b.slot, b.start>> = <<s, 0>>) <=>
              \E e : <<0, e>> \in WP!BuiltOf(s)' /\ <<0, e>> \notin WP!BuiltOf(s)
    BY <1>1, CoreConstants, WP!NewlyHanded DEF AInv, CoreInv
  <2>2. (\E e : <<0, e>> \in WP!BuiltOf(s)' /\ <<0, e>> \notin WP!BuiltOf(s)) <=>
          mdata >= K /\ ~(data >= K)
    BY <1>2, <1>3
  <2>3. ~(data >= K) <=> data < K
    BY <1>4
  <2> QED
    BY <2>1, <2>2, <2>3
<1>8. /\ (\E b \in Decoded(e_out', "entries") : <<b.slot, b.start>> = key) <=>
            (decodes /\ \E b \in e_out' : <<b.slot, b.start>> = key)
      /\ (\E b \in Decoded(w_out', "entries") : <<b.slot, b.start>> = key) <=>
            (decodes /\ \E b \in w_out' : <<b.slot, b.start>> = key)
  BY FirstTimed
<1> HIDE DEF key, enew, wnew, decodes
<1>9. /\ key \in DOMAIN eager' <=> key \in DOMAIN eager \/ (decodes /\ enew)
      /\ key \in DOMAIN eager' =>
           eager'[key] = IF decodes /\ enew THEN (n + 1) + Charge(e_tally') ELSE eager[key]
  <2>1. PICK at, out, tally :
          at = n + 1 /\ out = Decoded(e_out', "entries") /\ tally = e_tally'
    OBVIOUS
  <2> PICK new \in BOOLEAN : new <=> decodes /\ enew
    OBVIOUS
  <2>2. eager' = Times(eager, out, at, tally)
    BY <1>1, <2>1
  <2>3. new <=> \E b \in out : <<b.slot, b.start>> = key
    BY <1>6, <1>8, <2>1
  <2>4. PICK after : after = eager'
    OBVIOUS
  <2>5. after = Times(eager, out, at, tally)
    BY <2>2, <2>4
  <2>6. Notices(eager, after, key, new, at, tally)
    BY <2>3, <2>5, TimesAt
  <2> QED
    BY <2>1, <2>4, <2>6 DEF Notices
<1>10. /\ key \in DOMAIN waiting' <=> key \in DOMAIN waiting \/ (decodes /\ wnew)
       /\ key \in DOMAIN waiting' =>
            waiting'[key] = IF decodes /\ wnew THEN (n + 1) + Charge(w_tally') ELSE waiting[key]
  <2>1. PICK at, out, tally :
          at = n + 1 /\ out = Decoded(w_out', "entries") /\ tally = w_tally'
    OBVIOUS
  <2> PICK new \in BOOLEAN : new <=> decodes /\ wnew
    OBVIOUS
  <2>2. waiting' = Times(waiting, out, at, tally)
    BY <1>1, <2>1
  <2>3. new <=> \E b \in out : <<b.slot, b.start>> = key
    BY <1>7, <1>8, <2>1
  <2>4. PICK after : after = waiting'
    OBVIOUS
  <2>5. after = Times(waiting, out, at, tally)
    BY <2>2, <2>4
  <2>6. Notices(waiting, after, key, new, at, tally)
    BY <2>3, <2>5, TimesAt
  <2> QED
    BY <2>1, <2>4, <2>6 DEF Notices
<1>11. Charge(w_tally') = 0
  BY <1>1, WaitingRebuildsNothing DEF Charge
<1>12. /\ key \in DOMAIN eager <=> decodes /\ some >= K
       /\ key \in DOMAIN eager =>
            eager[key] = IF st.threshold_at # None THEN st.threshold_at + Cost
                         ELSE st.data_complete_at
       /\ key \in DOMAIN waiting <=> decodes /\ data >= K
       /\ key \in DOMAIN waiting => waiting[key] = st.data_complete_at
  BY DEF StampInv, Timed, key, st, some, data, decodes
<1>13. /\ st.data_complete_at # None <=> data >= K
       /\ st.threshold_at # None => some >= K
       /\ some >= K => st.threshold_at # None \/ st.data_complete_at # None
  BY EveryStamped DEF Stamped, st, some, data
<1>14. decodes <=> FirstDecodes(s)'
  BY DEF FirstDecodes, Block, decodes
<1>15. CASE next = st
  <2>1. some = more /\ data = mdata
    BY <1>15 DEF some, more, data, mdata
  <2>2. ~enew /\ ~wnew
    BY <2>1, <1>4 DEF enew, wnew
  <2> QED
    BY <2>1, <2>2, <1>9, <1>10, <1>12, <1>15, <1>14 DEF Timed, key, next, more, mdata
<1>16. CASE next # st
  <2>1. /\ n + 1 \in Nat /\ some <= more /\ more <= some + 1
        /\ next.data_complete_at = IF wnew THEN n + 1 ELSE st.data_complete_at
        /\ \E cross \in BOOLEAN :
             /\ cross <=> some < K /\ more = K /\ next.seen # DataSeen(next.seen)
             /\ next.threshold_at = IF cross THEN n + 1 ELSE st.threshold_at
             /\ Charge(e_tally') = IF cross THEN Cost ELSE 0
        /\ next.data_complete_at # None <=> mdata >= K
    BY <1>16, FirstSetStep DEF Stamped, st, next, some, more, data, mdata, wnew
  <2>2. PICK cross \in BOOLEAN :
             /\ cross <=> some < K /\ more = K /\ next.seen # DataSeen(next.seen)
             /\ next.threshold_at = IF cross THEN n + 1 ELSE st.threshold_at
             /\ Charge(e_tally') = IF cross THEN Cost ELSE 0
    BY <2>1
  <2>3. n + 1 # None /\ Cost \in Nat /\ (n + 1) + 0 = n + 1
    BY <2>1, AnalysisAssumption
  <2>4. key \in DOMAIN waiting' <=> decodes /\ mdata >= K
    BY <2>1, <2>3, <1>4, <1>10, <1>12, <1>13 DEF wnew
  <2>5. key \in DOMAIN waiting' => waiting'[key] = next.data_complete_at
    BY <2>1, <2>3, <1>10, <1>11, <1>12
  <2>6. key \in DOMAIN eager' <=> decodes /\ more >= K
    BY <2>1, <1>4, <1>9, <1>12 DEF enew
  <2>7. ASSUME key \in DOMAIN eager'
        PROVE  eager'[key] = IF next.threshold_at # None THEN next.threshold_at + Cost
                             ELSE next.data_complete_at
    <3>0. decodes
      BY <2>6, <2>7
    <3>1. CASE enew /\ cross
      BY <3>0, <3>1, <2>2, <2>3, <2>7, <1>9
    <3>2. CASE enew /\ ~cross
      <4>1. more = K
        BY <3>2, <2>1, <1>4 DEF enew
      <4>2. next.seen = DataSeen(next.seen)
        BY <3>2, <4>1, <2>2 DEF enew
      <4>3. mdata = K
        BY <4>1, <4>2 DEF more, mdata
      <4>4. wnew
        BY <3>2, <4>1, <4>3, <1>4 DEF enew, wnew
      <4>5. next.threshold_at = None
        BY <3>2, <2>2, <1>4, <1>13 DEF enew
      <4> QED
        BY <3>0, <3>2, <4>4, <4>5, <2>1, <2>2, <2>3, <2>7, <1>9
    <3>3. CASE ~enew
      <4>1. key \in DOMAIN eager /\ some >= K /\ eager'[key] = eager[key]
        BY <3>3, <2>7, <1>9, <1>12
      <4>2. next.threshold_at = st.threshold_at
        BY <4>1, <2>2, <1>4
      <4>3. st.threshold_at = None => next.data_complete_at = st.data_complete_at
        BY <4>1, <2>1, <1>4, <1>13 DEF wnew
      <4> QED
        BY <4>1, <4>2, <4>3, <1>12
    <3> QED
      BY <3>1, <3>2, <3>3
  <2> QED
    BY <2>4, <2>5, <2>6, <2>7, <1>14 DEF Timed, key, next, more, mdata
<1> QED
  BY <1>15, <1>16

(* Nothing was timed.                                                       *)
LEMMA InitStampInv == Init => StampInv
<1> SUFFICES ASSUME Init PROVE StampInv
  OBVIOUS
<1>1. DOMAIN sets = {} /\ DOMAIN eager = {} /\ DOMAIN waiting = {}
  BY DEF Init, Empty
<1>2. \A key : SetAt(key).seen = {}
  BY <1>1 DEF SetAt, SetDefault
<1>3. DataSeen({}) = {} /\ Cardinality({}) = 0 /\ K \in Nat \ {0}
  BY FS_EmptySet, GeometryAssumption DEF DataSeen
<1>4. ~(0 >= K)
  BY <1>3
<1>5. ASSUME NEW s PROVE Timed(s)
  <2>1. Cardinality(SetAt(<<s, 0>>).seen) = 0 /\ Cardinality(DataSeen(SetAt(<<s, 0>>).seen)) = 0
    BY <1>2, <1>3
  <2>2. <<s, 0>> \notin DOMAIN eager /\ <<s, 0>> \notin DOMAIN waiting
    BY <1>1
  <2> QED
    BY <1>4, <2>1, <2>2 DEF Timed
<1> QED
  BY <1>1, <1>5 DEF StampInv

(* A record keeps the stamps of the sets, and those with the times of the   *)
(* policies.                                                                *)
LEMMA StampStep ==
  ASSUME ConsistentCapture, SoundCapture, AInv, AInv', StampInv, NEW p \in Packet, Record(p)
  PROVE  StampInv'
<1> DEFINE mine == <<p.slot, p.fec_set_index>>
<1>1. /\ n' = n + 1 /\ HeardSlots \subseteq HeardSlots' /\ EP!Push(p)
      /\ DOMAIN sets' = IF WellFormed(p) THEN DOMAIN sets \cup {mine} ELSE DOMAIN sets
      /\ \A key : SetAt(key)' =
           IF WellFormed(p) /\ key = mine THEN Follow(Parse(p), n + 1) ELSE SetAt(key)
  BY RecordFacts
<1>2. n \in Nat /\ CoreInv /\ CaptureInv /\ CoreInv' /\ CaptureInv'
  BY DEF AInv, CaptureInv
<1>3. WellFormed(p) => Stamped(Follow(Parse(p), n + 1))
  <2> SUFFICES ASSUME WellFormed(p) PROVE Stamped(Follow(Parse(p), n + 1))
    OBVIOUS
  <2>1. PICK sh : sh = Parse(p)
    OBVIOUS
  <2>2. sh.kind \in {"data", "code"} /\ sh.pos \in Nat
    BY <2>1, RecordIsShred
  <2>3. SetInv(SetAt(<<sh.slot, sh.fec>>), n) /\ Stamped(SetAt(<<sh.slot, sh.fec>>))
    BY <1>2, EverySetInv, EveryStamped
  <2>4. Stamps(sh, n)
    BY <1>2, <2>2, <2>3, FollowStamps
  <2> QED
    BY <2>1, <2>4 DEF Stamps
<1>4. mine \in (0 .. (W - 1)) \X Nat
  <2>1. p.slot \in 0 .. (W - 1)
    BY BaseWords
  <2>2. p.fec_set_index \in Nat
    BY AnalysisAssumption DEF Datagram
  <2> QED
    BY <2>1, <2>2
<1>5. \A key \in DOMAIN sets' : Stamped(sets'[key]) /\ key \in (0 .. (W - 1)) \X Nat
  <2> TAKE key \in DOMAIN sets'
  <2>1. SetAt(key)' = sets'[key]
    BY DEF SetAt
  <2>2. Stamped(SetAt(key))
    BY EveryStamped
  <2>3. SetAt(key)' = SetAt(key) \/ (WellFormed(p) /\ SetAt(key)' = Follow(Parse(p), n + 1))
    BY <1>1
  <2>4. key \in (0 .. (W - 1)) \X Nat
    BY <1>1, <1>4 DEF StampInv
  <2> QED
    BY <2>1, <2>2, <2>3, <2>4, <1>3
<1>6. ASSUME Few', NEW s \in 0 .. (W - 1), FirstSetIsRun(s), ~EP!Stale(s, e_highest')
      PROVE  Timed(s)'
  <2>1. Few
    BY <1>1, <1>2, <1>6, FewBefore
  <2>2. e_highest \in Nat /\ e_highest' \in Nat
    BY <1>2, AnalysisAssumption DEF CoreInv, EP!IInv, EP!MapInv, EP!SlotNumber
  <2>3. e_highest <= e_highest'
    <3>1. e_highest' = e_highest \/ (e_highest' = p.slot /\ p.slot > e_highest)
      BY <1>1, <1>2, CoreConstants, EP!PushMoves DEF CoreInv
    <3>2. p.slot \in Nat
      BY BaseWords
    <3> QED
      BY <2>2, <3>1, <3>2
  <2>4. ~EP!Stale(s, e_highest)
    BY <1>2, <1>6, <2>2, <2>3, Bounds
  <2> QED
    BY <1>6, <2>1, <2>4, TimedStep
<1>7. \A s : FirstSetIsRun(s)' <=> FirstSetIsRun(s)
  BY DEF FirstSetIsRun, Block
<1> QED
  BY <1>5, <1>6, <1>7 DEF StampInv, Stamped

(* The times agree in every reachable state.                                *)
LEMMA SpecStampInv ==
  ASSUME L >= 1, ConsistentCapture, SoundCapture
  PROVE  Spec => []StampInv
<1>1. ASSUME AInv, AInv', StampInv, [Next]_vars PROVE StampInv'
  <2>1. CASE UNCHANGED vars
    <3>1. UNCHANGED <<sets, eager, waiting, e_highest>>
      BY <2>1 DEF vars, eagerVars, waitingVars
    <3>2. (Few' <=> Few) /\ \A key : SetAt(key)' = SetAt(key)
      BY <3>1 DEF Few, HeardSlots, SetAt
    <3>3. \A s : (Timed(s)' <=> Timed(s)) /\ (FirstSetIsRun(s)' <=> FirstSetIsRun(s))
      BY <3>1, <3>2 DEF Timed, FirstSetIsRun, FirstDecodes, Block
    <3> QED
      BY <1>1, <3>1, <3>2, <3>3 DEF StampInv, Stamped
  <2>2. ASSUME NEW p \in Packet, Record(p) PROVE StampInv'
    BY <1>1, <2>2, StampStep
  <2> QED
    BY <1>1, <2>1, <2>2 DEF Next
<1> QED
  BY <1>1, InitStampInv, SpecAInv, PTL DEF Spec

(* In a sound capture of blocks that were shredded consistently, in no more *)
(* slots than the map holds, the classes that the first pass prints are     *)
(* what the two policies do: where the first run is the first FEC set, the  *)
(* wait of a set in the window is the lead of the eager policy before the   *)
(* cost, a set complete first is a tie, one that never completed comes only *)
(* with recovery and one that was not recoverable with neither; a first run *)
(* that is a block marker or does not decode has no time in either.         *)
THEOREM AnalysisClassesMatchPolicies ==
  ASSUME L >= 1, ConsistentCapture, SoundCapture
  PROVE  Spec => []ClassesMatchPolicies
<1>1. AInv /\ StampInv => ClassesMatchPolicies
  <2> SUFFICES ASSUME AInv, StampInv, NEW key \in DOMAIN sets,
                      Few, Followed(key[1]), key[2] = 0, FirstSetIsRun(key[1])
               PROVE  LET st == sets[key]
                          class == Class(st)
                          decodes == FirstDecodes(key[1])
                      IN  /\ key \in DOMAIN eager <=> decodes /\ class # "never_recoverable"
                          /\ key \in DOMAIN waiting <=>
                               decodes /\ class \in {"window", "data_first"}
                          /\ decodes /\ class = "window" =>
                               Wait(st) = waiting[key] - (eager[key] - Cost)
                          /\ decodes /\ class = "data_first" => waiting[key] = eager[key]
    BY DEF ClassesMatchPolicies
  <2> DEFINE st == sets[key]
             class == Class(st)
             some == Cardinality(st.seen)
             data == Cardinality(DataSeen(st.seen))
             at == st.threshold_at
             done == st.data_complete_at
             decodes == FirstDecodes(key[1])
  <2>1. PICK s \in 0 .. (W - 1) : s = key[1] /\ key = <<s, 0>>
    BY DEF StampInv
  <2>2. ~EP!Stale(s, e_highest) /\ FirstSetIsRun(s)
    BY <2>1, SamePush DEF Followed
  <2>3. Timed(s) /\ SetAt(<<s, 0>>) = st
    BY <2>1, <2>2 DEF StampInv, SetAt
  <2>4. /\ key \in DOMAIN eager <=> decodes /\ some >= K
        /\ key \in DOMAIN eager => eager[key] = IF at # None THEN at + Cost ELSE done
        /\ key \in DOMAIN waiting <=> decodes /\ data >= K
        /\ key \in DOMAIN waiting => waiting[key] = done
    BY <2>1, <2>3 DEF Timed
  <2>5. /\ done # None <=> data >= K
        /\ at # None => some >= K
        /\ some >= K => at # None \/ done # None
    BY DEF StampInv, Stamped
  <2>6. /\ at # None => st.missing_at_threshold # 0
        /\ at \in Nat \cup {None} /\ done \in Nat \cup {None}
    BY DEF AInv, CaptureInv, SetInv, SetState
  <2>7. data >= K => some >= K
    <3>1. IsFiniteSet(st.seen)
      BY DEF AInv, CaptureInv, SetInv
    <3>2. data \in Nat /\ some \in Nat /\ data <= some
      BY <3>1, FS_Subset, FS_CardinalityType DEF DataSeen
    <3> HIDE DEF some, data
    <3> QED
      BY <3>2, GeometryAssumption
  <2>8. class = IF at # None THEN IF done = None THEN "never_complete" ELSE "window"
                ELSE IF done # None THEN "data_first" ELSE "never_recoverable"
    BY <2>6 DEF Class
  <2> HIDE DEF class, some, data, at, done, decodes
  <2>9. key \in DOMAIN eager <=> decodes /\ class # "never_recoverable"
    BY <2>4, <2>5, <2>7, <2>8
  <2>10. key \in DOMAIN waiting <=> decodes /\ class \in {"window", "data_first"}
    BY <2>4, <2>5, <2>8
  <2>11. decodes /\ class = "window" => done - at = waiting[key] - (eager[key] - Cost)
    <3> SUFFICES ASSUME decodes, class = "window" PROVE done - at = waiting[key] - (eager[key] - Cost)
      OBVIOUS
    <3>1. at # None /\ done # None /\ key \in DOMAIN eager /\ key \in DOMAIN waiting
      BY <2>8, <2>9, <2>10
    <3>2. eager[key] = at + Cost /\ waiting[key] = done /\ at \in Nat /\ done \in Nat
      BY <3>1, <2>4, <2>6
    <3> QED
      BY <3>2, AnalysisAssumption
  <2>12. decodes /\ class = "data_first" => waiting[key] = eager[key]
    <3> SUFFICES ASSUME decodes, class = "data_first" PROVE waiting[key] = eager[key]
      OBVIOUS
    <3>1. at = None /\ done # None /\ key \in DOMAIN eager /\ key \in DOMAIN waiting
      BY <2>8, <2>9, <2>10
    <3> QED
      BY <3>1, <2>4
  <2> QED
    BY <2>9, <2>10, <2>11, <2>12 DEF Wait, class, at, done, decodes
<1> QED
  BY <1>1, SpecAInv, SpecStampInv, PTL

-----------------------------------------------------------------------------
(* percentile *)

(* For every sample that is not empty, percentile reads the nearest rank,   *)
(* which is inside the sample: the subtraction before the division neither  *)
(* underflows nor costs a rank.                                             *)
THEOREM AnalysisNearestRank == Spec => []NearestRank
<1>1. \A m \in Nat \ {0} :
        LET i == (m - 1) \div 100 IN i \in Nat /\ 100 * i < m /\ 100 * (i + 1) >= m
  OBVIOUS
<1>2. ASSUME NEW len \in Nat \ {0}, NEW p \in {50, 90, 99}
      PROVE  LET i == PercentileIndex(len, p)
             IN  i < len /\ 100 * i < p * len /\ 100 * (i + 1) >= p * len
  <2> DEFINE m == p * len
             i == PercentileIndex(len, p)
  <2>1. m \in Nat \ {0} /\ m < 100 * len
    BY <1>2
  <2>2. i = (m - 1) \div 100
    BY <2>1 DEF PercentileIndex
  <2> HIDE DEF m, i
  <2>3. i \in Nat /\ 100 * i < m /\ 100 * (i + 1) >= m
    BY <1>1, <2>1, <2>2
  <2>4. i < len
    BY <2>1, <2>3, <1>2
  <2> QED
    BY <2>3, <2>4 DEF m, i
<1>3. NearestRank
  <2> SUFFICES ASSUME NEW len \in 1 .. MaxSample, NEW p \in {50, 90, 99}
               PROVE  LET i == PercentileIndex(len, p)
                      IN  i < len /\ 100 * i < p * len /\ 100 * (i + 1) >= p * len
    BY DEF NearestRank
  <2>1. len \in Nat \ {0}
    BY AnalysisAssumption
  <2> QED
    BY <1>2, <2>1
<1> QED
  BY <1>3, PTL
=============================================================================
