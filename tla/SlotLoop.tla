------------------------------ MODULE SlotLoop ------------------------------
(***************************************************************************)
(* The loops of slot.rs as they are written, to be compared with the       *)
(* closed forms of Slot.tla: find_segment scans one index at a time,       *)
(* try_complete updates the state after each run, and SlotState::insert    *)
(* calls it for every slot of the fixed `fresh` array in order.            *)
(***************************************************************************)
EXTENDS SlotAssembly, SequencesExt

RECURSIVE ScanEnd(_, _)
ScanEnd(st, end) ==
  IF end \notin st.received THEN None
  ELSE IF end \in st.complete THEN end
  ELSE IF end + 1 >= MAX_SHREDS_PER_SLOT THEN None
  ELSE ScanEnd(st, end + 1)

RECURSIVE ScanStart(_, _)
ScanStart(st, start) ==
  IF start = 0 \/ start - 1 \in st.complete THEN start
  ELSE IF start - 1 \notin st.received THEN None
  ELSE ScanStart(st, start - 1)

FindSegment(st, index) ==
  IF ScanEnd(st, index) = None \/ ScanStart(st, index) = None THEN None
  ELSE <<ScanStart(st, index), ScanEnd(st, index)>>

(* for f in (first_set..=end).step_by(K): drop the sets that are used up.   *)
RECURSIVE FreeSets(_, _, _)
FreeSets(st, f, end) ==
  IF f > end THEN st
  ELSE FreeSets([st EXCEPT !.sets[f] =
                   IF SetIsConsumed(st.consumed, f) THEN None ELSE @],
                f + K, end)

(* Mutant: the sets are visited from the run's start, not from its set's.   *)
TryCompleteUnaligned(acc, index) ==
  LET run == FindSegment(acc.st, index)
      used == [acc.st EXCEPT !.consumed = @ \cup run[1] .. run[2]]
  IN  IF index >= MAX_SHREDS_PER_SLOT \/ index \in acc.st.consumed \/ run = None
      THEN acc
      ELSE [st |-> FreeSets(used, run[1], run[2]),
            out |-> Append(acc.out, SegmentOf(acc.st, run))]

(* acc: the state so far and the segments pushed so far, oldest first.      *)
TryComplete(acc, index) ==
  LET run == FindSegment(acc.st, index)
      used == [acc.st EXCEPT !.consumed = @ \cup run[1] .. run[2]]
  IN  IF \/ index >= MAX_SHREDS_PER_SLOT
         \/ index \in acc.st.consumed
         \/ run = None
      THEN acc
      ELSE [st |-> FreeSets(used, run[1] - (run[1] % K), run[2]),
            out |-> Append(acc.out, SegmentOf(acc.st, run))]

TryFresh(acc, i) ==
  LET tried == TryComplete(acc, i)
  IN  IF i \in tried.st.complete THEN TryComplete(tried, i + 1) ELSE tried

(* The `fresh` array: the shred's own index, then the recovered ones.       *)
FreshArray(st, sh, rs) ==
  (IF sh.kind = "data" THEN <<sh.index>> ELSE <<>>)
    \o SetToSortSeq(Recovered(st, sh, rs), LAMBDA i, j : i < j)

LoopInsert(st, sh, rs) ==
  IF Verdict(st, sh) # "new"
  THEN [st |-> SlotInsert(st, sh, rs), out |-> <<>>]
  ELSE FoldLeft(TryFresh, [st |-> Stow(st, sh, rs), out |-> <<>>],
                FreshArray(st, sh, rs))

(* In every state the assembly reaches and for every shred that may come    *)
(* next, the loops of insert end in the state and push the segments the     *)
(* closed form gives, each segment once, and `fresh` never overflows.       *)
LoopMatchesClosedForm ==
  \A p \in {q \in Packet : WellFormed(q) /\ ~Panics(Parse(q))} :
    LET sh == Parse(p)
        loop == LoopInsert(slot, sh, Recovery)
    IN  /\ loop.st = SlotInsert(slot, sh, Recovery)
        /\ ToSet(loop.out) = Segments(slot, sh, Recovery)
        /\ IsInjective(loop.out)
        /\ Verdict(slot, sh) = "new" => Len(FreshArray(slot, sh, Recovery)) <= K

=============================================================================
