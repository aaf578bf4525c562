-------------------------------- MODULE Slot --------------------------------
(***************************************************************************)
(* slot.rs: assembly of one slot, as operators on the value of a           *)
(* SlotState.  The bit sets are sets of indexes, the map of FEC sets is a  *)
(* function with None for an absent entry.                                 *)
(***************************************************************************)
EXTENDS Fec

SlotState ==
  [sets: [SetIndex -> FecSet \cup {None}],
   received: SUBSET Index, complete: SUBSET Index, consumed: SUBSET Index]

IsSegment(g) ==
  /\ g.start \in Index /\ g.end \in g.start .. (MAX_SHREDS_PER_SLOT - 1)
  /\ g.bytes \in [g.start .. g.end -> Shard]
  /\ g.last \in BOOLEAN

SlotDefault ==
  [sets |-> [f \in SetIndex |-> None],
   received |-> {}, complete |-> {}, consumed |-> {}]

SetIsConsumed(consumed, f) == SetRange(f) \subseteq consumed

(* set_is_consumed indexes the bit set with the whole range of the set and  *)
(* the bit set panics on a range past its end; only a code shred can name   *)
(* such a set.                                                              *)
Panics(sh) == sh.kind = "code" /\ sh.fec \notin SetIndex

(* sets.entry(f).or_default()                                               *)
SetFor(st, f) == IF st.sets[f] = None THEN FecDefault ELSE st.sets[f]

(* Mutant: a code shred of a set that was used up is not turned away.       *)
EarlyVerdictLateCode(st, sh) ==
  IF sh.kind = "data" /\ sh.index \in st.received THEN "duplicates" ELSE "none"

(* The two returns of SlotState::insert before a FEC set is looked up.      *)
EarlyVerdict(st, sh) ==
  IF sh.kind = "data" /\ sh.index \in st.received THEN "duplicates"
  ELSE IF sh.kind = "code" /\ SetIsConsumed(st.consumed, sh.fec) THEN "unneeded"
  ELSE "none"

Verdict(st, sh) ==
  IF EarlyVerdict(st, sh) # "none" THEN EarlyVerdict(st, sh)
  ELSE FecVerdict(SetFor(st, sh.fec), sh)

-----------------------------------------------------------------------------
(* Storing an accepted shred and recovering its set.  rs: Config::recover.  *)

(* Mutant: recovery is tried only when a code shred arrives.                *)
RecoversOnCode(st, sh, rs) ==
  rs /\ sh.kind = "code" /\ CanRecover(FecInsert(SetFor(st, sh.fec), sh))

Recovers(st, sh, rs) == rs /\ CanRecover(FecInsert(SetFor(st, sh.fec), sh))

NewSet(st, sh, rs) ==
  LET set == FecInsert(SetFor(st, sh.fec), sh)
  IN  IF Recovers(st, sh, rs) THEN Recover(set, sh.fec) ELSE set

RecoveryFails(st, sh, rs) ==
  /\ Recovers(st, sh, rs)
  /\ ~RecoverOK(FecInsert(SetFor(st, sh.fec), sh), sh.fec)

(* Mutant: the last position of the set is not reported.                    *)
RecoveredButLast(st, sh, rs) ==
  IF Recovers(st, sh, rs) /\ ~RecoveryFails(st, sh, rs)
  THEN {sh.fec + p : p \in Missing(FecInsert(SetFor(st, sh.fec), sh)) \ {K - 1}}
  ELSE {}

(* Indexes FecSet::recover returned; none when it failed.                   *)
Recovered(st, sh, rs) ==
  IF Recovers(st, sh, rs) /\ ~RecoveryFails(st, sh, rs)
  THEN {sh.fec + p : p \in Missing(FecInsert(SetFor(st, sh.fec), sh))}
  ELSE {}

Fresh(st, sh, rs) ==
  Recovered(st, sh, rs) \cup {i \in {sh.index} : sh.kind = "data"}

Stow(st, sh, rs) ==
  LET set == NewSet(st, sh, rs)
      fresh == Fresh(st, sh, rs)
  IN  [st EXCEPT
         !.sets[sh.fec] = set,
         !.received = @ \cup fresh,
         !.complete = @ \cup {i \in fresh : set.data[i - sh.fec].complete}]

-----------------------------------------------------------------------------
(* Completing runs: the loop over the fresh indexes with try_complete and   *)
(* find_segment, in closed form (SlotLoop.tla has the loops themselves).    *)

(* Mutant: a run may begin anywhere.                                        *)
IsRunUnbounded(st, s, e) ==
  /\ s .. e \subseteq st.received
  /\ e \in st.complete
  /\ \A i \in s .. (e - 1) : i \notin st.complete

IsRun(st, s, e) ==
  /\ s .. e \subseteq st.received
  /\ e \in st.complete
  /\ s = 0 \/ s - 1 \in st.complete
  /\ \A i \in s .. (e - 1) : i \notin st.complete

(* Mutant: the run after a new boundary is not tried.                       *)
TouchedOnlyFresh(st, fresh) == fresh

(* Indexes try_complete is called with.                                     *)
Touched(st, fresh) ==
  (fresh \cup {i + 1 : i \in fresh \cap st.complete}) \cap Index

ReadyRuns(st, fresh) ==
  {r \in Index \X Index :
     /\ \E i \in Touched(st, fresh) \ st.consumed : i \in r[1] .. r[2]
     /\ IsRun(st, r[1], r[2])}

Consume(st, runs) ==
  st.consumed \cup UNION {r[1] .. r[2] : r \in runs}

(* Mutant: a set is freed although a later run still needs it.              *)
FreedEarly(consumed, runs) ==
  {f \in SetIndex : \E r \in runs : f <= r[2] /\ r[1] <= f + K - 1}

(* Sets that overlap a completed run and have nothing left to give.         *)
Freed(consumed, runs) ==
  {f \in SetIndex : /\ \E r \in runs : f <= r[2] /\ r[1] <= f + K - 1
                    /\ SetIsConsumed(consumed, f)}

ShredAt(st, i) == LET f == i - (i % K) IN st.sets[f].data[i - f]

SegmentOf(st, r) ==
  [start |-> r[1], end |-> r[2],
   bytes |-> [i \in r[1] .. r[2] |-> ShredAt(st, i)],
   last |-> ShredAt(st, r[2]).last]

Complete(st, runs) ==
  LET consumed == Consume(st, runs)
  IN  [st EXCEPT
         !.consumed = consumed,
         !.sets = [f \in SetIndex |->
                     IF f \in Freed(consumed, runs) THEN None ELSE @[f]]]

-----------------------------------------------------------------------------
(* SlotState::insert: the new state and the segments it pushes onto `out`.  *)

SlotInsert(st, sh, rs) ==
  IF EarlyVerdict(st, sh) # "none" THEN st
  ELSE IF Verdict(st, sh) # "new"
       THEN [st EXCEPT !.sets[sh.fec] = SetFor(st, sh.fec)]
  ELSE LET stowed == Stow(st, sh, rs)
       IN  Complete(stowed, ReadyRuns(stowed, Fresh(st, sh, rs)))

Segments(st, sh, rs) ==
  IF Verdict(st, sh) # "new" THEN {}
  ELSE LET stowed == Stow(st, sh, rs)
       IN  {SegmentOf(stowed, r) : r \in ReadyRuns(stowed, Fresh(st, sh, rs))}

=============================================================================
