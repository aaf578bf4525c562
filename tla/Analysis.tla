------------------------------ MODULE Analysis ------------------------------
(***************************************************************************)
(* bin/analyze-recovery.rs: what a capture says about eager recovery.  The *)
(* program reads the capture three times: once to follow the shreds of     *)
(* each FEC set, and once each through a Deshredder that recovers and one  *)
(* that does not.  The three passes share nothing, so the model takes them *)
(* in step: an action is one record in all of them.                        *)
(*                                                                         *)
(* The n-th record has time stamp n; a reconstruction costs Cost.          *)
(***************************************************************************)
EXTENDS Decoding, Sequences

CONSTANTS
  Packet, L, W,   \* as in Deshredder
  Cost,           \* RECOVERY_COST_US
  MaxRecords,     \* bound: records of the capture
  MaxSample       \* bound: sample sizes for which percentile is checked

ASSUME AnalysisAssumption ==
  /\ Packet \subseteq Datagram
  /\ W \in Nat \ {0}
  /\ \A p \in Packet : p.slot < W
  /\ L \in Nat /\ L < W
  /\ Cost \in Nat /\ MaxSample \in Nat
  /\ None \notin Nat

VARIABLES
  n,              \* records read
  sets,           \* HashMap<(slot, fec_set_index), SetState>
  e_slots, e_highest, e_out, e_emitted, e_tally, e_panicked,
  w_slots, w_highest, w_out, w_emitted, w_tally, w_panicked,
  eager,          \* BatchTimes with recovery: <<slot, start>> -> time
  waiting         \* BatchTimes without

Eager ==
  INSTANCE Deshredder WITH
    Recovery <- TRUE, ShredVersion <- None,
    slots <- e_slots, highest_slot <- e_highest, out <- e_out,
    emitted <- e_emitted, tally <- e_tally, panicked <- e_panicked

Waiting ==
  INSTANCE Deshredder WITH
    Recovery <- FALSE, ShredVersion <- None,
    slots <- w_slots, highest_slot <- w_highest, out <- w_out,
    emitted <- w_emitted, tally <- w_tally, panicked <- w_panicked

eagerVars == <<e_slots, e_highest, e_out, e_emitted, e_tally, e_panicked>>
waitingVars == <<w_slots, w_highest, w_out, w_emitted, w_tally, w_panicked>>
vars == <<n, sets, eagerVars, waitingVars, eager, waiting>>

Empty == [x \in {} |-> 0]

SetDefault ==
  [arrivals |-> <<>>, seen |-> {}, num_data |-> 0, first_code_at |-> None,
   data_complete_at |-> None, threshold_at |-> None, missing_at_threshold |-> 0]

Init ==
  /\ n = 0 /\ sets = Empty
  /\ Eager!Init /\ Waiting!Init
  /\ eager = Empty /\ waiting = Empty

-----------------------------------------------------------------------------
(* The loop over the records: SetState.                                     *)

(* seen_data and seen_code *)
Seen(sh) == <<sh.kind, sh.pos % K>>

Arrived(state, sh, now) ==
  [state EXCEPT
     !.seen = @ \cup {Seen(sh)},
     !.arrivals = Append(@, now),
     !.num_data = IF sh.kind = "data" THEN @ + 1 ELSE @,
     !.data_complete_at =
       IF sh.kind = "data" /\ state.num_data + 1 = K THEN now ELSE @,
     !.first_code_at = IF sh.kind = "code" /\ @ = None THEN now ELSE @]

(* Mutant: a code shred is not asked for.                                   *)
AtThresholdAnyKind(state) == Len(state.arrivals) = K

(* K distinct shreds are there, at least one of them code.                  *)
AtThreshold(state) == Len(state.arrivals) = K /\ state.first_code_at # None

Noted(state, sh, now) ==
  LET next == Arrived(state, sh, now)
  IN  IF AtThreshold(next)
      THEN [next EXCEPT !.threshold_at = now, !.missing_at_threshold = K - next.num_data]
      ELSE next

SetAt(key) == IF key \in DOMAIN sets THEN sets[key] ELSE SetDefault

Follow(sh, now) ==
  LET state == SetAt(<<sh.slot, sh.fec>>)
  IN  IF Seen(sh) \in state.seen THEN state ELSE Noted(state, sh, now)

(* batch_times: a batch has the time of the record plus the cost of a       *)
(* reconstruction when the push ran one.  Deshredder::push makes batches of *)
(* the runs that decode to entries only.                                    *)
Charge(tally) == IF tally["recovered"] > 0 THEN Cost ELSE 0

(* Mutant: reconstruction is never charged.                                 *)
TimesFree(times, out, now, tally) ==
  [key \in DOMAIN times \cup {<<b.slot, b.start>> : b \in out} |->
     IF \E b \in out : key = <<b.slot, b.start>> THEN now ELSE times[key]]

Times(times, out, now, tally) ==
  [key \in DOMAIN times \cup {<<b.slot, b.start>> : b \in out} |->
     IF \E b \in out : key = <<b.slot, b.start>>
     THEN now + Charge(tally) ELSE times[key]]

Record(p) ==
  LET sh == Parse(p)
      key == <<sh.slot, sh.fec>>
  IN  /\ n < MaxRecords
      /\ n' = n + 1
      /\ sets' = IF WellFormed(p)
                 THEN [k \in DOMAIN sets \cup {key} |->
                         IF k = key THEN Follow(sh, n + 1) ELSE sets[k]]
                 ELSE sets
      /\ Eager!Push(p) /\ Waiting!Push(p)
      /\ eager' = Times(eager, Decoded(e_out', "entries"), n + 1, e_tally')
      /\ waiting' = Times(waiting, Decoded(w_out', "entries"), n + 1, w_tally')

Next == \E p \in Packet : Record(p)

Spec == Init /\ [][Next]_vars

-----------------------------------------------------------------------------
(* What is printed. *)

Class(state) ==
  IF state.threshold_at # None
  THEN IF state.data_complete_at = None THEN "never_complete"
       ELSE IF state.missing_at_threshold = 0 THEN "data_first"
       ELSE "window"
  ELSE IF state.data_complete_at # None THEN "data_first"
  ELSE "never_recoverable"

(* wait_us *)
Wait(state) == state.data_complete_at - state.threshold_at

(* Mutant: the index of percentile without the minus one.                   *)
PercentileIndexPast(len, p) == (p * len) \div 100

(* percentile: an index into the sorted sample, from zero.                  *)
PercentileIndex(len, p) == (IF p * len = 0 THEN 0 ELSE p * len - 1) \div 100

-----------------------------------------------------------------------------
(* Properties *)

(* The shreds with a sound proof of the block in slot s, and a capture of   *)
(* blocks that their leaders shredded consistently, in slots that are not   *)
(* within slot_lookback of the top of u64.                                  *)
Block(s) == Eager!ShredsOf({p \in Packet : p.slot = s})

ConsistentCapture ==
  \A p \in Packet :
    WellFormed(p) => p.slot + L < W /\ Eager!Consistent(Block(p.slot))

(* No record that parses has a broken proof or names a set past the end of  *)
(* the slot; and a code position has a bit of its own in seen_code.         *)
SoundCapture ==
  /\ M <= K
  /\ \A p \in Packet : WellFormed(p) => MerkleRoot(p) # None /\ ~Panics(Parse(p))

(* As many slots as the map holds: past that the memory bound may cost the  *)
(* two policies different slots.                                            *)
HeardSlots == {key[1] : key \in DOMAIN sets}
Few == Cardinality(HeardSlots) <= 4 * L

(* A policy whose window has passed the slot says nothing about it.         *)
Followed(slot) == ~Eager!Stale(slot, e_highest) /\ ~Waiting!Stale(slot, w_highest)

(* In a capture of consistent blocks the deshredder rebuilds a set on the   *)
(* very record at which the analysis finds it recoverable and on no other,  *)
(* and then as many shreds as the analysis finds missing; never none, so    *)
(* that the branch for a threshold with nothing missing is dead.            *)
RebuiltAtThreshold ==
  Few =>
    /\ \A key \in DOMAIN sets :
         LET state == sets[key]
         IN  /\ state.threshold_at # None => state.missing_at_threshold > 0
             /\ state.threshold_at = n /\ Followed(key[1]) =>
                  e_tally["recovered"] = state.missing_at_threshold
    /\ e_tally["recovered"] > 0 =>
         \E key \in DOMAIN sets : sets[key].threshold_at = n

(* "Batches are keyed by their shred range, which does not depend on the    *)
(* policy": a batch has the same range under both, and recovering never     *)
(* delivers one later or not at all, unless a later slot that recovery      *)
(* completed early has moved the window past it.  A batch is a run that     *)
(* decodes, so what holds of every run holds of the batches.                *)
EagerIsNoLater ==
  Few =>
    \A b \in Waiting!AllHanded :
      \/ b \in Eager!AllHanded
      \/ Eager!Stale(b[1], e_highest)

(* The first FEC set of the block in slot s is its first run; a later run   *)
(* needs the shred before it too, which is of another set.                  *)
FirstSetIsRun(s) == {e \in Eager!EndsOf(Block(s)) : e < K} = {K - 1}

(* That run becomes a batch: it is no block marker and decodes.             *)
FirstDecodes(s) ==
  \A a \in Block(s) : a.fec = 0 => <<a.root, 0>> \notin MarkerLeaf \cup BadLeaf

(* The two measurements agree: where the first run is one FEC set, the wait *)
(* of that set is the lead of the eager policy before the cost, a set that  *)
(* was complete first is a tie, one that never completed is delivered only  *)
(* with recovery, and one that was not recoverable by neither.  A first run *)
(* that is a block marker or does not decode has a class and no time: it is *)
(* in the distribution of the waits and in neither policy's.                *)
ClassesMatchPolicies ==
  \A key \in DOMAIN sets :
    LET state == sets[key]
        class == Class(state)
        decodes == FirstDecodes(key[1])
    IN  Few /\ Followed(key[1]) /\ key[2] = 0 /\ FirstSetIsRun(key[1]) =>
          /\ key \in DOMAIN eager <=> decodes /\ class # "never_recoverable"
          /\ key \in DOMAIN waiting <=> decodes /\ class \in {"window", "data_first"}
          /\ decodes /\ class = "window" =>
               Wait(state) = waiting[key] - (eager[key] - Cost)
          /\ decodes /\ class = "data_first" => waiting[key] = eager[key]

(* percentile is the nearest rank: fewer than p in a hundred of the sample  *)
(* lie before its index and at least p in a hundred up to it, for every     *)
(* sample that is not empty; so the index is inside.                        *)
NearestRank ==
  n = 0 =>
    \A len \in 1 .. MaxSample, p \in {50, 90, 99} :
      LET i == PercentileIndex(len, p)
      IN  i < len /\ 100 * i < p * len /\ 100 * (i + 1) >= p * len

=============================================================================
