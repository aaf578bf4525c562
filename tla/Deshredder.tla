----------------------------- MODULE Deshredder -----------------------------
(***************************************************************************)
(* deshredder.rs: Deshredder::push_raw, the core that turns datagrams into *)
(* raw batches, with its map of slots, its retention window and its memory *)
(* bound.  Slot numbers are u64 and wrap (release build); the width is the *)
(* constant W.  The counters are kept as what the last push added to them. *)
(***************************************************************************)
EXTENDS Input

CONSTANTS
  ShredVersion,   \* Config::shred_version, or None
  L,              \* Config::slot_lookback
  W               \* 2^64

ASSUME ConfigAssumption ==
  /\ W \in Nat \ {0}
  /\ \A p \in Packet : p.slot < W
  /\ L \in Nat /\ L < W

VARIABLES
  slots,          \* BTreeMap<u64, SlotState>: a function on its keys
  highest_slot,
  out,            \* raw batches handed out by the last push
  emitted,        \* <<slot, start, end>> of the batches handed out before it
  tally,          \* what the last push added to each counter
  panicked        \* the last push did not return

vars == <<slots, highest_slot, out, emitted, tally, panicked>>

Counter == {"packets", "invalid", "wrong_version", "stale", "duplicates",
            "unneeded", "rejected", "recovered", "recovery_failures", "batches"}

Count(names) == [c \in Counter |-> IF c \in names THEN 1 ELSE 0]

Add(a, b) == (a + b) % W

Handed(batches) == {<<b.slot, b.start, b.end>> : b \in batches}

Stale(s, highest) == Add(s, L) < highest

Init ==
  /\ slots = [s \in {} |-> SlotDefault]
  /\ highest_slot = 0
  /\ out = {}
  /\ emitted = {}
  /\ tally = Count({})
  /\ panicked = FALSE

-----------------------------------------------------------------------------
(* Deshredder::push_raw, one action for each way through it.                *)

Hand(batches, counts) ==
  /\ out' = batches
  /\ emitted' = emitted \cup Handed(out)
  /\ tally' = counts

Ignore(counter) ==
  /\ Hand({}, Count({"packets", counter}))
  /\ UNCHANGED <<slots, highest_slot, panicked>>

Accepted(p) ==
  /\ WellFormed(p)
  /\ ShredVersion \in {None, p.version}

PushInvalid(p) ==
  /\ ~WellFormed(p)
  /\ Ignore("invalid")

PushWrongVersion(p) ==
  /\ WellFormed(p) /\ ~Accepted(p)
  /\ Ignore("wrong_version")

PushStale(p) ==
  /\ Accepted(p)
  /\ Stale(p.slot, highest_slot)
  /\ Ignore("stale")

(* slots.entry(slot).or_default()                                           *)
SlotAt(s) == IF s \in DOMAIN slots THEN slots[s] ELSE SlotDefault

With(map, s, st) ==
  [x \in DOMAIN map \cup {s} |-> IF x = s THEN st ELSE map[x]]

Keep(map, S) == [s \in DOMAIN map \cap S |-> map[s]]

PushPanics(p) ==
  LET sh == Parse(p)
  IN  /\ Accepted(p)
      /\ ~Stale(sh.slot, highest_slot)
      /\ Panics(sh)
      /\ slots' = With(slots, sh.slot, SlotAt(sh.slot))
      /\ panicked' = TRUE
      /\ Hand({}, Count({"packets"}))
      /\ UNCHANGED highest_slot

(* Mutant: a slot exactly slot_lookback old goes too.                       *)
PopOldInclusive(map, slot) ==
  Keep(map, {s \in DOMAIN map : \E x \in DOMAIN map : x <= s /\ Add(x, L) > slot})

(* Mutant: a slot one older than the window stays.                          *)
PopOldLate(map, slot) ==
  Keep(map, {s \in DOMAIN map : \E x \in DOMAIN map : x <= s /\ Add(x, L) + 1 >= slot})

(* while first + lookback < slot: pop_first.  The loop stops at the first   *)
(* key that passes, so every later key stays.                               *)
PopOld(map, slot) ==
  Keep(map, {s \in DOMAIN map : \E x \in DOMAIN map : x <= s /\ Add(x, L) >= slot})

(* Mutant: the bound is off by one, one slot more stays.                    *)
PopFarLate(map) ==
  Keep(map, {s \in DOMAIN map : Cardinality({x \in DOMAIN map : x < s}) <= 4 * L})

(* Mutant: the bound is slot_lookback itself.                               *)
PopFarNear(map) ==
  Keep(map, {s \in DOMAIN map : Cardinality({x \in DOMAIN map : x < s}) < L})

(* while len > 4 * lookback: pop_last.                                      *)
PopFar(map) ==
  Keep(map, {s \in DOMAIN map : Cardinality({x \in DOMAIN map : x < s}) < 4 * L})

Evict(map, moved, slot) == PopFar(IF moved THEN PopOld(map, slot) ELSE map)

(* Mutant: any shred moves the window.                                      *)
MovesAlways(segments, slot) == slot > highest_slot

(* Only a slot that produced a complete run moves the window.               *)
Moves(segments, slot) == segments # {} /\ slot > highest_slot

InsertCounts(st, sh, segments) ==
  LET new == Verdict(st, sh) = "new"
  IN  [Count({"packets", Verdict(st, sh)}) EXCEPT
         !["recovered"] = IF new THEN Cardinality(Recovered(st, sh, Recovery)) ELSE 0,
         !["recovery_failures"] = IF new /\ RecoveryFails(st, sh, Recovery) THEN 1 ELSE 0,
         !["batches"] = Cardinality(segments)]

RawBatch(slot, g) ==
  [slot |-> slot, start |-> g.start, end |-> g.end,
   bytes |-> g.bytes, last |-> g.last]

PushShred(p) ==
  LET sh == Parse(p)
      st == SlotAt(sh.slot)
      segments == Segments(st, sh, Recovery)
      moved == Moves(segments, sh.slot)
  IN  /\ Accepted(p)
      /\ ~Stale(sh.slot, highest_slot)
      /\ ~Panics(sh)
      /\ slots' = Evict(With(slots, sh.slot, SlotInsert(st, sh, Recovery)),
                        moved, sh.slot)
      /\ highest_slot' = IF moved THEN sh.slot ELSE highest_slot
      /\ Hand({RawBatch(sh.slot, g) : g \in segments},
              InsertCounts(st, sh, segments))
      /\ UNCHANGED panicked

Push(p) ==
  /\ ~panicked
  /\ \/ PushInvalid(p)
     \/ PushWrongVersion(p)
     \/ PushStale(p)
     \/ PushPanics(p)
     \/ PushShred(p)

Next == \E p \in Packet : Push(p)

Spec == Init /\ [][Next]_vars

-----------------------------------------------------------------------------
(* Properties *)

AllHanded == emitted \cup Handed(out)

(* Everything in the core keeps its type.                                   *)
TypeOK ==
  /\ DOMAIN slots \subseteq 0 .. (W - 1)
  /\ \A s \in DOMAIN slots : slots[s] \in SlotState
  /\ highest_slot \in 0 .. (W - 1)
  /\ \A b \in out : b.slot \in 0 .. (W - 1) /\ IsSegment(b)
  /\ emitted \subseteq (0 .. (W - 1)) \X Index \X Index
  /\ tally \in [Counter -> Nat]
  /\ panicked \in BOOLEAN

(* No data shred of a slot is handed out in two batches, although evicting  *)
(* a slot forgets what it has handed out.                                   *)
ExactlyOnce ==
  /\ \A b, c \in out : b # c => b.end < c.start \/ c.end < b.start
  /\ \A b \in out, r \in emitted :
       b.slot = r[1] => b.end < r[2] \/ r[3] < b.start

(* The map remembers exactly what each of its slots has handed out, and a   *)
(* slot that handed something out and is gone can only meet the stale test. *)
HandedIsRemembered ==
  /\ \A s \in DOMAIN slots :
       slots[s].consumed = UNION {r[2] .. r[3] : r \in {x \in AllHanded : x[1] = s}}
  /\ \A r \in AllHanded : r[1] \in DOMAIN slots \/ Stale(r[1], highest_slot)

(* No kept slot is older than the window, and the map obeys its bound.      *)
Bounded ==
  /\ \A s \in DOMAIN slots : s + L >= highest_slot
  /\ ~panicked => Cardinality(DOMAIN slots) <= 4 * L

(* The window's upper end is the newest slot that handed out a batch.       *)
WindowFollowsBatches ==
  /\ \A r \in AllHanded : r[1] <= highest_slot
  /\ highest_slot # 0 => \E r \in AllHanded : r[1] = highest_slot

(* A slot leaves the map only when the stale test now turns its shreds away *)
(* or when it lies at least 3 * slot_lookback past the window's upper end:  *)
(* the memory bound never costs a slot near the window.                     *)
EvictsOnlyFarSlots ==
  [][\A s \in DOMAIN slots \ DOMAIN slots' :
       Stale(s, highest_slot') \/ s >= highest_slot' + 3 * L]_vars

(* The stale test never turns away a slot the map still holds state for,    *)
(* unless its number is within slot_lookback of the top of u64.             *)
KeptIsNotStale ==
  \A s \in DOMAIN slots : s + L < W => ~Stale(s, highest_slot)

-----------------------------------------------------------------------------
(* Statements of comments, docs and tests that the code does not meet.      *)

(* shred.rs:278: code shreds "share `fec_set_index` with the data shreds    *)
(* they protect"; push_raw of any datagram returns.                         *)
PushReturns == ~panicked

=============================================================================
