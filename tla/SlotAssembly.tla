---------------------------- MODULE SlotAssembly ----------------------------
(***************************************************************************)
(* One SlotState and the shreds inserted into it, in any order and any     *)
(* number of times.                                                        *)
(***************************************************************************)
EXTENDS Input

VARIABLES
  slot,       \* the SlotState
  out,        \* segments pushed by the last insert
  delivered,  \* <<start, end>> of the segments pushed before it
  heard       \* history: shreds with a sound proof inserted so far

vars == <<slot, out, delivered, heard>>

Bounds(segments) == {<<g.start, g.end>> : g \in segments}

Init ==
  /\ slot = SlotDefault
  /\ out = {}
  /\ delivered = {}
  /\ heard = {}

(* SlotState::insert                                                        *)
Insert(sh) ==
  /\ ~Panics(sh)
  /\ slot' = SlotInsert(slot, sh, Recovery)
  /\ out' = Segments(slot, sh, Recovery)
  /\ delivered' = delivered \cup Bounds(out)
  /\ heard' = heard \cup {x \in {<<sh.kind, sh.fec, sh.pos>>} : sh.root # None}

Next == \E p \in Packet : WellFormed(p) /\ Insert(Parse(p))

Spec == Init /\ [][Next]_vars

-----------------------------------------------------------------------------
(* Properties *)

(* The SlotState and the pushed segments are well typed.                    *)
TypeOK ==
  /\ slot \in SlotState
  /\ \A g \in out : IsSegment(g)
  /\ delivered \subseteq Index \X Index
  /\ heard \subseteq {"data", "code"} \X SetIndex \X (0 .. (K + M - 1))

(* SlotState::data never fails: every received index that no segment has    *)
(* used yet lies in a FEC set that is still there and holds its shred.      *)
ReadableUntilConsumed ==
  \A f \in SetIndex, p \in Position :
    f + p \in slot.received \ slot.consumed =>
      slot.sets[f] # None /\ slot.sets[f].data[p] # None

(* insert leaves no work behind: each run whose shreds are all there has    *)
(* been pushed, also the one that only waited for the boundary before it.   *)
NoReadyRunLeft ==
  \A s, e \in Index :
    s <= e /\ IsRun(slot, s, e) => <<s, e>> \in delivered \cup Bounds(out)

(* No data shred is used by two segments, whether one insert pushes both or *)
(* a late duplicate arrives after the set was freed.                        *)
ExactlyOnce ==
  /\ \A g, h \in out : g # h => g.end < h.start \/ h.end < g.start
  /\ \A g \in out, r \in delivered : g.end < r[1] \/ r[2] < g.start

(* A segment never mixes shreds of different Merkle roots or signatures     *)
(* within one FEC set, received or rebuilt.                                 *)
SingleOrigin ==
  \A g \in out : \A i, j \in g.start .. g.end :
    i - (i % K) = j - (j % K) =>
      g.bytes[i].root = g.bytes[j].root /\ g.bytes[i].sig = g.bytes[j].sig

(* A set whose data was all emitted is freed and a late duplicate or code   *)
(* shred never allocates it again.                                          *)
ConsumedIsFreed ==
  \A f \in SetIndex : SetIsConsumed(slot.consumed, f) => slot.sets[f] = None

(* The counters can_recover and is_complete rely on count the stored        *)
(* shreds, a complete set keeps no code shred, every stored shred agrees    *)
(* with the pinned root and signature.                                      *)
FecSetSound ==
  \A f \in {x \in SetIndex : slot.sets[x] # None} :
    LET set == slot.sets[f]
    IN  /\ set.num_data = K - Cardinality(Missing(set))
        /\ set.num_code = Cardinality({c \in CodePosition : set.code[c] # None})
        /\ IsComplete(set) => set.num_code = 0
        /\ \A x \in Stored(set) : x.root = set.root /\ x.sig = set.sig

(* Recovery never waits: after an insert no set holds K shreds and lacks    *)
(* data, unless an attempt to rebuild it failed.                            *)
NoRecoveryLeft ==
  \A f \in {x \in SetIndex : slot.sets[x] # None} :
    Recovery /\ CanRecover(slot.sets[f]) => ~RecoverOK(slot.sets[f], f)

(* The shreds that can arrive with a sound proof, and the data indexes at   *)
(* which the block they belong to carries DATA_COMPLETE.                    *)
Sent == ShredsOf(Packet)
Ends == EndsOf(Sent)

(* What was pushed is a function of the set of shreds heard (RunDelivery),  *)
(* for a consistently shredded block.                                       *)
Block ==
  INSTANCE RunDelivery WITH
    delivered <- delivered \cup Bounds(out)

OrderIndependent == Block!BlockSpec

(* slot.rs:33: "Data shred present (received or recovered)".                *)
PresentIsReceived ==
  \A f \in {x \in SetIndex : slot.sets[x] # None}, p \in Position :
    slot.sets[f].data[p] # None => f + p \in slot.received

=============================================================================
