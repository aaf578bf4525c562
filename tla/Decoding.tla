------------------------------ MODULE Decoding ------------------------------
(***************************************************************************)
(* entry::decode as Deshredder::push uses it: a run that push_raw hands    *)
(* out becomes a batch of entries, is a block marker, or does not decode.  *)
(* What it is depends on the run's bytes alone, so that the leaf it begins *)
(* with decides; entry.rs and its byte layout are in Entry.tla.            *)
(***************************************************************************)
EXTENDS Slot

CONSTANTS
  MarkerLeaf,   \* leaves that begin the bytes of a block marker
  BadLeaf       \* leaves that begin bytes which do not decode

ASSUME DecodingAssumption ==
  MarkerLeaf \cup BadLeaf \subseteq Root \X Index /\ MarkerLeaf \cap BadLeaf = {}

(* The counter that the outcome of decoding the run is added to.            *)
Decode(raw) ==
  LET leaf == <<raw.bytes[raw.start].root, raw.start>>
  IN  IF leaf \in MarkerLeaf THEN "block_markers"
      ELSE IF leaf \in BadLeaf THEN "decode_errors" ELSE "entries"

Decoded(raws, as) == {raw \in raws : Decode(raw) = as}

=============================================================================
