------------------------------ MODULE MCListen ------------------------------
(***************************************************************************)
(* One FEC set of two data shreds and a code shred, which hold a block     *)
(* marker and an entry batch, and a code shred past the slot, for which    *)
(* push panics; three datagrams and a channel with room for one.           *)
(***************************************************************************)
EXTENDS Listen, Packets

CONSTANTS r0, s0

MCCompleteLeaf == {<<r0, 0>>, <<r0, 1>>}
MCLastLeaf == {<<r0, 1>>}
MCMarkerLeaf == {<<r0, 0>>}
MCFields == <<"packets", "duplicates">>

MCPacket == WholeSet(1, 0, r0, s0, MCCompleteLeaf, MCLastLeaf)
            \cup {CodePacket(1, 2, 0, r0, s0)}

(* What BuildsWhatArrived is about.                                         *)
ASSUME BlockAssumption == OneBlock(1)

=============================================================================
