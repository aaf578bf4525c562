---------------------------- MODULE MCDeshredder ----------------------------
(***************************************************************************)
(* Five consecutive slots and one within slot_lookback of the top of the   *)
(* number range, each a block of one run over two FEC sets, with           *)
(* slot_lookback 1 and so room for four slots.                             *)
(***************************************************************************)
EXTENDS Deshredder, Packets

CONSTANTS r0, s0

MCCompleteLeaf == {<<r0, 1>>}
MCLastLeaf == {<<r0, 1>>}

Slot == 1 .. 5
Top == W - 1

MCPacket ==
  {DataPacket(s, i, r0, s0, i = 1, i = 1) : s \in Slot \cup {Top}, i \in {0, 1}}
  \cup {CodePacket(2, 1, 0, r0, s0),
        CodePacket(3, 2, 0, r0, s0),
        [DataPacket(2, 0, r0, s0, FALSE, FALSE) EXCEPT !.size = 10],
        [DataPacket(2, 0, r0, s0, FALSE, FALSE) EXCEPT !.version = 2],
        [CodePacket(4, 0, 0, r0, s0) EXCEPT !.proof_size = 0]}

=============================================================================
