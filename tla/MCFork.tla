------------------------------- MODULE MCFork -------------------------------
(***************************************************************************)
(* One slot of two FEC sets where set 0 arrives under two Merkle roots     *)
(* that disagree on the run boundaries, one shred has another signature,   *)
(* one is of the resigned variant and so of another shard length, and one  *)
(* leaf of the second root is refused when it is rebuilt.  Set 2 also has  *)
(* shreds of a root that never ends its run, so that a scan can run into   *)
(* the end of the slot; runs start inside set 0 and end inside set 2.      *)
(***************************************************************************)
EXTENDS SlotLoop, Packets

CONSTANTS r0, r1, r2, r3, s0, s1

MCCompleteLeaf == {<<r0, 0>>, <<r1, 0>>, <<r1, 1>>, <<r2, 2>>, <<r2, 3>>}
MCLastLeaf == {<<r2, 3>>}
MCMalformed == {<<r1, 1>>}

MCPacket ==
  WholeSet(0, 0, r0, s0, MCCompleteLeaf, MCLastLeaf)
  \cup WholeSet(0, 0, r1, s0, MCCompleteLeaf, MCLastLeaf)
  \cup WholeSet(0, 2, r2, s0, MCCompleteLeaf, MCLastLeaf)
  \cup {DataPacket(0, i, r3, s0, FALSE, FALSE) : i \in {2, 3}}
  \cup {DataPacket(0, 3, r2, s1, TRUE, TRUE),
        [CodePacket(0, 0, 1, r0, s0) EXCEPT !.resigned = TRUE]}

=============================================================================
