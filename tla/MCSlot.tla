------------------------------- MODULE MCSlot -------------------------------
(***************************************************************************)
(* One slot of three FEC sets from a leader that shreds consistently.  The *)
(* first run ends inside set 0, the second spans sets 0 and 1, the third   *)
(* fills set 2.  One datagram carries a proof too short for its leaf.      *)
(***************************************************************************)
EXTENDS SlotAssembly, Packets

CONSTANTS r0, r1, r2, s0

RootOf(f) == IF f = 0 THEN r0 ELSE IF f = K THEN r1 ELSE r2

MCCompleteLeaf == {<<r0, 0>>, <<r1, 3>>, <<r2, 5>>}
MCLastLeaf == {<<r2, 5>>}

MCPacket ==
  UNION {WholeSet(0, f, RootOf(f), s0, MCCompleteLeaf, MCLastLeaf) : f \in SetIndex}
  \cup {[CodePacket(0, 0, 1, r0, s0) EXCEPT !.proof_size = 1],
        [CodePacket(0, 2, 0, r1, s0) EXCEPT !.position = M]}

(* What OrderIndependent is about.                                          *)
ASSUME ConsistentAssumption == Consistent(ShredsOf(Packet))

=============================================================================
