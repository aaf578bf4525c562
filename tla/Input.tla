------------------------------- MODULE Input -------------------------------
(***************************************************************************)
(* What a slot and the deshredder are given: the datagrams that can arrive *)
(* and Config::recover.                                                    *)
(***************************************************************************)
EXTENDS Slot

CONSTANTS
  Packet,     \* the datagrams that can arrive
  Recovery    \* Config::recover

ASSUME PacketAssumption ==
  /\ Packet \subseteq Datagram
  /\ Recovery \in BOOLEAN

(* The shreds with a sound proof among the datagrams ps, and what it means  *)
(* that a leader shredded a block consistently into the shreds S: one root, *)
(* signature and layout per FEC set, flags as the leaves have them and no   *)
(* leaf that is refused when it is rebuilt.                                 *)
ShredsOf(ps) ==
  {Parse(p) : p \in {x \in ps : WellFormed(x) /\ MerkleRoot(x) # None}}

Consistent(S) ==
  \A a \in S :
    /\ \A b \in S :
         a.fec = b.fec => a.root = b.root /\ a.sig = b.sig /\ a.len = b.len
    /\ a.kind = "data" => (a.complete <=> <<a.root, a.index>> \in CompleteLeaf)
    /\ \A p \in Position : <<a.root, a.fec + p>> \notin Malformed

(* The data indexes at which the block carries DATA_COMPLETE.               *)
EndsOf(S) ==
  {x[2] : x \in {y \in CompleteLeaf :
                   \E a \in S : a.root = y[1] /\ a.fec = y[2] - (y[2] % K)}}

=============================================================================
