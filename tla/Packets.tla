------------------------------ MODULE Packets ------------------------------
(***************************************************************************)
(* Datagrams for the model-checking modules: well-formed shreds a leader   *)
(* can send, to be varied with EXCEPT.                                     *)
(***************************************************************************)
EXTENDS Shred

DataPacket(slot, index, root, sig, complete, last) ==
  [len |-> DATA_SHRED_SIZE, variant |-> "data", resigned |-> FALSE,
   proof_size |-> 2, slot |-> slot, index |-> index, version |-> 1,
   fec_set_index |-> index - (index % K),
   parent_offset |-> IF slot = 0 THEN 0 ELSE 1,
   complete_bit |-> complete, top_bit |-> last, size |-> 100,
   num_data |-> 0, num_code |-> 0, position |-> 0, root |-> root, sig |-> sig]

CodePacket(slot, fec, position, root, sig) ==
  [len |-> CODE_SHRED_SIZE, variant |-> "code", resigned |-> FALSE,
   proof_size |-> 2, slot |-> slot, index |-> position, version |-> 1,
   fec_set_index |-> fec,
   parent_offset |-> 0, complete_bit |-> FALSE, top_bit |-> FALSE, size |-> 0,
   num_data |-> K, num_code |-> M, position |-> position,
   root |-> root, sig |-> sig]

(* The K + M shreds of set f under one root, flags as the leaves have them. *)
WholeSet(slot, f, root, sig, completeLeaf, lastLeaf) ==
  {DataPacket(slot, i, root, sig, <<root, i>> \in completeLeaf,
              <<root, i>> \in lastLeaf) : i \in SetRange(f)}
  \cup {CodePacket(slot, f, c, root, sig) : c \in CodePosition}

=============================================================================
