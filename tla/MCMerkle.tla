------------------------------ MODULE MCMerkle ------------------------------
(***************************************************************************)
(* Trees of one to six leaves: full ones, ones with an odd level at the    *)
(* bottom and ones with an odd level further up.                           *)
(***************************************************************************)
EXTENDS Merkle

=============================================================================
