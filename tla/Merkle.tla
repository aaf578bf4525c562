------------------------------- MODULE Merkle -------------------------------
(***************************************************************************)
(* merkle.rs: Tree::new, Tree::proof and root_from_proof, one step per     *)
(* turn of their loops.  Hashing is symbolic: leaf(v) and join(l, r) are   *)
(* terms, so distinct inputs have distinct hashes, and an entry truncated  *)
(* to PROOF_ENTRY_SIZE bytes stands for the node it is taken from (join    *)
(* hashes only those bytes of its children).  Sequences start at 1, the    *)
(* vectors of the code at 0.                                               *)
(***************************************************************************)
EXTENDS Integers, Sequences

CONSTANT MaxLeaves     \* bound: leaves of a tree

ASSUME MerkleAssumption == MaxLeaves \in Nat \ {0}

(* The arithmetic of 2 ^ n, which the provers take for an unknown function. *)
ASSUME PowersOfTwo ==
  \A n \in 0 .. MaxLeaves : 2 ^ n \in Nat /\ 2 ^ (n + 1) = 2 * 2 ^ n

VARIABLES
  num_leaves,
  nodes,          \* leaves first, then each level up to the root
  phase,          \* which of the three functions runs, or "idle" between them
  offset, size,   \* the loops' position: a level and its number of nodes
  index,          \* the loops' index within the level
  proof,          \* entries collected so far, the whole proof once "proved"
  proved,         \* the leaf index the proof was made for
  claim,          \* what root_from_proof was called with
  node            \* its fold's node; the result once the fold is over

vars == <<num_leaves, nodes, phase, offset, size, index, proof, proved, claim, node>>

Leaf(v) == <<"leaf", v>>
Join(l, r) == <<"node", l, r>>

Least(a, b) == IF a <= b THEN a ELSE b
DivCeil2(n) == (n + 1) \div 2
Xor1(i) == IF i % 2 = 0 THEN i + 1 ELSE i - 1

NoClaim == [at |-> 0, leaf |-> 0, entries |-> 0]

Init ==
  /\ num_leaves \in 1 .. MaxLeaves
  /\ nodes = [i \in 1 .. num_leaves |-> Leaf(i - 1)]
  /\ phase = "new"
  /\ offset = 0 /\ size = num_leaves
  /\ index = 0 /\ proof = <<>> /\ proved = 0
  /\ claim = NoClaim /\ node = Leaf(0)

-----------------------------------------------------------------------------
(* Tree::new: one level per turn.                                           *)

Parent(i) == Join(nodes[i + 1], nodes[Least(i + 1, offset + size - 1) + 1])

BuildLevel ==
  /\ phase = "new" /\ size > 1
  /\ nodes' = nodes \o [m \in 1 .. DivCeil2(size) |-> Parent(offset + 2 * (m - 1))]
  /\ offset' = offset + size
  /\ size' = DivCeil2(size)
  /\ UNCHANGED <<num_leaves, phase, index, proof, proved, claim, node>>

Built ==
  /\ phase = "new" /\ size <= 1
  /\ phase' = "idle"
  /\ UNCHANGED <<num_leaves, nodes, offset, size, index, proof, proved, claim, node>>

TreeRoot == nodes[Len(nodes)]

-----------------------------------------------------------------------------
(* Tree::proof *)

StartProof(i) ==
  /\ phase = "idle"
  /\ phase' = "proof"
  /\ proved' = i /\ index' = i
  /\ proof' = <<>>
  /\ offset' = 0 /\ size' = num_leaves
  /\ UNCHANGED <<num_leaves, nodes, claim, node>>

(* Mutant: the last node of an odd level pairs with its left neighbour.     *)
ProofSiblingLeft == nodes[offset + (IF Xor1(index) < size THEN Xor1(index)
                                    ELSE Least(index, size - 2)) + 1]

ProofSibling == nodes[offset + Least(Xor1(index), size - 1) + 1]

ProofLevel ==
  /\ phase = "proof" /\ size > 1
  /\ proof' = Append(proof, ProofSibling)
  /\ offset' = offset + size
  /\ size' = DivCeil2(size)
  /\ index' = index \div 2
  /\ UNCHANGED <<num_leaves, nodes, phase, proved, claim, node>>

Proved ==
  /\ phase = "proof" /\ size <= 1
  /\ phase' = "proved"
  /\ UNCHANGED <<num_leaves, nodes, offset, size, index, proof, proved, claim, node>>

-----------------------------------------------------------------------------
(* root_from_proof, called with any index, any of the tree's leaves and the *)
(* first entries of a proof.  `size` counts the entries that are left.      *)

StartWalk(at, v, entries) ==
  /\ phase = "proved"
  /\ phase' = "walk"
  /\ claim' = [at |-> at, leaf |-> v, entries |-> entries]
  /\ index' = at /\ node' = Leaf(v)
  /\ offset' = 0 /\ size' = entries
  /\ UNCHANGED <<num_leaves, nodes, proof, proved>>

Fold(sibling) == IF index % 2 = 0 THEN Join(node, sibling) ELSE Join(sibling, node)

WalkStep ==
  /\ phase = "walk" /\ size > 0
  /\ node' = Fold(proof[offset + 1])
  /\ index' = index \div 2
  /\ offset' = offset + 1
  /\ size' = size - 1
  /\ UNCHANGED <<num_leaves, nodes, phase, proof, proved, claim>>

(* Mutant: the index left over is not looked at.                            *)
AcceptsAny == TRUE

Accepts == index = 0

(* The result has been returned; another proof may be asked for.            *)
Walked ==
  /\ phase = "walk" /\ size = 0
  /\ phase' = "idle"
  /\ index' = 0 /\ proof' = <<>> /\ proved' = 0
  /\ claim' = NoClaim /\ node' = Leaf(0) /\ offset' = 0
  /\ UNCHANGED <<num_leaves, nodes, size>>

Next ==
  \/ BuildLevel \/ Built
  \/ \E i \in 0 .. (num_leaves - 1) : StartProof(i)
  \/ ProofLevel \/ Proved
  \/ \E at \in 0 .. (2 * MaxLeaves), v \in 0 .. (num_leaves - 1),
        entries \in 0 .. Len(proof) : StartWalk(at, v, entries)
  \/ WalkStep \/ Walked

Spec == Init /\ [][Next]_vars

-----------------------------------------------------------------------------
(* Properties *)

Over == phase = "walk" /\ size = 0
Yields(root) == Over /\ Accepts /\ node = root

(* The proof Tree::proof makes leads its own leaf back to the root, also    *)
(* through levels with an odd number of nodes, and no other leaf, no other  *)
(* position in the tree and no shortened proof does: shreds cannot trade    *)
(* places within a set.  In a full tree (as the 64 leaves of a FEC set are) *)
(* this holds for every position, inside the tree or not.                   *)
ProofBindsPosition ==
  Over =>
    /\ claim.at < num_leaves =>
         (Yields(TreeRoot) <=>
            claim = [at |-> proved, leaf |-> proved, entries |-> Len(proof)])
    /\ Yields(TreeRoot) /\ num_leaves = 2 ^ Len(proof) => claim.at = proved

(* root_from_proof gives None exactly when the proof has too few entries    *)
(* for the index, whatever the hashes: the reading Shred.tla has of it.     *)
NoneIsTooShort ==
  Over => (Accepts <=> claim.at < 2 ^ claim.entries)

=============================================================================
