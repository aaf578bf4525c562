---------------------------- MODULE MerkleProofs ----------------------------
(***************************************************************************)
(* Proofs about Merkle for trees of every size.                            *)
(*                                                                         *)
(* The levels of a tree and the path of a leaf through them are recursive  *)
(* notions; here they are functions that exist in every reachable state    *)
(* because each turn of a loop adds one value to them.                     *)
(***************************************************************************)
EXTENDS Merkle, SequenceTheorems, TLAPS

Elements(s) == {s[i] : i \in DOMAIN s}

(* Node i of a level that starts at `off`, counted from 0.                  *)
At(off, i) == nodes[off + i + 1]

(* What off and sz say of levels 0 to top: where each starts and its size;  *)
(* each node joins two of the level below, the last of an odd level with    *)
(* itself, and no two nodes of a level are the same.                        *)
Levels(top, off, sz) ==
  /\ off[0] = 0 /\ sz[0] = num_leaves
  /\ \A j \in 0 .. top : sz[j] >= 1 /\ j + sz[j] <= num_leaves
  /\ \A j \in 0 .. (top - 1) :
       sz[j] > 1 /\ off[j + 1] = off[j] + sz[j] /\ sz[j + 1] = DivCeil2(sz[j])
  /\ Len(nodes) = off[top] + sz[top]
  /\ \A j \in 0 .. top : off[j] + sz[j] <= Len(nodes)

Joined(top, off, sz) ==
  /\ \A i \in 0 .. (num_leaves - 1) : At(0, i) = Leaf(i)
  /\ \A j \in 0 .. (top - 1) : \A i \in 0 .. (sz[j + 1] - 1) :
       At(off[j + 1], i) =
         Join(At(off[j], 2 * i), At(off[j], Least(2 * i + 1, sz[j] - 1)))

Distinct(top, off, sz) ==
  \A j \in 0 .. top : \A i, k \in 0 .. (sz[j] - 1) :
    At(off[j], i) = At(off[j], k) => i = k

(* A tree of 2 ^ h leaves has levels of 2 ^ (h - j) nodes.                  *)
Halves(top, sz) ==
  \A h \in 0 .. MaxLeaves :
    num_leaves = 2 ^ h => \A j \in 0 .. top : j <= h => sz[j] = 2 ^ (h - j)

Tree(top, off, sz) ==
  Levels(top, off, sz) /\ Joined(top, off, sz) /\ Distinct(top, off, sz) /\ Halves(top, sz)

(* The way of the leaf `proved` up d levels, and the siblings beside it.    *)
Path(d, off, sz, path) ==
  /\ path[0] = proved
  /\ \A j \in 0 .. d : path[j] < sz[j]
  /\ \A j \in 0 .. (d - 1) :
       /\ path[j + 1] = path[j] \div 2
       /\ proof[j + 1] = At(off[j], Least(Xor1(path[j]), sz[j] - 1))

(* A walk that is still on a node of the tree is on the level it has        *)
(* reached and on the way of the leaf the proof was made for; if its index  *)
(* is there too it has been from the start.  A walk from that leaf and      *)
(* position never leaves the way.                                           *)
OnTheWay(top, off, sz, path) ==
  /\ \A k \in 0 .. top : \A i \in 0 .. (sz[k] - 1) :
       node = At(off[k], i) =>
         /\ k = offset
         /\ IF offset = 0 THEN i = claim.leaf
                          ELSE i = path[offset] /\ claim.leaf = proved
         /\ /\ claim.at < num_leaves \/ num_leaves = 2 ^ top
            /\ index = path[offset]
            => claim.at = proved
  /\ claim.at < num_leaves => index < sz[offset]
  /\ claim.at = proved /\ claim.leaf = proved =>
       index = path[offset] /\ node = At(off[offset], path[offset])

Walking(top) ==
  /\ claim \in [at : Nat, leaf : 0 .. (num_leaves - 1), entries : Nat]
  /\ claim.entries <= top
  /\ offset \in Nat /\ size \in Nat /\ index \in Nat
  /\ offset + size = claim.entries
  /\ index < 2 ^ size <=> claim.at < 2 ^ claim.entries

Types ==
  /\ num_leaves \in 1 .. MaxLeaves
  /\ nodes \in Seq(Elements(nodes))
  /\ proof \in Seq(Elements(proof))
  /\ phase \in {"new", "idle", "proof", "proved", "walk"}

(* What holds in each phase, for the levels built so far.                   *)
Phases(top, off, sz) ==
  /\ phase = "new" => offset = off[top] /\ size = sz[top]
  /\ phase # "new" => sz[top] = 1
  /\ phase = "proof" =>
       /\ Len(proof) <= top
       /\ offset = off[Len(proof)] /\ size = sz[Len(proof)]
  /\ phase \in {"proved", "walk"} => Len(proof) = top
  /\ phase = "walk" => Walking(top)
  /\ phase \in {"proof", "proved", "walk"} =>
       \E path \in [0 .. top -> Nat] :
         /\ Path(Len(proof), off, sz, path)
         /\ phase = "proof" => index = path[Len(proof)]
         /\ phase = "walk" => OnTheWay(top, off, sz, path)

IInv ==
  /\ Types
  /\ \E top \in Nat : \E off, sz \in [0 .. top -> Nat] :
       Tree(top, off, sz) /\ Phases(top, off, sz)

-----------------------------------------------------------------------------
(* Arithmetic of a level and the one above it *)

(* The level above a level of n nodes, and the children of its node i.      *)
LEMMA LevelAbove ==
  ASSUME NEW n \in Nat, n >= 1
  PROVE  /\ DivCeil2(n) \in Nat /\ DivCeil2(n) >= 1
         /\ n > 1 => DivCeil2(n) <= n - 1
         /\ \A i \in 0 .. (DivCeil2(n) - 1) :
              2 * i \in 0 .. (n - 1) /\ Least(2 * i + 1, n - 1) \in 0 .. (n - 1)
BY DEF DivCeil2, Least

(* A node whose sibling is the right child of i is the left one.            *)
LEMMA LeftChild ==
  ASSUME NEW n \in Nat, n >= 1, NEW p \in 0 .. (n - 1), NEW i \in 0 .. (DivCeil2(n) - 1),
         Least(Xor1(p), n - 1) = Least(2 * i + 1, n - 1)
  PROVE  p = 2 * i
BY DEF DivCeil2, Least, Xor1

(* A node whose sibling is the left child of i is the right one, or the     *)
(* last of an odd level.                                                    *)
LEMMA RightChild ==
  ASSUME NEW n \in Nat, n >= 1, NEW p \in 0 .. (n - 1), NEW i \in 0 .. (DivCeil2(n) - 1),
         Least(Xor1(p), n - 1) = 2 * i
  PROVE  /\ p = Least(2 * i + 1, n - 1)
         /\ i = p \div 2 /\ (p = 2 * i + 1 \/ n = 2 * i + 1)
BY DEF DivCeil2, Least, Xor1

(* A node and the sibling a proof takes for it are the children of its      *)
(* parent, in the order its index says.                                     *)
LEMMA Children ==
  ASSUME NEW n \in Nat, n >= 1, NEW p \in 0 .. (n - 1)
  PROVE  /\ p \div 2 \in 0 .. (DivCeil2(n) - 1)
         /\ p % 2 = 0 => /\ p = 2 * (p \div 2)
                         /\ Least(Xor1(p), n - 1) = Least(2 * (p \div 2) + 1, n - 1)
         /\ p % 2 # 0 => /\ p = Least(2 * (p \div 2) + 1, n - 1)
                         /\ Least(Xor1(p), n - 1) = 2 * (p \div 2)
         /\ Least(Xor1(p), n - 1) \in 0 .. (n - 1)
BY DEF DivCeil2, Least, Xor1

(* Halving an index against a power of two.                                 *)
LEMMA HalfBelowPower ==
  ASSUME NEW n \in Nat, n >= 1, n <= MaxLeaves, NEW i \in Nat
  PROVE  i \div 2 < 2 ^ (n - 1) <=> i < 2 ^ n
<1> DEFINE m == n - 1
<1>1. MaxLeaves \in Nat /\ m \in 0 .. MaxLeaves /\ n = m + 1
  BY MerkleAssumption
<1>2. 2 ^ m \in Nat /\ 2 ^ (m + 1) = 2 * 2 ^ m
  BY <1>1, PowersOfTwo
<1> HIDE DEF m
<1>3. i \div 2 < 2 ^ m <=> i < 2 * 2 ^ m
  BY <1>2
<1> QED
  BY <1>1, <1>2, <1>3

(* Two terms are the same only if their parts are.                          *)
LEMMA Terms ==
  ASSUME NEW a, NEW b, NEW c, NEW d
  PROVE  /\ Join(a, b) = Join(c, d) => a = c /\ b = d
         /\ Join(a, b) # Leaf(c)
         /\ Leaf(a) = Leaf(b) => a = b
BY DEF Join, Leaf

LEMMA SeqOfElements ==
  ASSUME NEW S, NEW s \in Seq(S)
  PROVE  /\ s \in Seq(Elements(s)) /\ Len(s) \in Nat /\ DOMAIN s = 1 .. Len(s)
<1>1. Len(s) \in Nat /\ DOMAIN s = 1 .. Len(s) /\ s \in [1 .. Len(s) -> S]
  BY LenProperties
<1>2. s \in [1 .. Len(s) -> Elements(s)]
  BY <1>1 DEF Elements
<1> QED
  BY <1>1, <1>2

LEMMA TableIsSeq ==
  ASSUME NEW n \in Nat, NEW f, f = [m \in 1 .. n |-> f[m]]
  PROVE  f \in Seq(Elements(f)) /\ Len(f) = n
<1>1. f \in [1 .. n -> Elements(f)]
  BY DEF Elements
<1> QED
  BY <1>1

LEMMA WiderSeq ==
  ASSUME NEW S, NEW T, S \subseteq T, NEW s \in Seq(S)
  PROVE  s \in Seq(T)
<1>1. Len(s) \in Nat /\ s \in [1 .. Len(s) -> S]
  BY LenProperties
<1>2. s \in [1 .. Len(s) -> T]
  BY <1>1
<1> QED
  BY <1>1, <1>2

-----------------------------------------------------------------------------
(* Building the tree *)

LEMMA InitIInv == Init => IInv
<1> SUFFICES ASSUME Init PROVE IInv
  OBVIOUS
<1> DEFINE off == [j \in 0 .. 0 |-> 0]
           sz == [j \in 0 .. 0 |-> num_leaves]
<1>1. /\ num_leaves \in 1 .. MaxLeaves /\ num_leaves \in Nat /\ num_leaves >= 1
      /\ nodes = [i \in 1 .. num_leaves |-> Leaf(i - 1)]
      /\ phase = "new" /\ offset = 0 /\ size = num_leaves /\ proof = <<>>
  BY MerkleAssumption DEF Init
<1>2. nodes \in Seq(Elements(nodes)) /\ Len(nodes) = num_leaves
  BY <1>1, TableIsSeq
<1>3. \A i \in 0 .. (num_leaves - 1) : At(0, i) = Leaf(i)
  BY <1>1 DEF At
<1>4. Types
  <2>2. proof \in Seq(Elements(proof))
    BY <1>1, SeqOfElements
  <2> QED
    BY <1>1, <1>2, <2>2 DEF Types
<1>5. off \in [0 .. 0 -> Nat] /\ sz \in [0 .. 0 -> Nat] /\ off[0] = 0 /\ sz[0] = num_leaves
  BY <1>1
<1> HIDE DEF off, sz
<1>6. \A j \in 0 .. 0 : j = 0
  OBVIOUS
<1>7. 0 .. (0 - 1) = {}
  OBVIOUS
<1>8. Levels(0, off, sz) /\ Joined(0, off, sz)
  BY <1>1, <1>2, <1>3, <1>5, <1>6, <1>7 DEF Levels, Joined
<1>9. Distinct(0, off, sz)
  BY <1>3, <1>5, <1>6, Terms DEF Distinct
<1>10. Halves(0, sz)
  BY <1>5, <1>6 DEF Halves
<1>11. Phases(0, off, sz)
  BY <1>1, <1>5 DEF Phases
<1>12. Tree(0, off, sz)
  BY <1>8, <1>9, <1>10 DEF Tree
<1> QED
  BY <1>4, <1>5, <1>11, <1>12 DEF IInv

(* A turn of the loop of Tree::new adds a level.                            *)
LEMMA BuildLevelIInv ==
  ASSUME IInv, BuildLevel
  PROVE  IInv'
<1>1. /\ phase = "new" /\ phase' = "new" /\ size > 1
      /\ nodes' = nodes \o [m \in 1 .. DivCeil2(size) |-> Parent(offset + 2 * (m - 1))]
      /\ offset' = offset + size /\ size' = DivCeil2(size)
      /\ num_leaves' = num_leaves /\ proof' = proof
  BY DEF BuildLevel
<1>0. PICK top \in Nat : \E off, sz \in [0 .. top -> Nat] :
        Tree(top, off, sz) /\ Phases(top, off, sz)
  BY DEF IInv
<1>2. PICK off \in [0 .. top -> Nat], sz \in [0 .. top -> Nat] :
        Tree(top, off, sz) /\ Phases(top, off, sz)
  BY <1>0
<1>3. Levels(top, off, sz) /\ Joined(top, off, sz) /\ Distinct(top, off, sz) /\ Halves(top, sz)
  BY <1>2 DEF Tree
<1>41. offset = off[top] /\ size = sz[top] /\ top \in 0 .. top
  BY <1>1, <1>2 DEF Phases
<1>4. /\ offset \in Nat /\ size \in Nat
      /\ num_leaves \in Nat /\ num_leaves <= MaxLeaves /\ MaxLeaves \in Nat
      /\ Len(nodes) = offset + size /\ top + size <= num_leaves
  <2>1. top \in 0 .. top
    OBVIOUS
  <2>2. num_leaves \in 1 .. MaxLeaves /\ nodes \in Seq(Elements(nodes))
    BY DEF IInv, Types
  <2>4. off[top] \in Nat /\ sz[top] \in Nat
    BY <2>1
  <2>5. top + sz[top] <= num_leaves /\ Len(nodes) = off[top] + sz[top]
    BY <1>3, <2>1 DEF Levels
  <2>6. num_leaves \in Nat /\ num_leaves <= MaxLeaves /\ MaxLeaves \in Nat
    BY <2>2, MerkleAssumption
  <2> QED
    BY <1>41, <2>4, <2>5, <2>6
<1> DEFINE D == DivCeil2(size)
           new == [m \in 1 .. D |-> Parent(offset + 2 * (m - 1))]
           up == top + 1
<1>5. /\ D \in Nat /\ D >= 1 /\ D <= size - 1
      /\ \A i \in 0 .. (D - 1) : 2 * i \in 0 .. (size - 1) /\ Least(2 * i + 1, size - 1) \in 0 .. (size - 1)
  BY <1>1, <1>4, LevelAbove
<1>6. /\ nodes' \in Seq(Elements(nodes) \cup Elements(new))
      /\ Len(nodes') = offset + size + D
      /\ \A i \in 1 .. (offset + size) : nodes'[i] = nodes[i]
      /\ \A i \in 0 .. (D - 1) : nodes'[offset + size + i + 1] = Parent(offset + 2 * i)
  <2>0. new \in Seq(Elements(new)) /\ Len(new) = D
    BY <1>5, TableIsSeq
  <2>21. nodes \in Seq(Elements(nodes))
    BY DEF IInv, Types
  <2> HIDE DEF D, new
  <2>1. new \in Seq(Elements(nodes) \cup Elements(new)) /\ Len(new) = D
    BY <2>0, WiderSeq
  <2>2. nodes \in Seq(Elements(nodes) \cup Elements(new))
    BY <2>21, WiderSeq
  <2>3. /\ nodes' \in Seq(Elements(nodes) \cup Elements(new))
        /\ Len(nodes') = Len(nodes) + Len(new)
        /\ \A i \in 1 .. (Len(nodes) + Len(new)) :
             nodes'[i] = IF i <= Len(nodes) THEN nodes[i] ELSE new[i - Len(nodes)]
    <3>1. nodes' = nodes \o new
      BY <1>1 DEF D, new
    <3> QED
      BY <2>1, <2>2, <3>1, ConcatProperties
  <2>4. ASSUME NEW i \in 0 .. (D - 1) PROVE nodes'[offset + size + i + 1] = Parent(offset + 2 * i)
    <3>1. nodes'[offset + size + i + 1] = new[i + 1]
      BY <1>4, <1>5, <2>1, <2>3
    <3>2. i + 1 \in 1 .. D /\ (i + 1) - 1 = i
      BY <1>5
    <3>3. new[i + 1] = Parent(offset + 2 * ((i + 1) - 1))
      BY <3>2 DEF new
    <3> QED
      BY <3>1, <3>2, <3>3
  <2> QED
    BY <1>4, <1>5, <2>1, <2>3, <2>4
<1> HIDE DEF new
<1>71. PICK off2 \in [0 .. up -> Nat], sz2 \in [0 .. up -> Nat] :
         /\ off2 = [j \in 0 .. up |-> IF j = up THEN offset + size ELSE off[j]]
         /\ sz2 = [j \in 0 .. up |-> IF j = up THEN D ELSE sz[j]]
  <2>1. [j \in 0 .. up |-> IF j = up THEN offset + size ELSE off[j]] \in [0 .. up -> Nat]
    BY <1>4
  <2>2. [j \in 0 .. up |-> IF j = up THEN D ELSE sz[j]] \in [0 .. up -> Nat]
    BY <1>5
  <2> QED
    BY <2>1, <2>2
<1>7. /\ up \in Nat /\ up - 1 = top
      /\ off2[up] = offset + size /\ sz2[up] = D
      /\ \A j \in 0 .. top : off2[j] = off[j] /\ sz2[j] = sz[j] /\ j \in 0 .. up /\ j # up
      /\ \A j \in 0 .. up : j \in 0 .. top \/ j = up
      /\ \A j \in 0 .. (up - 1) : j \in 0 .. (top - 1) \/ j = top
      /\ \A j \in 0 .. (top - 1) : j \in 0 .. top /\ j + 1 \in 0 .. top
  BY <1>4, <1>5, <1>71
<1> HIDE DEF D, up
<1>8. ASSUME NEW j \in 0 .. top, NEW i \in 0 .. (sz[j] - 1)
      PROVE  At(off[j], i)' = At(off[j], i)
  <2>1. off[j] + sz[j] <= Len(nodes) /\ off[j] \in Nat /\ sz[j] \in Nat
    BY <1>3 DEF Levels
  <2>2. off[j] + i + 1 \in 1 .. (offset + size)
    BY <1>4, <2>1
  <2> QED
    BY <1>6, <2>2 DEF At
<1>9. ASSUME NEW i \in 0 .. (D - 1)
      PROVE  At(off2[up], i)' = Join(At(off[top], 2 * i), At(off[top], Least(2 * i + 1, sz[top] - 1)))
  <2>1. At(off2[up], i)' = Parent(offset + 2 * i)
    BY <1>6, <1>7 DEF At
  <2>2. Least(offset + 2 * i + 1, offset + size - 1) = offset + Least(2 * i + 1, size - 1)
    BY <1>4, <1>5 DEF Least
  <2>3. Parent(offset + 2 * i) =
          Join(nodes[offset + 2 * i + 1], nodes[offset + Least(2 * i + 1, size - 1) + 1])
    BY <2>2 DEF Parent
  <2> QED
    BY <1>41, <2>1, <2>3 DEF At
<1>10. Types'
  <2>1. nodes' \in Seq(Elements(nodes'))
    BY <1>6, SeqOfElements
  <2> QED
    BY <1>1, <2>1 DEF IInv, Types, Elements
<1>11. Levels(up, off2, sz2)'
  <2>1. /\ off2[0] = 0 /\ sz2[0] = num_leaves
        /\ Len(nodes') = off2[up] + sz2[up]
    <3>1. 0 \in 0 .. top
      OBVIOUS
    <3> QED
      BY <1>3, <1>6, <1>7, <3>1 DEF Levels
  <2>2. ASSUME NEW j \in 0 .. up
        PROVE  sz2[j] >= 1 /\ j + sz2[j] <= num_leaves /\ off2[j] + sz2[j] <= Len(nodes')
    <3>1. CASE j \in 0 .. top
      <4>1. sz[j] >= 1 /\ j + sz[j] <= num_leaves /\ off[j] + sz[j] <= Len(nodes)
        BY <1>3, <3>1 DEF Levels
      <4>2. off[j] \in Nat /\ sz[j] \in Nat /\ off2[j] = off[j] /\ sz2[j] = sz[j]
        BY <1>7, <3>1
      <4>3. off[j] + sz[j] <= Len(nodes')
        <5>1. Len(nodes) = offset + size /\ Len(nodes') = offset + size + D
          BY <1>4, <1>6
        <5>2. Len(nodes) \in Nat /\ Len(nodes') \in Nat /\ Len(nodes) <= Len(nodes')
          BY <1>4, <1>5, <5>1
        <5> QED
          BY <4>1, <4>2, <5>2
      <4> QED
        BY <4>1, <4>2, <4>3
    <3>2. CASE j = up
      <4>1. up = top + 1 /\ top + 1 + D <= num_leaves
        BY <1>4, <1>5 DEF up
      <4>2. off2[j] = offset + size /\ sz2[j] = D /\ Len(nodes') = offset + size + D
        BY <1>6, <1>7, <3>2
      <4>3. offset + size + D <= Len(nodes')
        BY <1>4, <1>5, <1>6
      <4> QED
        BY <1>5, <3>2, <4>1, <4>2, <4>3
    <3> QED
      BY <1>7, <3>1, <3>2
  <2>3. ASSUME NEW j \in 0 .. (up - 1)
        PROVE  sz2[j] > 1 /\ off2[j + 1] = off2[j] + sz2[j] /\ sz2[j + 1] = DivCeil2(sz2[j])
    <3>1. CASE j \in 0 .. (top - 1)
      BY <1>3, <1>7, <3>1 DEF Levels
    <3>2. CASE j = top
      <4>1. up = top + 1 /\ D = DivCeil2(sz[top]) /\ top \in 0 .. top
        BY <1>41 DEF up, D
      <4> QED
        BY <1>1, <1>41, <1>7, <3>2, <4>1
    <3> QED
      BY <1>7, <3>1, <3>2
  <2> QED
    BY <1>1, <2>1, <2>2, <2>3 DEF Levels
<1>12. Joined(up, off2, sz2)'
  <2>1. ASSUME NEW i \in 0 .. (num_leaves - 1) PROVE At(0, i)' = Leaf(i)
    <3>1. 0 \in 0 .. top /\ off[0] = 0 /\ sz[0] = num_leaves
      BY <1>3 DEF Levels
    <3>2. At(off[0], i)' = At(off[0], i)
      BY <1>8, <3>1
    <3> QED
      BY <1>3, <3>1, <3>2 DEF Joined
  <2>2. ASSUME NEW j \in 0 .. (up - 1), NEW i \in 0 .. (sz2[j + 1] - 1)
        PROVE  At(off2[j + 1], i)' =
                 Join(At(off2[j], 2 * i)', At(off2[j], Least(2 * i + 1, sz2[j] - 1))')
    <3>1. j \in 0 .. top /\ off2[j] = off[j] /\ sz2[j] = sz[j] /\ sz[j] \in Nat /\ sz[j] >= 1
      BY <1>3, <1>7 DEF Levels
    <3>2. sz2[j + 1] = DivCeil2(sz[j])
      BY <1>11, <3>1 DEF Levels
    <3>3. 2 * i \in 0 .. (sz[j] - 1) /\ Least(2 * i + 1, sz[j] - 1) \in 0 .. (sz[j] - 1)
      BY <3>1, <3>2, LevelAbove
    <3>4. /\ At(off2[j], 2 * i)' = At(off[j], 2 * i)
          /\ At(off2[j], Least(2 * i + 1, sz2[j] - 1))' = At(off[j], Least(2 * i + 1, sz[j] - 1))
      BY <1>8, <3>1, <3>3
    <3>5. CASE j \in 0 .. (top - 1)
      <4>1. j + 1 \in 0 .. top /\ off2[j + 1] = off[j + 1] /\ sz2[j + 1] = sz[j + 1]
        BY <1>7, <3>5
      <4>2. At(off[j + 1], i)' = At(off[j + 1], i)
        BY <1>8, <4>1
      <4> QED
        BY <1>3, <3>4, <3>5, <4>1, <4>2 DEF Joined
    <3>6. CASE j = top
      <4>1. j + 1 = up /\ i \in 0 .. (D - 1)
        BY <1>7, <3>6 DEF up
      <4> QED
        BY <1>9, <3>4, <3>6, <4>1
    <3> QED
      BY <1>7, <3>5, <3>6
  <2> QED
    BY <1>1, <2>1, <2>2 DEF Joined
<1>13. Distinct(up, off2, sz2)'
  <2> SUFFICES ASSUME NEW j \in 0 .. up, NEW i \in 0 .. (sz2[j] - 1), NEW k \in 0 .. (sz2[j] - 1),
                      At(off2[j], i)' = At(off2[j], k)'
               PROVE  i = k
    BY DEF Distinct
  <2>1. CASE j \in 0 .. top
    BY <1>3, <1>7, <1>8, <2>1 DEF Distinct
  <2>2. CASE j = up
    <3>1. i \in 0 .. (D - 1) /\ k \in 0 .. (D - 1)
      BY <1>7, <2>2
    <3>2. At(off[top], 2 * i) = At(off[top], 2 * k)
      BY <1>9, <2>2, <3>1, Terms
    <3>3. 2 * i \in 0 .. (sz[top] - 1) /\ 2 * k \in 0 .. (sz[top] - 1) /\ top \in 0 .. top
      BY <1>41, <1>5, <3>1
    <3>4. 2 * i = 2 * k
      BY <1>3, <3>2, <3>3 DEF Distinct
    <3> QED
      BY <3>1, <3>4
  <2> QED
    BY <1>7, <2>1, <2>2
<1>14. Halves(up, sz2)'
  <2> SUFFICES ASSUME NEW h \in 0 .. MaxLeaves, num_leaves = 2 ^ h, NEW j \in 0 .. up, j <= h
               PROVE  sz2[j] = 2 ^ (h - j)
    BY <1>1 DEF Halves
  <2>1. CASE j \in 0 .. top
    BY <1>3, <1>7, <2>1 DEF Halves
  <2>2. CASE j = up
    <3> DEFINE n == h - up
    <3>1. n \in 0 .. MaxLeaves /\ h - top = n + 1 /\ top <= h /\ top \in 0 .. top
      BY <1>4, <1>7, <2>2 DEF up
    <3>2. sz[top] = 2 ^ (n + 1)
      BY <1>3, <3>1 DEF Halves
    <3>3. 2 ^ n \in Nat /\ 2 ^ (n + 1) = 2 * 2 ^ n
      BY <3>1, PowersOfTwo
    <3>4. D = 2 ^ n
      <4> HIDE DEF n
      <4>1. D = (sz[top] + 1) \div 2
        BY <1>41 DEF D, DivCeil2
      <4>2. ASSUME NEW x \in Nat PROVE (2 * x + 1) \div 2 = x
        OBVIOUS
      <4>3. D = (2 * 2 ^ n + 1) \div 2
        BY <3>2, <3>3, <4>1
      <4> QED
        BY <3>3, <4>2, <4>3
    <3> QED
      BY <1>7, <2>2, <3>4
  <2> QED
    BY <1>7, <2>1, <2>2
<1>15. Phases(up, off2, sz2)'
  <2>1. offset' = off2[up] /\ size' = sz2[up]
    BY <1>1, <1>7 DEF D
  <2> QED
    BY <1>1, <2>1 DEF Phases
<1>16. Tree(up, off2, sz2)'
  BY <1>11, <1>12, <1>13, <1>14 DEF Tree
<1> QED
  BY <1>7, <1>10, <1>15, <1>16 DEF IInv

-----------------------------------------------------------------------------
(* Tree::proof and root_from_proof leave the tree as it is *)

LEMMA TreeKept ==
  ASSUME NEW CONSTANT top, NEW CONSTANT off, NEW CONSTANT sz,
         nodes' = nodes, num_leaves' = num_leaves, Tree(top, off, sz)
  PROVE  Tree(top, off, sz)'
<1>1. Levels(top, off, sz)' /\ Joined(top, off, sz)'
  BY DEF Tree, Levels, Joined, At
<1>2. Distinct(top, off, sz)' /\ Halves(top, sz)'
  BY DEF Tree, Distinct, Halves, At
<1> QED
  BY <1>1, <1>2 DEF Tree

(* The way of a leaf through an unchanged tree.                             *)
LEMMA PathKept ==
  ASSUME NEW CONSTANT d, NEW CONSTANT off, NEW CONSTANT sz, NEW CONSTANT path,
         nodes' = nodes, proof' = proof, proved' = proved, Path(d, off, sz, path)
  PROVE  Path(d, off, sz, path)'
BY DEF Path, At

LEMMA BuiltIInv ==
  ASSUME IInv, Built
  PROVE  IInv'
<1>1. /\ phase = "new" /\ phase' = "idle" /\ size <= 1
      /\ num_leaves' = num_leaves /\ nodes' = nodes /\ proof' = proof
  BY DEF Built
<1>2. PICK top \in Nat : \E off, sz \in [0 .. top -> Nat] :
        Tree(top, off, sz) /\ Phases(top, off, sz)
  BY DEF IInv
<1>3. PICK off \in [0 .. top -> Nat], sz \in [0 .. top -> Nat] :
        Tree(top, off, sz) /\ Phases(top, off, sz)
  BY <1>2
<1>4. Tree(top, off, sz)'
  BY <1>1, <1>3, TreeKept
<1>5. sz[top] = 1
  <2>1. top \in 0 .. top /\ sz[top] >= 1
    BY <1>3 DEF Tree, Levels
  <2>2. size = sz[top] /\ sz[top] \in Nat
    BY <1>1, <1>3, <2>1 DEF Phases
  <2> QED
    BY <1>1, <2>1, <2>2
<1>6. Phases(top, off, sz)'
  BY <1>1, <1>5 DEF Phases
<1>7. Types'
  BY <1>1 DEF IInv, Types, Elements
<1> QED
  BY <1>4, <1>6, <1>7 DEF IInv

LEMMA StartProofIInv ==
  ASSUME IInv, NEW v \in 0 .. (num_leaves - 1), StartProof(v)
  PROVE  IInv'
<1>1. /\ phase = "idle" /\ phase' = "proof" /\ proved' = v /\ index' = v
      /\ proof' = <<>> /\ offset' = 0 /\ size' = num_leaves
      /\ num_leaves' = num_leaves /\ nodes' = nodes
  BY DEF StartProof
<1>2. PICK top \in Nat : \E off, sz \in [0 .. top -> Nat] :
        Tree(top, off, sz) /\ Phases(top, off, sz)
  BY DEF IInv
<1>3. PICK off \in [0 .. top -> Nat], sz \in [0 .. top -> Nat] :
        Tree(top, off, sz) /\ Phases(top, off, sz)
  BY <1>2
<1>4. Tree(top, off, sz)'
  BY <1>1, <1>3, TreeKept
<1>5. off[0] = 0 /\ sz[0] = num_leaves /\ sz[top] = 1 /\ num_leaves \in Nat
  BY <1>1, <1>3 DEF Tree, Levels, Phases, IInv, Types
<1>6. Len(proof') = 0 /\ v \in Nat /\ v < num_leaves
  BY <1>1, <1>5
<1>7. PICK path \in [0 .. top -> Nat] : path[0] = v
  <2>1. [j \in 0 .. top |-> v] \in [0 .. top -> Nat] /\ 0 \in 0 .. top
    BY <1>6
  <2>2. [j \in 0 .. top |-> v][0] = v
    BY <2>1
  <2> QED
    BY <2>1, <2>2
<1>8. Path(0, off, sz, path)'
  <2>1. \A j \in 0 .. 0 : j = 0
    OBVIOUS
  <2>2. 0 .. (0 - 1) = {}
    OBVIOUS
  <2> QED
    BY <1>1, <1>5, <1>6, <1>7, <2>1, <2>2 DEF Path
<1>9. Phases(top, off, sz)'
  <2>1. offset' = off[0] /\ size' = sz[0] /\ index' = path[0] /\ 0 <= top
    BY <1>1, <1>5, <1>7
  <2>2. Len(proof') = 0
    BY <1>6
  <2> QED
    BY <1>1, <1>5, <1>8, <2>1, <2>2 DEF Phases
<1>10. Types'
  <2>1. proof' \in Seq(Elements(proof'))
    BY <1>1, SeqOfElements
  <2> QED
    BY <1>1, <2>1 DEF IInv, Types, Elements
<1> QED
  BY <1>4, <1>9, <1>10 DEF IInv

(* A turn of the loop of Tree::proof goes up one level.                     *)
LEMMA ProofLevelIInv ==
  ASSUME IInv, ProofLevel
  PROVE  IInv'
<1>1. /\ phase = "proof" /\ phase' = "proof" /\ size > 1
      /\ proof' = Append(proof, ProofSibling)
      /\ offset' = offset + size /\ size' = DivCeil2(size) /\ index' = index \div 2
      /\ num_leaves' = num_leaves /\ nodes' = nodes /\ proved' = proved
  BY DEF ProofLevel
<1>2. PICK top \in Nat : \E off, sz \in [0 .. top -> Nat] :
        Tree(top, off, sz) /\ Phases(top, off, sz)
  BY DEF IInv
<1>3. PICK off \in [0 .. top -> Nat], sz \in [0 .. top -> Nat] :
        Tree(top, off, sz) /\ Phases(top, off, sz)
  BY <1>2
<1>4. Tree(top, off, sz)'
  BY <1>1, <1>3, TreeKept
<1>5. PICK d \in Nat : d = Len(proof)
  BY LenProperties DEF IInv, Types
<1>6. PICK path \in [0 .. top -> Nat] : Path(d, off, sz, path) /\ index = path[d]
  BY <1>1, <1>3, <1>5 DEF Phases
<1>7. d <= top /\ offset = off[d] /\ size = sz[d] /\ sz[top] = 1
  BY <1>1, <1>3, <1>5 DEF Phases
<1>8. d < top
  <2> SUFFICES ASSUME d = top PROVE FALSE
    BY <1>7
  <2> QED
    BY <1>1, <1>7
<1>9. /\ d \in 0 .. top /\ d + 1 \in 0 .. top /\ d \in 0 .. (top - 1)
      /\ \A j \in 0 .. (d + 1) : j \in 0 .. d \/ j = d + 1
      /\ \A j \in 0 .. ((d + 1) - 1) : j \in 0 .. (d - 1) \/ j = d
      /\ \A j \in 0 .. d : j \in 0 .. top /\ j # d + 1
      /\ \A j \in 0 .. (d - 1) : j \in 0 .. d /\ j + 1 \in 0 .. d /\ j + 1 \in 1 .. d
  BY <1>8
<1>10. /\ sz[d] \in Nat /\ sz[d] >= 1 /\ path[d] \in 0 .. (sz[d] - 1)
       /\ off[d + 1] = off[d] + sz[d] /\ sz[d + 1] = DivCeil2(sz[d])
  <2>1. sz[d] \in Nat /\ path[d] \in Nat
    BY <1>9
  <2>2. sz[d] >= 1 /\ off[d + 1] = off[d] + sz[d] /\ sz[d + 1] = DivCeil2(sz[d])
    BY <1>3, <1>9 DEF Tree, Levels
  <2>3. path[d] < sz[d]
    BY <1>6, <1>9 DEF Path
  <2> QED
    BY <2>1, <2>2, <2>3
<1>11. path[d] \div 2 \in 0 .. (DivCeil2(sz[d]) - 1)
  BY <1>10, Children
<1>12. DivCeil2(sz[d]) \in Nat
  BY <1>10, LevelAbove
<1>13. PICK path2 \in [0 .. top -> Nat] :
         path2[d + 1] = path[d] \div 2 /\ \A j \in 0 .. d : path2[j] = path[j]
  <2> DEFINE p2 == [j \in 0 .. top |-> IF j = d + 1 THEN path[d] \div 2 ELSE path[j]]
  <2>1. path[d] \div 2 \in Nat
    BY <1>11, <1>12
  <2>2. p2 \in [0 .. top -> Nat]
    BY <2>1
  <2>3. p2[d + 1] = path[d] \div 2 /\ \A j \in 0 .. d : p2[j] = path[j]
    BY <1>9
  <2> QED
    BY <2>2, <2>3
<1>14. /\ proof' \in Seq(Elements(proof) \cup {ProofSibling}) /\ Len(proof') = d + 1
       /\ \A j \in 1 .. d : proof'[j] = proof[j]
       /\ proof'[d + 1] = At(off[d], Least(Xor1(path[d]), sz[d] - 1))
  <2>1. proof \in Seq(Elements(proof))
    BY DEF IInv, Types
  <2>2. proof \in Seq(Elements(proof) \cup {ProofSibling})
    BY <2>1, WiderSeq
  <2>3. /\ proof' \in Seq(Elements(proof) \cup {ProofSibling}) /\ Len(proof') = Len(proof) + 1
        /\ \A j \in 1 .. Len(proof) : proof'[j] = proof[j]
        /\ proof'[Len(proof) + 1] = ProofSibling
    BY <1>1, <2>2, AppendProperties
  <2>4. ProofSibling = At(off[d], Least(Xor1(path[d]), sz[d] - 1))
    BY <1>6, <1>7 DEF ProofSibling, At
  <2> QED
    BY <1>5, <2>3, <2>4
<1>15. Path(d + 1, off, sz, path2)'
  <2>1. path2[0] = proved'
    <3>1. 0 \in 0 .. d
      OBVIOUS
    <3> QED
      BY <1>1, <1>6, <1>13, <3>1 DEF Path
  <2>2. ASSUME NEW j \in 0 .. (d + 1) PROVE path2[j] < sz[j]
    <3>1. CASE j \in 0 .. d
      BY <1>6, <1>13, <3>1 DEF Path
    <3>2. CASE j = d + 1
      <4>1. path[d] \div 2 < DivCeil2(sz[d])
        BY <1>11, <1>12
      <4> QED
        BY <1>10, <1>13, <3>2, <4>1
    <3> QED
      BY <1>9, <3>1, <3>2
  <2>3. ASSUME NEW j \in 0 .. ((d + 1) - 1)
        PROVE  /\ path2[j + 1] = path2[j] \div 2
               /\ proof'[j + 1] = At(off[j], Least(Xor1(path2[j]), sz[j] - 1))'
    <3>1. CASE j \in 0 .. (d - 1)
      <4>1. path2[j + 1] = path[j + 1] /\ path2[j] = path[j] /\ proof'[j + 1] = proof[j + 1]
        BY <1>9, <1>13, <1>14, <3>1
      <4>2. path[j + 1] = path[j] \div 2 /\ proof[j + 1] = At(off[j], Least(Xor1(path[j]), sz[j] - 1))
        BY <1>6, <3>1 DEF Path
      <4> QED
        BY <1>1, <4>1, <4>2 DEF At
    <3>2. CASE j = d
      <4>1. path2[d] = path[d] /\ path2[d + 1] = path[d] \div 2
        BY <1>9, <1>13
      <4> QED
        BY <1>1, <1>14, <3>2, <4>1 DEF At
    <3> QED
      BY <1>9, <3>1, <3>2
  <2> QED
    BY <2>1, <2>2, <2>3 DEF Path
<1>16. Phases(top, off, sz)'
  <2>1. offset' = off[d + 1] /\ size' = sz[d + 1] /\ index' = path2[d + 1] /\ d + 1 <= top
    BY <1>1, <1>6, <1>7, <1>8, <1>10, <1>13
  <2>2. Len(proof') = d + 1
    BY <1>14
  <2> QED
    BY <1>1, <1>7, <1>15, <2>1, <2>2 DEF Phases
<1>17. Types'
  <2>1. proof' \in Seq(Elements(proof'))
    BY <1>14, SeqOfElements
  <2> QED
    BY <1>1, <2>1 DEF IInv, Types, Elements
<1> QED
  BY <1>4, <1>16, <1>17 DEF IInv

LEMMA ProvedIInv ==
  ASSUME IInv, Proved
  PROVE  IInv'
<1>1. /\ phase = "proof" /\ phase' = "proved" /\ size <= 1
      /\ num_leaves' = num_leaves /\ nodes' = nodes /\ proof' = proof /\ proved' = proved
  BY DEF Proved
<1>2. PICK top \in Nat : \E off, sz \in [0 .. top -> Nat] :
        Tree(top, off, sz) /\ Phases(top, off, sz)
  BY DEF IInv
<1>3. PICK off \in [0 .. top -> Nat], sz \in [0 .. top -> Nat] :
        Tree(top, off, sz) /\ Phases(top, off, sz)
  BY <1>2
<1>4. Tree(top, off, sz)'
  BY <1>1, <1>3, TreeKept
<1>5. PICK d \in Nat : d = Len(proof)
  BY LenProperties DEF IInv, Types
<1>6. d <= top /\ size = sz[d] /\ sz[top] = 1
  BY <1>1, <1>3, <1>5 DEF Phases
<1>7. d = top
  <2> SUFFICES ASSUME d < top PROVE FALSE
    BY <1>6
  <2>1. d \in 0 .. (top - 1) /\ d \in 0 .. top
    OBVIOUS
  <2>2. sz[d] > 1 /\ sz[d] \in Nat
    BY <1>3, <2>1 DEF Tree, Levels
  <2> QED
    BY <1>1, <1>6, <2>2
<1>8. PICK path \in [0 .. top -> Nat] : Path(d, off, sz, path)
  BY <1>1, <1>3, <1>5 DEF Phases
<1>9. Path(d, off, sz, path)'
  BY <1>1, <1>8, PathKept
<1>10. Phases(top, off, sz)'
  BY <1>1, <1>5, <1>6, <1>7, <1>9 DEF Phases
<1>11. Types'
  BY <1>1 DEF IInv, Types, Elements
<1> QED
  BY <1>4, <1>10, <1>11 DEF IInv

LEMMA WalkedIInv ==
  ASSUME IInv, Walked
  PROVE  IInv'
<1>1. /\ phase = "walk" /\ phase' = "idle" /\ proof' = <<>>
      /\ num_leaves' = num_leaves /\ nodes' = nodes
  BY DEF Walked
<1>2. PICK top \in Nat : \E off, sz \in [0 .. top -> Nat] :
        Tree(top, off, sz) /\ Phases(top, off, sz)
  BY DEF IInv
<1>3. PICK off \in [0 .. top -> Nat], sz \in [0 .. top -> Nat] :
        Tree(top, off, sz) /\ Phases(top, off, sz)
  BY <1>2
<1>4. Tree(top, off, sz)'
  BY <1>1, <1>3, TreeKept
<1>5. Phases(top, off, sz)'
  BY <1>1, <1>3 DEF Phases
<1>6. Types'
  <2>1. proof' \in Seq(Elements(proof'))
    BY <1>1, SeqOfElements
  <2> QED
    BY <1>1, <2>1 DEF IInv, Types, Elements
<1> QED
  BY <1>4, <1>5, <1>6 DEF IInv

-----------------------------------------------------------------------------
(* Walking a proof *)

(* Leaves are on the lowest level only.                                     *)
LeavesApart(top, off, sz, v) ==
  \A k \in 0 .. top : \A i \in 0 .. (sz[k] - 1) :
    Leaf(v) = At(off[k], i) => k = 0 /\ i = v

LEMMA LeafLevel ==
  ASSUME NEW top \in Nat, NEW off, NEW sz, Tree(top, off, sz), NEW v
  PROVE  LeavesApart(top, off, sz, v)
<1> SUFFICES ASSUME NEW k \in 0 .. top, NEW i \in 0 .. (sz[k] - 1), Leaf(v) = At(off[k], i)
             PROVE  k = 0 /\ i = v
  BY DEF LeavesApart
<1>1. CASE k = 0
  <2>1. i \in 0 .. (num_leaves - 1) /\ off[k] = 0
    BY <1>1 DEF Tree, Levels
  <2>2. At(0, i) = Leaf(i)
    BY <2>1 DEF Tree, Joined
  <2> QED
    BY <1>1, <2>1, <2>2, Terms
<1>2. CASE k # 0
  <2> DEFINE m == k - 1
  <2>1. m \in 0 .. (top - 1) /\ m + 1 = k
    BY <1>2
  <2>2. At(off[m + 1], i) = Join(At(off[m], 2 * i), At(off[m], Least(2 * i + 1, sz[m] - 1)))
    BY <2>1 DEF Tree, Joined
  <2>3. Join(At(off[m], 2 * i), At(off[m], Least(2 * i + 1, sz[m] - 1))) # Leaf(v)
    BY DEF Join, Leaf
  <2> HIDE DEF m
  <2>4. At(off[k], i) = Join(At(off[m], 2 * i), At(off[m], Least(2 * i + 1, sz[m] - 1)))
    BY <2>1, <2>2
  <2> QED
    BY <2>3, <2>4
<1> QED
  BY <1>1, <1>2

LEMMA StartWalkIInv ==
  ASSUME IInv, NEW at \in 0 .. (2 * MaxLeaves), NEW v \in 0 .. (num_leaves - 1),
         NEW entries \in 0 .. Len(proof), StartWalk(at, v, entries)
  PROVE  IInv'
<1>1. /\ phase = "proved" /\ phase' = "walk"
      /\ claim' = [at |-> at, leaf |-> v, entries |-> entries]
      /\ index' = at /\ node' = Leaf(v) /\ offset' = 0 /\ size' = entries
      /\ num_leaves' = num_leaves /\ nodes' = nodes /\ proof' = proof /\ proved' = proved
  BY DEF StartWalk
<1>2. PICK top \in Nat : \E off, sz \in [0 .. top -> Nat] :
        Tree(top, off, sz) /\ Phases(top, off, sz)
  BY DEF IInv
<1>3. PICK off \in [0 .. top -> Nat], sz \in [0 .. top -> Nat] :
        Tree(top, off, sz) /\ Phases(top, off, sz)
  BY <1>2
<1>4. Tree(top, off, sz)'
  BY <1>1, <1>3, TreeKept
<1>5. Len(proof) = top /\ sz[top] = 1
  BY <1>1, <1>3 DEF Phases
<1>6. PICK path \in [0 .. top -> Nat] : Path(top, off, sz, path)
  BY <1>1, <1>3, <1>5 DEF Phases
<1>7. Path(top, off, sz, path)'
  BY <1>1, <1>6, PathKept
<1>8. /\ at \in Nat /\ v \in Nat /\ entries \in Nat /\ entries <= top /\ v < num_leaves
      /\ num_leaves \in Nat
  BY <1>5, MerkleAssumption DEF IInv, Types
<1>9. claim'.at = at /\ claim'.leaf = v /\ claim'.entries = entries
  BY <1>1
<1>10. Walking(top)'
  <2>1. claim' \in [at : Nat, leaf : 0 .. (num_leaves' - 1), entries : Nat]
    BY <1>1, <1>8
  <2> QED
    BY <1>1, <1>8, <1>9, <2>1 DEF Walking
<1>11. off[0] = 0 /\ sz[0] = num_leaves /\ path[0] = proved
  BY <1>3, <1>6 DEF Tree, Levels, Path
<1>12. OnTheWay(top, off, sz, path)'
  <2>1. ASSUME NEW k \in 0 .. top, NEW i \in 0 .. (sz[k] - 1), node' = At(off[k], i)'
        PROVE  k = 0 /\ i = v
    <3>1. Leaf(v) = At(off[k], i)
      BY <1>1, <2>1 DEF At
    <3>2. Tree(top, off, sz)
      BY <1>3
    <3>3. LeavesApart(top, off, sz, v)
      BY <3>2, LeafLevel
    <3> QED
      BY <3>1, <3>3 DEF LeavesApart
  <2>2. Leaf(v) = At(0, v)'
    BY <1>1, <1>3 DEF Tree, Joined, At
  <2>3. v = proved => node' = At(off[0], path[0])'
    BY <1>1, <1>11, <2>2
  <2> QED
    BY <1>1, <1>9, <1>11, <2>1, <2>3 DEF OnTheWay
<1>13. Phases(top, off, sz)'
  BY <1>1, <1>5, <1>7, <1>10, <1>12 DEF Phases
<1>14. Types'
  BY <1>1 DEF IInv, Types, Elements
<1> QED
  BY <1>4, <1>13, <1>14 DEF IInv

(* A turn of the fold keeps to the way or leaves the tree for good.         *)
LEMMA WalkStepIInv ==
  ASSUME IInv, WalkStep
  PROVE  IInv'
<1>1. /\ phase = "walk" /\ phase' = "walk" /\ size > 0
      /\ node' = Fold(proof[offset + 1])
      /\ index' = index \div 2 /\ offset' = offset + 1 /\ size' = size - 1
      /\ num_leaves' = num_leaves /\ nodes' = nodes /\ proof' = proof
      /\ proved' = proved /\ claim' = claim
  BY DEF WalkStep
<1>2. PICK top \in Nat : \E off, sz \in [0 .. top -> Nat] :
        Tree(top, off, sz) /\ Phases(top, off, sz)
  BY DEF IInv
<1>3. PICK off \in [0 .. top -> Nat], sz \in [0 .. top -> Nat] :
        Tree(top, off, sz) /\ Phases(top, off, sz)
  BY <1>2
<1>4. Tree(top, off, sz)'
  BY <1>1, <1>3, TreeKept
<1>5. Len(proof) = top /\ sz[top] = 1 /\ Walking(top)
  BY <1>1, <1>3 DEF Phases
<1>6. PICK path \in [0 .. top -> Nat] : Path(top, off, sz, path) /\ OnTheWay(top, off, sz, path)
  BY <1>1, <1>3, <1>5 DEF Phases
<1>7. Path(top, off, sz, path)'
  BY <1>1, <1>6, PathKept
<1>8. PICK j \in Nat : j = offset
  BY <1>5 DEF Walking
<1>9. /\ j \in 0 .. (top - 1) /\ j \in 0 .. top /\ j + 1 \in 0 .. top
      /\ index \in Nat /\ size \in Nat /\ claim.at \in Nat /\ num_leaves \in Nat
      /\ claim.entries \in Nat /\ claim.entries <= top /\ size <= claim.entries
  BY <1>1, <1>5, <1>8, MerkleAssumption DEF Walking, IInv, Types
<1>10. PICK n \in Nat, p \in Nat : n = sz[j] /\ p = path[j]
  BY <1>9
<1>11. /\ n >= 1 /\ sz[j + 1] = DivCeil2(n) /\ p \in 0 .. (n - 1)
  <2>1. sz[j] >= 1 /\ sz[j + 1] = DivCeil2(sz[j])
    BY <1>3, <1>9 DEF Tree, Levels
  <2>2. path[j] < sz[j]
    BY <1>6, <1>9 DEF Path
  <2> QED
    BY <1>10, <2>1, <2>2
<1>12. path[j + 1] = p \div 2 /\ proof[j + 1] = At(off[j], Least(Xor1(p), n - 1))
  BY <1>6, <1>9, <1>10 DEF Path
<1>13. /\ p \div 2 \in 0 .. (DivCeil2(n) - 1)
       /\ p % 2 = 0 => p = 2 * (p \div 2) /\ Least(Xor1(p), n - 1) = Least(2 * (p \div 2) + 1, n - 1)
       /\ p % 2 # 0 => p = Least(2 * (p \div 2) + 1, n - 1) /\ Least(Xor1(p), n - 1) = 2 * (p \div 2)
       /\ Least(Xor1(p), n - 1) \in 0 .. (n - 1)
  BY <1>11, Children
<1>14. DivCeil2(n) \in Nat
  BY <1>11, LevelAbove
<1>15. node' = IF index % 2 = 0 THEN Join(node, At(off[j], Least(Xor1(p), n - 1)))
                                ELSE Join(At(off[j], Least(Xor1(p), n - 1)), node)
  BY <1>1, <1>8, <1>12 DEF Fold
<1>16. ASSUME num_leaves = 2 ^ top PROVE \E q \in Nat : n = 2 * q
  <2> DEFINE r == top - j - 1
  <2>1. top <= MaxLeaves /\ MaxLeaves \in Nat
    <3>1. top \in 0 .. top /\ top + sz[top] <= num_leaves /\ num_leaves <= MaxLeaves
      BY <1>3, MerkleAssumption DEF Tree, Levels, IInv, Types
    <3> QED
      BY <1>5, <1>9, <3>1, MerkleAssumption
  <2>2. r \in 0 .. MaxLeaves /\ top - j = r + 1 /\ top \in 0 .. MaxLeaves /\ j <= top
    BY <1>9, <2>1
  <2>3. n = 2 ^ (top - j)
    BY <1>3, <1>9, <1>10, <1>16, <2>2 DEF Tree, Halves
  <2>4. 2 ^ r \in Nat /\ 2 ^ (r + 1) = 2 * 2 ^ r
    BY <2>2, PowersOfTwo
  <2> QED
    BY <2>2, <2>3, <2>4
<1>17. ASSUME NEW k \in 0 .. top, NEW i \in 0 .. (sz[k] - 1), node' = At(off[k], i)
       PROVE  /\ k = j + 1 /\ i = p \div 2 /\ claim.leaf = proved
              /\ /\ claim.at < num_leaves \/ num_leaves = 2 ^ top
                 /\ index \div 2 = p \div 2
                 => claim.at = proved
  <2>1. k # 0
    <3> SUFFICES ASSUME k = 0 PROVE FALSE
      OBVIOUS
    <3>1. off[k] = 0 /\ i \in 0 .. (num_leaves - 1)
      BY <1>3 DEF Tree, Levels
    <3>2. At(0, i) = Leaf(i)
      BY <1>3, <3>1 DEF Tree, Joined
    <3> QED
      BY <1>15, <1>17, <3>1, <3>2 DEF Join, Leaf
  <2>2. PICK m \in Nat : m = k - 1
    BY <2>1
  <2>3. m \in 0 .. (top - 1) /\ m \in 0 .. top /\ k = m + 1
    BY <2>2
  <2>4. /\ sz[k] = DivCeil2(sz[m]) /\ sz[m] \in Nat /\ sz[m] >= 1
        /\ At(off[k], i) = Join(At(off[m], 2 * i), At(off[m], Least(2 * i + 1, sz[m] - 1)))
    BY <1>3, <2>3 DEF Tree, Levels, Joined
  <2>5. 2 * i \in 0 .. (sz[m] - 1) /\ Least(2 * i + 1, sz[m] - 1) \in 0 .. (sz[m] - 1)
    BY <2>4, LevelAbove
  <2>6. CASE index % 2 = 0
    <3>1. /\ node = At(off[m], 2 * i)
          /\ At(off[j], Least(Xor1(p), n - 1)) = At(off[m], Least(2 * i + 1, sz[m] - 1))
      BY <1>15, <1>17, <2>4, <2>6, Terms
    <3>2. /\ m = offset
          /\ IF offset = 0 THEN 2 * i = claim.leaf
                           ELSE 2 * i = path[offset] /\ claim.leaf = proved
          /\ /\ claim.at < num_leaves \/ num_leaves = 2 ^ top
             /\ index = path[offset]
             => claim.at = proved
      BY <1>6, <2>3, <2>5, <3>1 DEF OnTheWay
    <3>3. m = j
      BY <1>8, <3>2
    <3>4. Least(Xor1(p), n - 1) = Least(2 * i + 1, n - 1)
      BY <1>3, <1>9, <1>10, <1>13, <2>5, <3>1, <3>3 DEF Tree, Distinct
    <3>5. i \in 0 .. (DivCeil2(n) - 1)
      BY <1>10, <2>4, <3>3
    <3>6. p = 2 * i
      BY <1>11, <3>4, <3>5, LeftChild
    <3>7. i = p \div 2 /\ (index \div 2 = p \div 2 => index = p)
      BY <1>9, <2>6, <3>5, <3>6
    <3>8. claim.leaf = proved
      <4>1. CASE offset = 0
        BY <1>6, <1>8, <1>10, <3>2, <3>6, <4>1 DEF Path
      <4> QED
        BY <3>2, <4>1
    <3> QED
      BY <1>8, <1>10, <2>3, <3>2, <3>3, <3>7, <3>8
  <2>7. CASE index % 2 # 0
    <3>1. /\ node = At(off[m], Least(2 * i + 1, sz[m] - 1))
          /\ At(off[j], Least(Xor1(p), n - 1)) = At(off[m], 2 * i)
      BY <1>15, <1>17, <2>4, <2>7, Terms
    <3>2. /\ m = offset
          /\ IF offset = 0 THEN Least(2 * i + 1, sz[m] - 1) = claim.leaf
                           ELSE /\ Least(2 * i + 1, sz[m] - 1) = path[offset]
                                /\ claim.leaf = proved
          /\ /\ claim.at < num_leaves \/ num_leaves = 2 ^ top
             /\ index = path[offset]
             => claim.at = proved
      BY <1>6, <2>3, <2>5, <3>1 DEF OnTheWay
    <3>3. m = j
      BY <1>8, <3>2
    <3>4. Least(Xor1(p), n - 1) = 2 * i
      BY <1>3, <1>9, <1>10, <1>13, <2>5, <3>1, <3>3 DEF Tree, Distinct
    <3>5. i \in 0 .. (DivCeil2(n) - 1)
      BY <1>10, <2>4, <3>3
    <3>6. p = Least(2 * i + 1, n - 1)
      BY <1>11, <3>4, <3>5, RightChild
    <3>7. i = p \div 2 /\ (p = 2 * i + 1 \/ n = 2 * i + 1)
      BY <1>11, <3>4, <3>5, RightChild
    <3>8. claim.leaf = proved
      <4>1. CASE offset = 0
        BY <1>6, <1>8, <1>10, <3>2, <3>3, <3>6, <4>1 DEF Path
      <4> QED
        BY <3>2, <4>1
    <3>9. ASSUME claim.at < num_leaves \/ num_leaves = 2 ^ top, index \div 2 = p \div 2
          PROVE  index = p
      <4>1. index = 2 * i + 1
        <5>1. index \div 2 = i /\ i \in Nat /\ index \in Nat
          BY <1>9, <3>5, <3>7, <3>9
        <5> QED
          BY <2>7, <5>1
      <4>2. n # 2 * i + 1
        <5>1. CASE claim.at < num_leaves
          <6>1. index < n
            BY <1>6, <1>8, <1>10, <5>1 DEF OnTheWay
          <6> QED
            BY <1>9, <4>1, <6>1
        <5>2. CASE num_leaves = 2 ^ top
          <6>1. PICK q \in Nat : n = 2 * q
            BY <1>16, <5>2
          <6>2. i \in Nat
            BY <3>5
          <6> QED
            BY <6>1, <6>2
        <5> QED
          BY <3>9, <5>1, <5>2
      <4> QED
        BY <3>7, <4>1, <4>2
    <3> QED
      BY <1>8, <1>10, <2>3, <3>2, <3>3, <3>7, <3>8, <3>9
  <2> QED
    BY <2>6, <2>7
<1>18. ASSUME claim.at < num_leaves PROVE index \div 2 < sz[j + 1]
  <2>1. index < n
    BY <1>6, <1>8, <1>10, <1>18 DEF OnTheWay
  <2>2. index \in 0 .. (n - 1)
    BY <1>9, <2>1
  <2>3. index \div 2 \in 0 .. (DivCeil2(n) - 1)
    BY <1>11, <2>2, Children
  <2> QED
    BY <1>11, <1>14, <2>3
<1>19. ASSUME claim.at = proved, claim.leaf = proved
       PROVE  index \div 2 = path[j + 1] /\ node' = At(off[j + 1], path[j + 1])
  <2>1. index = p /\ node = At(off[j], p)
    BY <1>6, <1>8, <1>10, <1>19 DEF OnTheWay
  <2>2. path[j + 1] \in 0 .. (sz[j + 1] - 1)
    BY <1>11, <1>12, <1>13
  <2>3. At(off[j + 1], p \div 2) =
          Join(At(off[j], 2 * (p \div 2)), At(off[j], Least(2 * (p \div 2) + 1, n - 1)))
    BY <1>3, <1>9, <1>10, <1>12, <2>2 DEF Tree, Joined
  <2>4. CASE p % 2 = 0
    BY <1>12, <1>13, <1>15, <2>1, <2>3, <2>4
  <2>5. CASE p % 2 # 0
    BY <1>12, <1>13, <1>15, <2>1, <2>3, <2>5
  <2> QED
    BY <2>4, <2>5
<1>20. OnTheWay(top, off, sz, path)'
  <2>1. /\ offset' = j + 1 /\ j + 1 # 0 /\ index' = index \div 2
        /\ \A k, i : At(off[k], i)' = At(off[k], i)
        /\ claim' = claim /\ num_leaves' = num_leaves /\ proved' = proved
    BY <1>1, <1>8 DEF At
  <2> QED
    BY <1>12, <1>17, <1>18, <1>19, <2>1, ZenonT(60) DEF OnTheWay
<1>21. Walking(top)'
  <2>1. size \in 1 .. MaxLeaves
    <3>1. top \in 0 .. top /\ top + sz[top] <= num_leaves /\ num_leaves <= MaxLeaves
      BY <1>3, MerkleAssumption DEF Tree, Levels, IInv, Types
    <3> QED
      BY <1>1, <1>5, <1>9, <3>1, MerkleAssumption
  <2>2. index \div 2 < 2 ^ (size - 1) <=> index < 2 ^ size
    <3>1. size \in Nat /\ size >= 1 /\ size <= MaxLeaves /\ index \in Nat
      BY <1>9, <2>1
    <3> QED
      BY <3>1, HalfBelowPower
  <2>3. /\ index \div 2 \in Nat /\ size - 1 \in Nat /\ offset + 1 \in Nat
        /\ (offset + 1) + (size - 1) = claim.entries
    BY <1>5, <1>9, <2>1 DEF Walking
  <2> QED
    BY <1>1, <1>5, <2>2, <2>3 DEF Walking
<1>22. Phases(top, off, sz)'
  BY <1>1, <1>5, <1>7, <1>20, <1>21 DEF Phases
<1>23. Types'
  BY <1>1 DEF IInv, Types, Elements
<1> QED
  BY <1>4, <1>22, <1>23 DEF IInv

-----------------------------------------------------------------------------
(* The invariant and what follows from it *)

LEMMA NextIInv == IInv /\ [Next]_vars => IInv'
<1> SUFFICES ASSUME IInv, [Next]_vars PROVE IInv'
  OBVIOUS
<1>1. CASE BuildLevel
  BY <1>1, BuildLevelIInv
<1>2. CASE Built
  BY <1>2, BuiltIInv
<1>3. CASE \E i \in 0 .. (num_leaves - 1) : StartProof(i)
  BY <1>3, StartProofIInv
<1>4. CASE ProofLevel
  BY <1>4, ProofLevelIInv
<1>5. CASE Proved
  BY <1>5, ProvedIInv
<1>6. CASE \E at \in 0 .. (2 * MaxLeaves), v \in 0 .. (num_leaves - 1),
             entries \in 0 .. Len(proof) : StartWalk(at, v, entries)
  BY <1>6, StartWalkIInv
<1>7. CASE WalkStep
  BY <1>7, WalkStepIInv
<1>8. CASE Walked
  BY <1>8, WalkedIInv
<1>9. CASE UNCHANGED vars
  <2>1. /\ num_leaves' = num_leaves /\ nodes' = nodes /\ phase' = phase /\ offset' = offset
        /\ size' = size /\ index' = index /\ proof' = proof /\ proved' = proved
        /\ claim' = claim /\ node' = node
    BY <1>9 DEF vars
  <2>2. PICK top \in Nat : \E off, sz \in [0 .. top -> Nat] :
          Tree(top, off, sz) /\ Phases(top, off, sz)
    BY DEF IInv
  <2>3. PICK off \in [0 .. top -> Nat], sz \in [0 .. top -> Nat] :
          Tree(top, off, sz) /\ Phases(top, off, sz)
    BY <2>2
  <2>4. Tree(top, off, sz)'
    BY <2>1, <2>3, TreeKept
  <2>5. Phases(top, off, sz)'
    BY <2>1, <2>3, ZenonT(60) DEF Phases, Path, OnTheWay, Walking, At
  <2>6. Types'
    BY <2>1 DEF IInv, Types, Elements
  <2> QED
    BY <2>4, <2>5, <2>6 DEF IInv
<1> QED
  BY <1>1, <1>2, <1>3, <1>4, <1>5, <1>6, <1>7, <1>8, <1>9 DEF Next

LEMMA SpecIInv == Spec => []IInv
BY InitIInv, NextIInv, PTL DEF Spec

(* For a tree of any number of leaves: the proof Tree::proof makes leads    *)
(* its own leaf and position to the root in root_from_proof, and no other   *)
(* leaf, position in the tree or shorter proof does; in a full tree no      *)
(* position outside of it either.                                           *)
THEOREM MerkleProofBindsPosition == Spec => []ProofBindsPosition
<1>1. ASSUME IInv, Over
      PROVE  /\ claim.at < num_leaves =>
                  (Yields(TreeRoot) <=>
                     claim = [at |-> proved, leaf |-> proved, entries |-> Len(proof)])
             /\ Yields(TreeRoot) /\ num_leaves = 2 ^ Len(proof) => claim.at = proved
  <2>1. PICK top \in Nat : \E off, sz \in [0 .. top -> Nat] :
          Tree(top, off, sz) /\ Phases(top, off, sz)
    BY <1>1 DEF IInv
  <2>2. PICK off \in [0 .. top -> Nat], sz \in [0 .. top -> Nat] :
          Tree(top, off, sz) /\ Phases(top, off, sz)
    BY <2>1
  <2>3. phase = "walk" /\ size = 0
    BY <1>1 DEF Over
  <2>4. Len(proof) = top /\ sz[top] = 1 /\ Walking(top)
    BY <2>2, <2>3 DEF Phases
  <2>5. PICK path \in [0 .. top -> Nat] : Path(top, off, sz, path) /\ OnTheWay(top, off, sz, path)
    BY <2>2, <2>3, <2>4 DEF Phases
  <2>6. /\ offset = claim.entries /\ offset \in 0 .. top
        /\ claim \in [at : Nat, leaf : 0 .. (num_leaves - 1), entries : Nat]
    BY <2>3, <2>4 DEF Walking
  <2>7. top \in 0 .. top /\ path[top] = 0 /\ 0 \in 0 .. (sz[top] - 1)
    <3>1. path[top] < sz[top] /\ path[top] \in Nat
      BY <2>5 DEF Path
    <3> QED
      BY <2>4, <3>1
  <2>8. TreeRoot = At(off[top], 0)
    <3>1. Len(nodes) = off[top] + 1 /\ off[top] \in Nat
      BY <2>2, <2>4 DEF Tree, Levels
    <3> QED
      BY <3>1 DEF TreeRoot, At
  <2>9. ASSUME Yields(TreeRoot), claim.at < num_leaves \/ num_leaves = 2 ^ top
        PROVE  claim.entries = top /\ claim.at = proved /\ claim.leaf = proved
    <3>1. node = At(off[top], 0) /\ index = 0
      BY <2>8, <2>9 DEF Yields, Accepts
    <3>2. /\ top = offset
          /\ IF offset = 0 THEN 0 = claim.leaf ELSE claim.leaf = proved
          /\ /\ claim.at < num_leaves \/ num_leaves = 2 ^ top
             /\ index = path[offset]
             => claim.at = proved
      BY <2>5, <2>7, <3>1 DEF OnTheWay
    <3>3. claim.at = proved
      BY <2>7, <2>9, <3>1, <3>2
    <3>4. top = 0 => proved = 0
      BY <2>5, <2>7 DEF Path
    <3> QED
      BY <2>6, <3>2, <3>3, <3>4
  <2>10. ASSUME claim = [at |-> proved, leaf |-> proved, entries |-> Len(proof)]
         PROVE  Yields(TreeRoot)
    <3>1. claim.at = proved /\ claim.leaf = proved /\ claim.entries = top
      BY <2>4, <2>10
    <3>2. offset = top
      BY <2>6, <3>1
    <3>3. index = 0 /\ node = At(off[top], 0)
      BY <2>5, <2>7, <3>1, <3>2 DEF OnTheWay
    <3> QED
      BY <1>1, <2>8, <3>3 DEF Yields, Accepts
  <2>11. claim.entries = top /\ claim.at = proved /\ claim.leaf = proved =>
           claim = [at |-> proved, leaf |-> proved, entries |-> Len(proof)]
    BY <2>4, <2>6
  <2> QED
    BY <2>4, <2>9, <2>10, <2>11
<1>2. IInv => ProofBindsPosition
  BY <1>1 DEF ProofBindsPosition
<1> QED
  BY <1>2, SpecIInv, PTL

(* For a proof of any length: root_from_proof gives None exactly when the   *)
(* index has more binary digits than the proof has entries.                 *)
THEOREM MerkleNoneIsTooShort == Spec => []NoneIsTooShort
<1>1. ASSUME IInv, Over PROVE Accepts <=> claim.at < 2 ^ claim.entries
  <2>1. phase = "walk" /\ size = 0
    BY <1>1 DEF Over
  <2>2. PICK top \in Nat : Walking(top)
    BY <1>1, <2>1 DEF IInv, Phases
  <2>3. index \in Nat /\ (index < 2 ^ size <=> claim.at < 2 ^ claim.entries)
    BY <2>2 DEF Walking
  <2>4. 2 ^ 0 = 1
    OBVIOUS
  <2>5. index < 1 <=> index = 0
    BY <2>3
  <2> QED
    BY <2>1, <2>3, <2>4, <2>5 DEF Accepts
<1>2. IInv => NoneIsTooShort
  BY <1>1 DEF NoneIsTooShort
<1> QED
  BY <1>2, SpecIInv, PTL

=============================================================================
