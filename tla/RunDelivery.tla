---------------------------- MODULE RunDelivery ----------------------------
(***************************************************************************)
(* What the assembly of one slot promises for a block a leader shredded    *)
(* consistently: the runs handed out are a function of the set of shreds   *)
(* heard, whatever their order and however often they are repeated.  A run *)
(* is handed out as soon as its shreds and the DATA_COMPLETE shred before  *)
(* it are available; K shreds of a set make all its data available.        *)
(***************************************************************************)
EXTENDS Integers, FiniteSets

CONSTANTS
  K, M, NumSets,
  Ends,       \* data indexes that carry DATA_COMPLETE
  Recovery    \* Config::recover

VARIABLES
  heard,      \* shreds heard: <<kind, FEC set, position in the batch>>
  delivered   \* runs handed out: <<first, last>>

blockVars == <<heard, delivered>>

DataIndex == 0 .. (K * NumSets - 1)

BlockShred ==
  {<<"data", K * n, p>> : n \in 0 .. (NumSets - 1), p \in 0 .. (K - 1)}
  \cup
  {<<"code", K * n, K + c>> : n \in 0 .. (NumSets - 1), c \in 0 .. (M - 1)}

Available(h) ==
  {i \in DataIndex :
     LET f == i - (i % K)
     IN  \/ <<"data", f, i - f>> \in h
         \/ Recovery /\ Cardinality({x \in h : x[2] = f}) >= K}

Runs ==
  {r \in DataIndex \X Ends :
     /\ r[1] <= r[2]
     /\ r[1] = 0 \/ r[1] - 1 \in Ends
     /\ (r[1] .. (r[2] - 1)) \cap Ends = {}}

Deliverable(h) ==
  {r \in Runs : /\ r[1] .. r[2] \subseteq Available(h)
                /\ r[1] = 0 \/ r[1] - 1 \in Available(h)}

BlockInit == heard = {} /\ delivered = {}

Hear(x) ==
  /\ heard' = heard \cup {x}
  /\ delivered' = Deliverable(heard')

BlockNext == \E x \in BlockShred : Hear(x)

BlockSpec == BlockInit /\ [][BlockNext]_blockVars

=============================================================================
