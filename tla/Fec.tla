-------------------------------- MODULE Fec --------------------------------
(***************************************************************************)
(* fec.rs: one FEC set, as operators on the value of a FecSet.             *)
(*                                                                         *)
(* Reed-Solomon is abstract.  A Merkle root commits to the leaves of its   *)
(* set, so reconstruction under root r yields at data index i the leaf the *)
(* constants describe: its DATA_COMPLETE and LAST_SHRED_IN_SLOT flags, and *)
(* whether the rebuilt bytes fail Shred::parse or the header comparison.   *)
(* Reconstruction itself fails exactly when the shards differ in length.   *)
(***************************************************************************)
EXTENDS Shred, FiniteSets

CONSTANTS
  CompleteLeaf,   \* <<root, index>>: leaf carries DATA_COMPLETE
  LastLeaf,       \* <<root, index>>: leaf carries LAST_SHRED_IN_SLOT
  Malformed       \* <<root, index>>: rebuilt leaf is refused

Shard == [root: Root, sig: Sig, len: Int, complete: BOOLEAN, last: BOOLEAN]

DataArray == [Position -> Shard \cup {None}]
CodeArray == [CodePosition -> Shard \cup {None}]

FecSet ==
  [data: DataArray, code: CodeArray,
   num_data: Nat, num_code: Nat,
   root: Root \cup {None}, sig: Sig \cup {None}]

ASSUME LeafAssumption ==
  /\ CompleteLeaf \subseteq Root \X Index
  /\ LastLeaf \subseteq CompleteLeaf
  /\ Malformed \subseteq Root \X Index

ASSUME NoneAssumption ==
  /\ None \notin Shard
  /\ None \notin FecSet

FecDefault ==
  [data |-> [p \in Position |-> None], code |-> [c \in CodePosition |-> None],
   num_data |-> 0, num_code |-> 0, root |-> None, sig |-> None]

IsComplete(set) == set.num_data = K

CanRecover(set) ==
  /\ ~IsComplete(set)
  /\ set.num_code > 0
  /\ set.num_data + set.num_code >= K

DropCode(set) ==
  [set EXCEPT !.code = [c \in CodePosition |-> None], !.num_code = 0]

Get(set, sh) ==
  IF sh.kind = "data" THEN set.data[sh.pos] ELSE set.code[sh.pos - K]

(* Mutant: the Merkle root is not compared with the one the set has.        *)
FecVerdictAnyRoot(set, sh) ==
  IF sh.kind = "code" /\ IsComplete(set) THEN "unneeded"
  ELSE IF Get(set, sh) # None THEN "duplicates"
  ELSE IF sh.root = None \/ (set.root # None /\ set.sig # sh.sig)
       THEN "rejected"
  ELSE "new"

(* Which of the results of FecSet::insert this shred gets.                  *)
FecVerdict(set, sh) ==
  IF sh.kind = "code" /\ IsComplete(set) THEN "unneeded"
  ELSE IF Get(set, sh) # None THEN "duplicates"
  ELSE IF \/ sh.root = None
          \/ set.root # None /\ (set.root # sh.root \/ set.sig # sh.sig)
       THEN "rejected"
  ELSE "new"

ShardOf(sh) ==
  [root |-> sh.root, sig |-> sh.sig, len |-> sh.len,
   complete |-> sh.complete, last |-> sh.last]

(* The first accepted shred pins root and signature.                        *)
Pin(set, sh) ==
  IF set.root = None THEN [set EXCEPT !.root = sh.root, !.sig = sh.sig] ELSE set

Place(set, sh) ==
  IF sh.kind = "data"
  THEN [set EXCEPT !.data[sh.pos] = ShardOf(sh), !.num_data = @ + 1]
  ELSE [set EXCEPT !.code[sh.pos - K] = ShardOf(sh), !.num_code = @ + 1]

(* Mutant: completing the set keeps its code shreds.                        *)
FecInsertKeepsCode(set, sh) == Place(Pin(set, sh), sh)

(* FecSet::insert of a shred whose verdict is "new".                        *)
FecInsert(set, sh) ==
  LET placed == Place(Pin(set, sh), sh)
  IN  IF IsComplete(placed) THEN DropCode(placed) ELSE placed

-----------------------------------------------------------------------------
(* FecSet::recover *)

Stored(set) ==
  ({set.data[p] : p \in Position} \cup {set.code[c] : c \in CodePosition})
    \ {None}

Missing(set) == {p \in Position : set.data[p] = None}

Reconstructs(set) == \A a, b \in Stored(set) : a.len = b.len

Refused(set, f) == {p \in Missing(set) : <<set.root, f + p>> \in Malformed}

(* Positions filled before the loop ends or returns early: it goes upwards  *)
(* and stops at the first rebuilt shred that is refused.                    *)
Filled(set, f) ==
  {p \in Missing(set) : Reconstructs(set) /\ \A q \in Refused(set, f) : p < q}

RecoverOK(set, f) == Reconstructs(set) /\ Refused(set, f) = {}

(* The leaf at index i, laid out like the shred used as template.           *)
Rebuilt(set, i) ==
  [root |-> set.root, sig |-> set.sig,
   len |-> (CHOOSE x \in Stored(set) : TRUE).len,
   complete |-> <<set.root, i>> \in CompleteLeaf,
   last |-> <<set.root, i>> \in LastLeaf]

(* The set after recover: the positions filled before an error stay filled, *)
(* and only a recovery that finishes drops the code shreds.                 *)
Recover(set, f) ==
  LET filled ==
        [set EXCEPT
           !.data = [p \in Position |-> IF p \in Filled(set, f)
                                        THEN Rebuilt(set, f + p) ELSE @[p]],
           !.num_data = @ + Cardinality(Filled(set, f))]
  IN  IF RecoverOK(set, f) THEN DropCode(filled) ELSE filled

=============================================================================
