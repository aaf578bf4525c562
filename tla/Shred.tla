------------------------------- MODULE Shred -------------------------------
(***************************************************************************)
(* shred.rs: the wire format of one datagram and the stateless checks of   *)
(* Shred::parse.  A datagram is a record of the header fields the code     *)
(* reads; signature, payload and Merkle proof are abstract: `root` is the  *)
(* Merkle root the proof leads to and stands for the leaf bytes too, since *)
(* the root commits to them.                                               *)
(***************************************************************************)
EXTENDS Integers

CONSTANTS
  K,         \* DATA_SHREDS_PER_FEC_SET (32)
  M,         \* CODE_SHREDS_PER_FEC_SET (32)
  NumSets,   \* MAX_SHREDS_PER_SLOT / K (1024): FEC sets in a slot
  Root,      \* Merkle roots
  Sig,       \* leader signatures
  None       \* Option::None

ASSUME GeometryAssumption ==
  /\ K \in Nat \ {0}
  /\ M \in Nat \ {0}
  /\ NumSets \in Nat \ {0}
  /\ None \notin Root

MAX_SHREDS_PER_SLOT == K * NumSets

Index == 0 .. (MAX_SHREDS_PER_SLOT - 1)         \* data shred indexes
SetIndex == {K * n : n \in 0 .. (NumSets - 1)}  \* aligned starts of FEC sets
Position == 0 .. (K - 1)                        \* data positions of a set
CodePosition == 0 .. (M - 1)                    \* code positions of a set
SetRange(f) == f .. (f + K - 1)                 \* data indexes of set f

-----------------------------------------------------------------------------
(* Wire sizes in bytes. *)

DATA_SHRED_SIZE   == 1203
CODE_SHRED_SIZE   == 1228
SIGNATURE_SIZE    == 64
DATA_HEADERS_SIZE == 88
CODE_HEADERS_SIZE == 89
MERKLE_ROOT_SIZE  == 32
PROOF_ENTRY_SIZE  == 20
VARIANT_OFFSET    == 64

WireSize(kind) == IF kind = "data" THEN DATA_SHRED_SIZE ELSE CODE_SHRED_SIZE
Headers(kind) == IF kind = "data" THEN DATA_HEADERS_SIZE ELSE CODE_HEADERS_SIZE

(* Room for entries or for the coded shard; negative where the checked      *)
(* subtraction of the code gives None.                                      *)
Capacity(kind, proof_size, resigned) ==
  WireSize(kind) - (Headers(kind) + MERKLE_ROOT_SIZE
                    + proof_size * PROOF_ENTRY_SIZE
                    + IF resigned THEN SIGNATURE_SIZE ELSE 0)

(* Bytes of a shred that take part in erasure coding: [first, past-last).   *)
ErasureShard(kind, proof_size, resigned) ==
  << IF kind = "data" THEN SIGNATURE_SIZE ELSE CODE_HEADERS_SIZE,
     Headers(kind) + Capacity(kind, proof_size, resigned) >>

ShardLen(kind, proof_size, resigned) ==
  LET shard == ErasureShard(kind, proof_size, resigned)
  IN  shard[2] - shard[1]

-----------------------------------------------------------------------------
(* Shred::parse *)

Datagram ==
  [len: Nat, variant: {"data", "code", "unknown"}, resigned: BOOLEAN,
   proof_size: 0 .. 15, slot: Nat, index: Nat, version: Nat,
   fec_set_index: Nat, parent_offset: Nat, complete_bit: BOOLEAN,
   top_bit: BOOLEAN, size: Nat, num_data: Nat, num_code: Nat, position: Nat,
   root: Root, sig: Sig]

IsMultipleOf(x, k) == \E n \in 0 .. x : x = k * n

LastInSlot(p) == p.complete_bit /\ p.top_bit

DataHeaderOK(p) ==
  /\ IsMultipleOf(p.fec_set_index, K)
  /\ p.index >= p.fec_set_index
  /\ p.index - p.fec_set_index < K
  /\ p.parent_offset = 0 => p.slot = 0
  /\ p.parent_offset <= p.slot
  /\ p.top_bit => p.complete_bit
  /\ LastInSlot(p) => IsMultipleOf(p.index + 1, K)
  /\ p.size >= DATA_HEADERS_SIZE
  /\ p.size <= DATA_HEADERS_SIZE + Capacity("data", p.proof_size, p.resigned)

CodeHeaderOK(p) ==
  /\ p.num_data = K
  /\ p.num_code = M
  /\ p.position < M
  /\ p.position <= p.index
  /\ IsMultipleOf(p.fec_set_index, K)

WellFormed(p) ==
  /\ p.len > VARIANT_OFFSET
  /\ p.variant \in {"data", "code"}
  /\ p.len >= WireSize(p.variant)
  /\ Capacity(p.variant, p.proof_size, p.resigned) >= 0
  /\ p.index < MAX_SHREDS_PER_SLOT
  /\ IF p.variant = "data" THEN DataHeaderOK(p) ELSE CodeHeaderOK(p)

(* Position in the erasure batch: data shreds first, then code.             *)
ErasureShardIndex(p) ==
  IF p.variant = "data" THEN p.index - p.fec_set_index ELSE K + p.position

(* The root is None when the proof is too short to reach the top from this  *)
(* leaf (merkle::root_from_proof ends at a non-zero index).                 *)
MerkleRoot(p) ==
  IF ErasureShardIndex(p) < 2 ^ p.proof_size THEN p.root ELSE None

Parse(p) ==
  [kind     |-> p.variant,
   slot     |-> p.slot,
   index    |-> p.index,
   version  |-> p.version,
   fec      |-> p.fec_set_index,
   pos      |-> ErasureShardIndex(p),
   root     |-> MerkleRoot(p),
   sig      |-> p.sig,
   len      |-> ShardLen(p.variant, p.proof_size, p.resigned),
   complete |-> p.variant = "data" /\ p.complete_bit,
   last     |-> p.variant = "data" /\ LastInSlot(p)]

=============================================================================
