------------------------------- MODULE Entry -------------------------------
(***************************************************************************)
(* entry.rs: the serialized form of a batch of entries, and decoding it    *)
(* into owned entries.  A batch is abstract: an entry is its transactions, *)
(* a transaction the counts that decide its layout.  Serialized, it is a   *)
(* sequence of cells: one per byte, except that a u64, the u32 config mask *)
(* and a u16 length take one cell, and that hashes, keys, signatures and   *)
(* the header are as long as Width says.  The layouts are wincode's        *)
(* (external), as the head comment of view.rs lists them.                  *)
(***************************************************************************)
EXTENDS Integers, Sequences, SequencesExt

CONSTANTS
  Width,      \* cells of a hash, key, signature, header
  TopBit,     \* 0x80, the top bit of a byte
  Block       \* the batches of entries that are serialized

ASSUME WidthAssumption ==
  /\ Width \in [{"hash", "key", "sig", "header"} -> Nat \ {0}]
  /\ TopBit \in Nat \ {0, 1}

Fill(n, v) == [i \in 1 .. n |-> v]

(* Cells of the signatures, so that each can be told from other bytes.      *)
Signature(i) == Fill(Width.sig, 10 + i)
Signatures(n) == FlattenSeq([i \in 1 .. n |-> Signature(i)])

(* compact-u16: the bits of a byte below the top one, the low ones first,   *)
(* in one, two or three bytes.                                              *)
ShortVec(n) ==
  LET low == TopBit + (n % TopBit)
      rest == n \div TopBit
  IN  IF n < TopBit THEN <<n>>
      ELSE IF rest < TopBit THEN <<low, rest>>
      ELSE <<low, TopBit + (rest % TopBit), rest \div TopBit>>

Bit(mask, k) == (mask \div 2 ^ k) % 2

(* Config values: the priority fee is twice as wide as each of the others.  *)
ConfigLen(mask) ==
  (IF Bit(mask, 0) + Bit(mask, 1) > 0 THEN 2 ELSE 0)
    + Bit(mask, 2) + Bit(mask, 3) + Bit(mask, 4)

Counted(n, cells) == ShortVec(n) \o cells

EncodeV1(tx) ==
  <<TopBit + 1, tx.sigs>> \o Fill(Width.header - 1, 0) \o <<tx.mask>>
    \o Fill(Width.hash, 9) \o <<Len(tx.ixs), tx.keys>>
    \o Fill(tx.keys * Width.key, 7) \o Fill(ConfigLen(tx.mask), 5)
    \o FlattenSeq([i \in DOMAIN tx.ixs |-> <<0, tx.ixs[i].accounts, tx.ixs[i].data>>])
    \o FlattenSeq([i \in DOMAIN tx.ixs |-> Fill(tx.ixs[i].accounts + tx.ixs[i].data, 3)])
    \o Signatures(tx.sigs)

EncodeInstruction(ix) ==
  <<0>> \o Counted(ix.accounts, Fill(ix.accounts, 2)) \o Counted(ix.data, Fill(ix.data, 3))

EncodeLookup(lookup) ==
  Fill(Width.key, 7) \o Counted(lookup.writable, Fill(lookup.writable, 1))
    \o Counted(lookup.readonly, Fill(lookup.readonly, 1))

EncodeLegacyOrV0(tx) ==
  LET Each(Op(_), seq) == FlattenSeq([i \in DOMAIN seq |-> Op(seq[i])])
      v0 == tx.version = "v0"
  IN  Counted(tx.sigs, Signatures(tx.sigs))
        \o (IF v0 THEN <<TopBit>> ELSE <<>>)
        \o <<tx.sigs>> \o Fill(Width.header - 1, 0)
        \o Counted(tx.keys, Fill(tx.keys * Width.key, 7))
        \o Fill(Width.hash, 9)
        \o Counted(Len(tx.ixs), Each(EncodeInstruction, tx.ixs))
        \o (IF v0 THEN Counted(Len(tx.lookups), Each(EncodeLookup, tx.lookups)) ELSE <<>>)

EncodeTx(tx) == IF tx.version = "v1" THEN EncodeV1(tx) ELSE EncodeLegacyOrV0(tx)

EncodeTxs(txs) == FlattenSeq([i \in DOMAIN txs |-> EncodeTx(txs[i])])

(* entry::encode: count, then num_hashes, hash, count and transactions of   *)
(* each entry.                                                              *)
Encode(block) ==
  <<Len(block)>>
    \o FlattenSeq([i \in DOMAIN block |->
         <<1>> \o Fill(Width.hash, 8) \o <<Len(block[i])>> \o EncodeTxs(block[i])])

(* entry::decode.  A zero count is a marker; bytes after the last entry are *)
(* ignored; wincode (external) reads back what it wrote and refuses what is *)
(* not the beginning of a batch.                                            *)
Written == [b \in Block |-> Encode(b)]

Decode(bytes) ==
  LET read == {b \in Block : IsPrefix(Written[b], bytes)}
  IN  IF Len(bytes) >= 1 /\ bytes[1] = 0 THEN [result |-> "marker", entries |-> <<>>]
      ELSE IF read = {} THEN [result |-> "error", entries |-> <<>>]
      ELSE [result |-> "entries", entries |-> CHOOSE b \in read : TRUE]

=============================================================================
