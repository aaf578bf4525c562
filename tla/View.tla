-------------------------------- MODULE View --------------------------------
(***************************************************************************)
(* view.rs: scanning a segment without decoding it.  EntryIter and TxIter  *)
(* are lazy; the consumer asks for the next entry or for the next          *)
(* transaction of the entry it has, and may leave an entry half read.      *)
(*                                                                         *)
(* A segment is what entry::encode wrote, possibly padded at the end, cut  *)
(* short, or with one cell overwritten.                                    *)
(***************************************************************************)
EXTENDS Entry

CONSTANTS
  Wrong,      \* values of an overwritten cell
  MaxCell,    \* bound: only this many leading cells are overwritten
  U16         \* 2^16, the modulus of signatures_offset

VARIABLES
  block,      \* the batch that was serialized
  damage,     \* "none", "padded", "cut" or "overwritten"
  segment,    \* the bytes handed out
  entries,    \* the EntryIter: its cursor and entries remaining
  txs,        \* the TxIter of the entry at hand
  views,      \* the entries yielded, with the transactions yielded of each
  error       \* the error yielded, or "none"

vars == <<block, damage, segment, entries, txs, views, error>>

-----------------------------------------------------------------------------
(* Cursor.  A failed read leaves `error` set and later reads do nothing,    *)
(* which is what the question marks of the code amount to; `val` is the     *)
(* number read last.                                                        *)

CursorAt(bytes) == [bytes |-> bytes, offset |-> 0, error |-> "none", val |-> 0]

Fail(c, e) == IF c.error = "none" THEN [c EXCEPT !.error = e] ELSE c

(* Mutant: the last cell counts as missing.                                 *)
TakeStrict(c, n) ==
  IF c.error # "none" THEN c
  ELSE IF c.offset + n >= Len(c.bytes) /\ n > 0 THEN Fail(c, "truncated")
  ELSE [c EXCEPT !.offset = @ + n, !.val = IF n = 0 THEN 0 ELSE c.bytes[c.offset + 1]]

Take(c, n) ==
  IF c.error # "none" THEN c
  ELSE IF c.offset + n > Len(c.bytes) THEN Fail(c, "truncated")
  ELSE [c EXCEPT !.offset = @ + n, !.val = IF n = 0 THEN 0 ELSE c.bytes[c.offset + 1]]

(* The next cell, without consuming it.                                     *)
Peek(c) == IF c.offset < Len(c.bytes) THEN Take(c, 1).val ELSE -1

(* Mutant: the third byte has the weight of the second.                     *)
ShortVecLenShift(c) ==
  LET Ends(i) == /\ c.offset + i <= Len(c.bytes)
                 /\ c.bytes[c.offset + i] < TopBit
                 /\ \A j \in 1 .. (i - 1) : c.bytes[c.offset + j] >= TopBit
      Digit(i) == c.bytes[c.offset + i] % TopBit
  IN  IF c.error # "none" THEN c
      ELSE IF Ends(1) THEN [c EXCEPT !.offset = @ + 1, !.val = Digit(1)]
      ELSE IF Ends(2) THEN [c EXCEPT !.offset = @ + 2, !.val = Digit(1) + TopBit * Digit(2)]
      ELSE IF Ends(3) THEN [c EXCEPT !.offset = @ + 3,
                                     !.val = Digit(1) + TopBit * (Digit(2) + Digit(3))]
      ELSE Fail(c, IF c.offset + 3 <= Len(c.bytes) THEN "shortvec" ELSE "truncated")

(* At most three bytes, the first without its top bit is the last.          *)
ShortVecLen(c) ==
  LET Ends(i) == /\ c.offset + i <= Len(c.bytes)
                 /\ c.bytes[c.offset + i] < TopBit
                 /\ \A j \in 1 .. (i - 1) : c.bytes[c.offset + j] >= TopBit
      Digit(i) == c.bytes[c.offset + i] % TopBit
  IN  IF c.error # "none" THEN c
      ELSE IF Ends(1) THEN [c EXCEPT !.offset = @ + 1, !.val = Digit(1)]
      ELSE IF Ends(2) THEN [c EXCEPT !.offset = @ + 2, !.val = Digit(1) + TopBit * Digit(2)]
      ELSE IF Ends(3) THEN [c EXCEPT !.offset = @ + 3,
                                     !.val = Digit(1) + TopBit * Digit(2) + TopBit * TopBit * Digit(3)]
      ELSE Fail(c, IF c.offset + 3 <= Len(c.bytes) THEN "shortvec" ELSE "truncated")

TakeItems(c, width) == Take(c, c.val * width)
TakeVec(c, width) == TakeItems(ShortVecLen(c), width)

(* for _ in 0..n, with n read last; the first error ends the loop.          *)
Repeat(Op(_), c) ==
  LET run[at \in 0 .. Len(c.bytes), n \in Nat] ==
        LET next == Op([c EXCEPT !.offset = at])
        IN  IF n = 0 THEN [c EXCEPT !.offset = at]
            ELSE IF next.error = "none" THEN run[next.offset, n - 1]
            ELSE next
  IN  IF c.error = "none" THEN run[c.offset, c.val] ELSE c

-----------------------------------------------------------------------------
(* scan_transaction: the cursor behind the transaction and what TxView      *)
(* keeps of it.                                                             *)

(* Mutant: the offset of the signatures counts from the cursor's origin.    *)
TxViewAbsolute(from, to, version, signatures, num_signatures) ==
  [cursor |-> to,
   view |-> [bytes |-> SubSeq(from.bytes, from.offset + 1, to.offset),
             version |-> version,
             signatures_offset |-> signatures.offset % U16,
             num_signatures |-> num_signatures % (2 * TopBit)]]

TxView(from, to, version, signatures, num_signatures) ==
  [cursor |-> to,
   view |-> [bytes |-> SubSeq(from.bytes, from.offset + 1, to.offset),
             version |-> version,
             signatures_offset |-> (signatures.offset - from.offset) % U16,
             num_signatures |-> num_signatures % (2 * TopBit)]]

ScanInstruction(c) == TakeVec(TakeVec(Take(c, 1), 1), 1)

ScanLookup(c) == TakeVec(TakeVec(Take(c, Width.key), 1), 1)

(* The first byte of the message, consumed when it is a version.            *)
TakeVersion(c) ==
  IF Peek(c) = -1 THEN Fail(c, "truncated")
  ELSE IF Peek(c) > TopBit THEN Fail(c, "version")
  ELSE IF Peek(c) = TopBit THEN Take(c, 1)
  ELSE c

ScanMessage(c) ==
  Repeat(ScanInstruction,
         ShortVecLen(Take(TakeVec(Take(TakeVersion(c), Width.header), Width.key), Width.hash)))

ScanLookups(c) == Repeat(ScanLookup, ShortVecLen(c))

ScanLegacyOrV0(c) ==
  LET count == ShortVecLen(c)
      sigs == TakeItems(count, Width.sig)
      legacy == Peek(sigs) < TopBit
  IN  TxView(c,
             IF legacy THEN ScanMessage(sigs) ELSE ScanLookups(ScanMessage(sigs)),
             IF legacy THEN "legacy" ELSE "v0",
             count, count.val)

(* Accounts and data of the n instruction headers behind the cursor.        *)
Payloads(c, n) ==
  LET sum[i \in 0 .. n] ==
        IF i = 0 THEN 0
        ELSE sum[i - 1] + c.bytes[c.offset + 3 * i - 1] + c.bytes[c.offset + 3 * i]
  IN  sum[n]

TakePayloads(c, from, n) == IF c.error = "none" THEN Take(c, Payloads(from, n)) ELSE c

(* Unknown bits, or one of the two bits of the priority fee.                *)
BadMask(mask) == mask >= 32 \/ Bit(mask, 0) # Bit(mask, 1)
CheckMask(c) == IF BadMask(c.val) THEN Fail(c, "mask") ELSE c

ScanV1(c) ==
  LET count == Take(Take(c, 1), 1)
      mask == CheckMask(Take(Take(count, Width.header - 1), 1))
      ixs == Take(Take(mask, Width.hash), 1)
      keys == TakeItems(Take(ixs, 1), Width.key)
      config == Take(keys, ConfigLen(mask.val))
      body == TakePayloads(Take(config, 3 * ixs.val), config, ixs.val)
  IN  TxView(c, Take(body, count.val * Width.sig), "v1", body, count.val)

ScanTransaction(c) ==
  LET first == Peek(c)
  IN  IF first = -1 THEN TxView(c, Fail(c, "truncated"), "none", c, 0)
      ELSE IF first < TopBit THEN ScanLegacyOrV0(c)
      ELSE IF first = TopBit + 1 THEN ScanV1(c)
      ELSE TxView(c, Fail(c, "version"), "none", c, 0)

SkipTransaction(c) == ScanTransaction(c).cursor

(* TxView::signature: the unwrap fails when fewer bytes are left.           *)
SignatureReads(view) == view.signatures_offset + Width.sig <= Len(view.bytes)
SignatureOf(view) ==
  SubSeq(view.bytes, view.signatures_offset + 1, view.signatures_offset + Width.sig)

-----------------------------------------------------------------------------
(* The segment, entries() and the two iterators. *)

Damaged(bytes) ==
  [{"none"} -> {bytes}]
    \cup [{"padded"} -> {bytes \o <<0, 0>>}]
    \cup [{"cut"} -> {SubSeq(bytes, 1, n) : n \in 0 .. (Len(bytes) - 1)}]
    \cup [{"overwritten"} -> {[bytes EXCEPT ![i] = v] :
                               i \in 1 .. (IF Len(bytes) < MaxCell THEN Len(bytes) ELSE MaxCell),
                               v \in Wrong}]

Init ==
  /\ block \in Block
  /\ \E d \in Damaged(Written[block]) :
       damage \in DOMAIN d /\ segment = d[damage]
  /\ entries = [cursor |-> CursorAt(<<>>), remaining |-> -1]
  /\ txs = [cursor |-> CursorAt(<<>>), remaining |-> 0]
  /\ views = <<>>
  /\ error = "none"

(* view::entries *)
Open ==
  LET count == Take(CursorAt(segment), 1)
  IN  /\ entries.remaining = -1
      /\ entries' = [cursor |-> count,
                     remaining |-> IF count.error = "none" THEN count.val ELSE 0]
      /\ error' = count.error
      /\ UNCHANGED <<block, damage, segment, txs, views>>

(* Mutant: the transactions start where their count starts.                 *)
ScanEntryFromCount(c) ==
  LET count == Take(Take(Take(c, 1), Width.hash), 1)
      end == Repeat(SkipTransaction, count)
  IN  [cursor |-> end, num_transactions |-> count.val,
       transactions |-> SubSeq(c.bytes, count.offset, end.offset)]

(* EntryIter::scan_entry *)
ScanEntry(c) ==
  LET count == Take(Take(Take(c, 1), Width.hash), 1)
      end == Repeat(SkipTransaction, count)
  IN  [cursor |-> end, num_transactions |-> count.val,
       transactions |-> SubSeq(c.bytes, count.offset + 1, end.offset)]

(* Mutant: an error does not end the iteration.                             *)
AfterErrorGoesOn(iter, c) == [cursor |-> c, remaining |-> iter.remaining - 1]

(* An iterator after a step: an error sets remaining to zero.               *)
After(iter, c) ==
  [cursor |-> c,
   remaining |-> IF c.error = "none" THEN iter.remaining - 1 ELSE 0]

NextEntry ==
  /\ entries.remaining > 0
  /\ \E scanned \in {ScanEntry([entries.cursor EXCEPT !.error = "none"])} :
      /\ entries' = After(entries, scanned.cursor)
      /\ IF scanned.cursor.error = "none"
         THEN /\ views' = Append(views, [transactions |-> scanned.transactions,
                                         num_transactions |-> scanned.num_transactions,
                                         txs |-> <<>>])
              /\ txs' = [cursor |-> CursorAt(scanned.transactions),
                         remaining |-> scanned.num_transactions]
              /\ UNCHANGED error
         ELSE error' = scanned.cursor.error /\ UNCHANGED <<views, txs>>
      /\ UNCHANGED <<block, damage, segment>>

NextTx ==
  /\ txs.remaining > 0
  /\ \E scanned \in {ScanTransaction(txs.cursor)} :
      /\ txs' = After(txs, scanned.cursor)
      /\ IF scanned.cursor.error = "none"
         THEN /\ views' = [views EXCEPT ![Len(views)].txs = Append(@, scanned.view)]
              /\ UNCHANGED error
         ELSE error' = "second pass" /\ UNCHANGED views
      /\ UNCHANGED <<block, damage, segment, entries>>

Next == Open \/ NextEntry \/ NextTx

Spec == Init /\ [][Next]_vars

-----------------------------------------------------------------------------
(* Properties *)

AllViews == UNION {ToSet(views[i].txs) : i \in DOMAIN views}

(* Each entry and transaction yielded of a segment that was not overwritten *)
(* has the boundaries, version and first signature that were serialized,    *)
(* also before a cut, and whatever the consumer left unread.  The offset    *)
(* kept as u16 reaches every signature but that of a v1 transaction whose   *)
(* message, which comes first, is longer.                                   *)
BoundariesMatch ==
  damage # "overwritten" =>
    \A i \in DOMAIN views :
      /\ i <= Len(block)
      /\ views[i].num_transactions = Len(block[i])
      /\ views[i].transactions = EncodeTxs(block[i])
      /\ \A j \in DOMAIN views[i].txs :
           LET view == views[i].txs[j] tx == block[i][j]
           IN  /\ view.bytes = EncodeTx(tx)
               /\ view.version = tx.version
               /\ view.num_signatures = tx.sigs
               /\ tx.sigs > 0
                    /\ (tx.version = "v1" => Len(view.bytes) - tx.sigs * Width.sig < U16)
                  => SignatureOf(view) = Signature(1)

(* Of a segment that was not overwritten the scan yields as many entries as *)
(* decode, and ends with an error exactly when decode refuses it; a marker  *)
(* has no entries.                                                          *)
AcceptsWhatDecodeAccepts ==
  damage # "overwritten" /\ entries.remaining = 0 =>
    LET decoded == Decode(segment)
    IN  /\ decoded.result = "error" <=> error # "none"
        /\ error = "none" => Len(views) = Len(decoded.entries)

(* What scan_entry has walked over once, TxIter walks over again in its own *)
(* cursor: no error the second time, and it ends where the entry ends.      *)
SecondPassAgrees ==
  /\ error # "second pass"
  /\ views # <<>> /\ txs.remaining = 0 /\ Len(views[Len(views)].txs) > 0 =>
       LET last == views[Len(views)]
       IN  /\ Len(last.txs) = last.num_transactions
           /\ FlattenSeq([j \in DOMAIN last.txs |-> last.txs[j].bytes]) = last.transactions

(* "An error mid-segment ends the iteration with that error": no entry and  *)
(* no second error comes after it.  The transactions of the entry yielded   *)
(* before can still be read.                                                *)
ErrorIsLast ==
  [][error # "none" => UNCHANGED <<entries, error>> /\ Len(views') = Len(views)]_vars

(* "The scanner verified the signatures are in bounds": whatever was        *)
(* overwritten and however long the transaction is, the offset and number   *)
(* of signatures kept of it stay inside its bytes, although both are cut to *)
(* fewer bits, so that signature() can panic only where there is none.      *)
SignaturesInside ==
  \A view \in AllViews :
    /\ view.signatures_offset + view.num_signatures * Width.sig <= Len(view.bytes)
    /\ SignatureReads(view) \/ view.num_signatures = 0

=============================================================================
