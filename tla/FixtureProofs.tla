--------------------------- MODULE FixtureProofs ---------------------------
(***************************************************************************)
(* Proofs about Fixture for captures of every length, with packets of any  *)
(* size, cut at any place.                                                 *)
(*                                                                         *)
(* The argument is about where records end.  Up to the first failed write  *)
(* the stream is the magic and one record after the other, and a reader    *)
(* stands at the end of the record it has returned last; so it finds the   *)
(* next header where the writer put it, or the file ends before the record *)
(* does.                                                                   *)
(***************************************************************************)
EXTENDS Fixture, SequenceTheorems, TLAPS

Cell == [part : {"magic", "stamp", "length", "byte"}, of : Nat, val : Nat]

Types ==
  /\ stream \in Seq(Cell) /\ Len(stream) >= 1 /\ stream[1] = Magic
  /\ flushed \in Nat /\ flushed <= Len(stream)
  /\ calls \in Nat
  /\ written \in Seq(Seq(Cell)) /\ yielded \in Seq(Seq(Cell))
  /\ failed \in BOOLEAN
  /\ ends \in Seq(Nat)
  /\ phase \in {"recording", "open", "reading", "end", "error"}
  /\ pos \in Nat

(* Where record i ends; the records begin behind the magic.                 *)
End(i) == IF i = 0 THEN 1 ELSE ends[i]

(* Record i is in the stream, behind record i - 1.                          *)
RecordAt(i) ==
  /\ stream[End(i - 1) + 2].val = Len(written[i])
  /\ ends[i] = End(i - 1) + 2 + Len(written[i])
  /\ \A j \in 1 .. Len(written[i]) : stream[End(i - 1) + 2 + j] = written[i][j]

(* What the writer leaves behind: records without a gap up to the first     *)
(* failed write, and nothing else as long as none has failed.               *)
Layout ==
  /\ Len(ends) <= Len(written)
  /\ \A i \in 1 .. Len(ends) : RecordAt(i) /\ ends[i] <= Len(stream)
  /\ \A i, j \in 1 .. Len(ends) : i < j => ends[i] < ends[j]
  /\ ~failed => Len(ends) = Len(written) /\ End(Len(ends)) = Len(stream)

(* Where the reader stands, what it has returned, and why it stopped.       *)
Reading ==
  /\ phase \in {"recording", "open"} => pos = 0 /\ yielded = <<>>
  /\ phase = "reading" /\ Len(yielded) <= Len(ends) => pos = End(Len(yielded))
  /\ ~failed => Len(yielded) <= Len(ends)
  /\ \A i \in 1 .. Len(yielded) : i <= Len(ends) => yielded[i] = written[i]
  /\ Done /\ Len(yielded) < Len(ends) => flushed < ends[Len(yielded) + 1]
  /\ phase = "error" /\ ~failed => flushed < Len(stream)

IInv == Types /\ Layout /\ Reading

-----------------------------------------------------------------------------
(* The stream and the file *)

(* The file is the flushed part of the stream.                              *)
LEMMA FileIs ==
  ASSUME Types
  PROVE  /\ File \in Seq(Cell) /\ Len(File) = flushed
         /\ \A i \in 1 .. flushed : File[i] = stream[i] /\ File[i].val \in Nat
<1>1. /\ stream \in Seq(Cell) /\ flushed \in Nat /\ flushed <= Len(stream)
      /\ Len(stream) \in Nat /\ \A i \in 1 .. Len(stream) : stream[i] \in Cell
  BY LenProperties, ElementOfSeq DEF Types
<1>2. \A i \in 1 .. flushed : stream[i] \in Cell
  BY <1>1
<1>3. /\ SubSeq(stream, 1, flushed) \in Seq(Cell)
      /\ Len(SubSeq(stream, 1, flushed)) = flushed
      /\ \A i \in 1 .. flushed : SubSeq(stream, 1, flushed)[i] = stream[i]
  BY <1>1, <1>2, SubSeqProperties
<1>4. \A c \in Cell : c.val \in Nat
  BY DEF Cell
<1> QED
  BY <1>2, <1>3, <1>4 DEF File

(* Records end behind the magic.                                            *)
LEMMA EndBounds ==
  ASSUME Types, Layout
  PROVE  \A i \in 0 .. Len(ends) : End(i) \in Nat /\ End(i) >= 1 /\ End(i) <= Len(stream)
<1>1. /\ Len(ends) \in Nat /\ Len(stream) \in Nat /\ Len(stream) >= 1
      /\ \A i \in 1 .. Len(ends) : ends[i] \in Nat /\ ends[i] <= Len(stream)
  BY LenProperties, ElementOfSeq DEF Types, Layout
<1>2. ASSUME NEW i \in 1 .. Len(ends) PROVE ends[i] >= 1
  <2>1. CASE i = 1
    <3>1. ends[1] = 1 + 2 + Len(written[1])
      BY <2>1 DEF Layout, RecordAt, End
    <3>2. Len(written[1]) \in Nat
      <4>1. 1 \in 1 .. Len(written)
        BY <1>1, <2>1, LenProperties DEF Types, Layout
      <4>2. written[1] \in Seq(Cell)
        BY <4>1, ElementOfSeq DEF Types
      <4> QED
        BY <4>2, LenProperties
    <3> QED
      BY <2>1, <3>1, <3>2
  <2>2. CASE i # 1
    <3>1. 1 \in 1 .. Len(ends) /\ 1 < i
      BY <1>1, <2>2
    <3>2. ends[1] < ends[i]
      BY <3>1 DEF Layout
    <3> QED
      BY <1>1, <3>1, <3>2
  <2> QED
    BY <2>1, <2>2
<1> QED
  BY <1>1, <1>2 DEF End

(* What is appended to the stream leaves the records in it as they are.     *)
LEMMA RecordKept ==
  ASSUME Types, Layout, Len(stream') \in Nat, Len(stream') >= Len(stream),
         \A k \in 1 .. Len(stream) : stream'[k] = stream[k],
         NEW i \in 1 .. Len(ends), written'[i] = written[i],
         \A k \in 1 .. Len(ends) : ends'[k] = ends[k]
  PROVE  RecordAt(i)' /\ ends'[i] <= Len(stream')
<1> DEFINE at == End(i - 1)
           p == written[i]
<1>1. /\ Len(ends) \in Nat /\ Len(stream) \in Nat
      /\ i - 1 \in 0 .. Len(ends) /\ at \in Nat /\ at >= 1
  <2>1. Len(ends) \in Nat /\ Len(stream) \in Nat
    BY LenProperties DEF Types
  <2>2. i - 1 \in 0 .. Len(ends)
    BY <2>1
  <2> QED
    BY <2>1, <2>2, EndBounds
<1>2. Len(p) \in Nat
  <2>1. i \in 1 .. Len(written)
    BY <1>1, LenProperties DEF Types, Layout
  <2>2. p \in Seq(Cell)
    BY <2>1, ElementOfSeq DEF Types
  <2> QED
    BY <2>2, LenProperties
<1>3. End(i - 1)' = at
  BY <1>1 DEF End
<1>4. /\ stream[at + 2].val = Len(p) /\ ends[i] = at + 2 + Len(p)
      /\ \A j \in 1 .. Len(p) : stream[at + 2 + j] = p[j]
      /\ ends[i] <= Len(stream)
  BY DEF Layout, RecordAt
<1> HIDE DEF at, p
<1>5. /\ at + 2 \in 1 .. Len(stream)
      /\ \A j \in 1 .. Len(p) : at + 2 + j \in 1 .. Len(stream)
  BY <1>1, <1>2, <1>4
<1>6. /\ stream'[at + 2].val = Len(p) /\ ends'[i] = at + 2 + Len(p)
      /\ \A j \in 1 .. Len(p) : stream'[at + 2 + j] = p[j]
      /\ ends'[i] <= Len(stream')
  BY <1>1, <1>2, <1>4, <1>5
<1> QED
  BY <1>3, <1>6 DEF RecordAt, p

(* The cells of a record.                                                   *)
LEMMA RecordCells ==
  ASSUME NEW n \in Nat, NEW len \in Nat
  PROVE  /\ Header(n, len) \in Seq(Cell) /\ Len(Header(n, len)) = 2
         /\ Header(n, len)[2].val = len
         /\ Packet(n, len) \in Seq(Cell) /\ Len(Packet(n, len)) = len
<1>1. Stamp(n) \in Cell /\ Length(n, len) \in Cell /\ Length(n, len).val = len
  BY DEF Stamp, Length, Cell
<1>2. Header(n, len) \in Seq(Cell) /\ Len(Header(n, len)) = 2 /\ Header(n, len)[2].val = len
  BY <1>1 DEF Header
<1>3. \A i \in 1 .. len : [part |-> "byte", of |-> n, val |-> 1] \in Cell
  BY DEF Cell
<1>4. Packet(n, len) \in Seq(Cell) /\ Len(Packet(n, len)) = len
  BY <1>3, IsASeq DEF Packet
<1> QED
  BY <1>2, <1>4

(* A sequence followed by two others.                                       *)
LEMMA ThreeParts ==
  ASSUME NEW s \in Seq(Cell), NEW h \in Seq(Cell), NEW q \in Seq(Cell)
  PROVE  LET whole == s \o h \o q
         IN  /\ whole \in Seq(Cell) /\ Len(whole) = Len(s) + Len(h) + Len(q)
             /\ \A k \in 1 .. Len(s) : whole[k] = s[k]
             /\ \A k \in 1 .. Len(h) : whole[Len(s) + k] = h[k]
             /\ \A k \in 1 .. Len(q) : whole[Len(s) + Len(h) + k] = q[k]
<1> DEFINE a == s \o h
           b == a \o q
<1>0. Len(s) \in Nat /\ Len(h) \in Nat /\ Len(q) \in Nat
  BY LenProperties
<1>1. /\ a \in Seq(Cell) /\ Len(a) = Len(s) + Len(h)
      /\ \A k \in 1 .. Len(s) + Len(h) : a[k] = IF k <= Len(s) THEN s[k] ELSE h[k - Len(s)]
  BY ConcatProperties
<1> HIDE DEF a
<1>2. /\ b \in Seq(Cell) /\ Len(b) = Len(a) + Len(q)
      /\ \A k \in 1 .. Len(a) + Len(q) : b[k] = IF k <= Len(a) THEN a[k] ELSE q[k - Len(a)]
  <2>1. a \in Seq(Cell)
    BY <1>1
  <2> QED
    BY <2>1, ConcatProperties
<1> HIDE DEF b
<1>3. \A k \in 1 .. Len(s) : b[k] = s[k]
  BY <1>0, <1>1, <1>2
<1>4. ASSUME NEW k \in 1 .. Len(h) PROVE b[Len(s) + k] = h[k]
  <2> DEFINE m == Len(s) + k
  <2>1. m \in 1 .. Len(s) + Len(h) /\ m \in 1 .. Len(a) + Len(q) /\ m <= Len(a) /\ ~(m <= Len(s)) /\ m - Len(s) = k
    BY <1>0, <1>1
  <2> HIDE DEF m
  <2> QED
    BY <1>1, <1>2, <2>1 DEF m
<1>5. ASSUME NEW k \in 1 .. Len(q) PROVE b[Len(s) + Len(h) + k] = q[k]
  <2> DEFINE m == Len(s) + Len(h) + k
  <2>1. m \in 1 .. Len(a) + Len(q) /\ ~(m <= Len(a)) /\ m - Len(a) = k
    BY <1>0, <1>1
  <2> HIDE DEF m
  <2> QED
    BY <1>2, <2>1 DEF m
<1>6. Len(b) = Len(s) + Len(h) + Len(q)
  BY <1>1, <1>2
<1> QED
  BY <1>2, <1>3, <1>4, <1>5, <1>6 DEF a, b

-----------------------------------------------------------------------------
(* The writer *)

(* A new capture satisfies the invariant.                                   *)
LEMMA InitIInv == Init => IInv
<1> SUFFICES ASSUME Init PROVE IInv
  OBVIOUS
<1>1. Magic \in Cell
  BY DEF Magic, Cell
<1>2. stream \in Seq(Cell) /\ Len(stream) = 1 /\ stream[1] = Magic
  BY <1>1 DEF Init
<1>3. Len(ends) = 0 /\ Len(written) = 0 /\ Len(yielded) = 0
      /\ ends \in Seq(Nat) /\ written \in Seq(Seq(Cell)) /\ yielded \in Seq(Seq(Cell))
  BY EmptySeq DEF Init
<1>4. Types
  <2>1. flushed = 0 /\ calls = 0 /\ pos = 0 /\ failed = FALSE /\ phase = "recording"
    BY DEF Init
  <2>2. flushed <= Len(stream) /\ Len(stream) >= 1
    BY <1>2, <2>1
  <2> QED
    BY <1>2, <1>3, <2>1, <2>2 DEF Types
<1>5. Layout
  BY <1>2, <1>3 DEF Init, Layout, End
<1>6. Reading
  BY <1>3 DEF Init, Reading, Done
<1> QED
  BY <1>4, <1>5, <1>6 DEF IInv

(* Writer::write of a packet appends its record.                            *)
LEMMA WriteIInv ==
  ASSUME IInv, NEW len \in PacketLen, Write(len)
  PROVE  IInv'
<1> DEFINE n == calls + 1
           h == Header(n, len)
           q == Packet(n, len)
           long == Len(stream) + 2 + len
<1>1. /\ phase = "recording" /\ calls' = n
      /\ stream' = stream \o h \o q /\ written' = Append(written, q)
      /\ ends' = IF failed THEN ends ELSE Append(ends, Len(stream'))
      /\ UNCHANGED <<flushed, failed, phase, pos, yielded>>
  BY DEF Write
<1>2. /\ stream \in Seq(Cell) /\ Len(stream) \in Nat /\ Len(stream) >= 1 /\ n \in Nat
      /\ ends \in Seq(Nat) /\ Len(ends) \in Nat /\ Len(written) \in Nat
      /\ len \in Nat /\ flushed \in Nat /\ flushed <= Len(stream)
      /\ written \in Seq(Seq(Cell)) /\ failed \in BOOLEAN
      /\ Types /\ Layout
  BY FixtureAssumption, LenProperties DEF IInv, Types
<1>3. /\ h \in Seq(Cell) /\ Len(h) = 2 /\ h[2].val = len
      /\ q \in Seq(Cell) /\ Len(q) = len
  BY <1>2, RecordCells
<1> HIDE DEF h, q, n
<1>4. /\ stream' \in Seq(Cell) /\ Len(stream') = long
      /\ \A k \in 1 .. Len(stream) : stream'[k] = stream[k]
      /\ stream'[Len(stream) + 2].val = len
      /\ \A k \in 1 .. len : stream'[Len(stream) + 2 + k] = q[k]
  <2> DEFINE whole == stream \o h \o q
  <2>1. /\ whole \in Seq(Cell) /\ Len(whole) = Len(stream) + Len(h) + Len(q)
        /\ \A k \in 1 .. Len(stream) : whole[k] = stream[k]
        /\ \A k \in 1 .. Len(h) : whole[Len(stream) + k] = h[k]
        /\ \A k \in 1 .. Len(q) : whole[Len(stream) + Len(h) + k] = q[k]
    BY <1>2, <1>3, ThreeParts
  <2>2. stream' = whole
    BY <1>1
  <2> HIDE DEF whole
  <2>3. 2 \in 1 .. Len(h)
    BY <1>3
  <2>4. whole[Len(stream) + 2] = h[2]
    BY <2>1, <2>3
  <2> QED
    BY <1>3, <2>1, <2>2, <2>4
<1>5. /\ written' \in Seq(Seq(Cell)) /\ Len(written') = Len(written) + 1
      /\ \A k \in 1 .. Len(written) : written'[k] = written[k]
      /\ written'[Len(written) + 1] = q
  BY <1>1, <1>2, <1>3, AppendProperties
<1>6. /\ ends' \in Seq(Nat)
      /\ \A k \in 1 .. Len(ends) : ends'[k] = ends[k]
      /\ failed => Len(ends') = Len(ends)
      /\ ~failed => Len(ends') = Len(ends) + 1 /\ ends'[Len(ends) + 1] = long
  <2>1. long \in Nat
    BY <1>2
  <2> HIDE DEF long
  <2>2. CASE failed
    BY <1>1, <1>2, <2>2
  <2>3. CASE ~failed
    <3>1. ends' = Append(ends, long)
      BY <1>1, <1>4, <2>3
    <3> QED
      BY <1>2, <2>1, <2>3, <3>1, AppendProperties
  <2> QED
    BY <2>2, <2>3
<1>7. Types'
  <2>1. stream'[1] = Magic /\ flushed' <= Len(stream') /\ Len(stream') >= 1
    BY <1>1, <1>2, <1>4 DEF Types
  <2> QED
    BY <1>1, <1>2, <1>4, <1>5, <1>6, <2>1 DEF IInv, Types
<1>8. ASSUME NEW i \in 1 .. Len(ends) PROVE RecordAt(i)' /\ ends'[i] <= Len(stream')
  <2>1. i \in 1 .. Len(written)
    BY <1>2 DEF Layout
  <2>2. Len(stream') \in Nat /\ Len(stream') >= Len(stream)
    BY <1>2, <1>4
  <2>3. written'[i] = written[i]
    BY <1>5, <2>1
  <2> QED
    BY <1>2, <1>4, <1>6, <2>2, <2>3, RecordKept
<1>9. Layout'
  <2>1. CASE failed
    <3>1. Len(ends') <= Len(written') /\ Len(ends') = Len(ends) /\ failed'
      BY <1>1, <1>2, <1>5, <1>6, <2>1 DEF Layout
    <3>2. \A i, j \in 1 .. Len(ends') : i < j => ends'[i] < ends'[j]
      BY <1>2, <1>6, <3>1 DEF Layout
    <3> QED
      BY <1>8, <3>1, <3>2 DEF Layout
  <2>2. CASE ~failed
    <3>0. PICK l \in Nat, m \in Nat : l = Len(ends) /\ m = l + 1
      BY <1>2
    <3>1. /\ l = Len(written) /\ End(l) = Len(stream)
          /\ Len(ends') = m /\ ends'[m] = long /\ Len(written') = m
      BY <1>2, <1>5, <1>6, <2>2, <3>0 DEF Layout
    <3>2. \A i \in 1 .. m : i \in 1 .. l \/ i = m
      BY <3>0
    <3>3. End(m - 1)' = Len(stream)
      <4>1. End(l)' = End(l)
        BY <1>6, <3>0 DEF End
      <4>2. m - 1 = l
        BY <3>0
      <4> QED
        BY <3>1, <4>1, <4>2
    <3>4. RecordAt(m)'
      <4>1. written'[m] = q
        BY <1>5, <3>0, <3>1
      <4> QED
        BY <1>3, <1>4, <3>1, <3>3, <4>1 DEF RecordAt
    <3>5. End(m)' = Len(stream')
      BY <1>4, <3>0, <3>1 DEF End
    <3>6. \A i \in 1 .. l : ends'[i] = ends[i] /\ ends[i] <= Len(stream) /\ ends[i] \in Nat
      BY <1>2, <1>6, <3>0, ElementOfSeq DEF Layout
    <3>7. ASSUME NEW i \in 1 .. m, NEW j \in 1 .. m, i < j PROVE ends'[i] < ends'[j]
      <4>1. i \in 1 .. l
        BY <3>0, <3>7
      <4>2. CASE j \in 1 .. l
        <5>1. ends[i] < ends[j]
          BY <3>0, <3>7, <4>1, <4>2 DEF IInv, Layout
        <5> QED
          BY <3>6, <4>1, <4>2, <5>1
      <4>3. CASE j = m
        <5>1. ends'[i] = ends[i] /\ ends[i] <= Len(stream) /\ ends[i] \in Nat
          BY <3>6, <4>1
        <5> QED
          BY <1>2, <3>1, <4>3, <5>1
      <4> QED
        BY <3>2, <4>2, <4>3
    <3>8. \A i \in 1 .. m : RecordAt(i)' /\ ends'[i] <= Len(stream')
      <4>1. ends'[m] <= Len(stream')
        BY <1>2, <1>4, <3>1
      <4>2. \A i \in 1 .. l : RecordAt(i)' /\ ends'[i] <= Len(stream')
        BY <1>8, <3>0
      <4> QED
        BY <3>2, <3>4, <4>1, <4>2
    <3>9. /\ Len(ends') <= Len(written') /\ Len(ends') = Len(written')
          /\ End(Len(ends))' = Len(stream')
      <4>1. End(Len(ends))' = End(m)'
        BY <3>1 DEF End
      <4> QED
        BY <3>1, <3>5, <4>1
    <3> QED
      BY <3>1, <3>7, <3>8, <3>9 DEF Layout
  <2> QED
    BY <1>2, <2>1, <2>2
<1>10. Reading'
  <2>1. pos = 0 /\ yielded = <<>> /\ Len(yielded') = 0 /\ phase' = "recording"
    BY <1>1, EmptySeq DEF IInv, Reading
  <2>2. Len(ends') \in Nat
    BY <1>6, LenProperties
  <2> QED
    BY <1>1, <2>1, <2>2 DEF Reading, Done
<1> QED
  BY <1>7, <1>9, <1>10 DEF IInv

(* A write that fails leaves part of a header behind the records.           *)
LEMMA WriteFailsIInv ==
  ASSUME IInv, NEW len \in PacketLen, WriteFails(len)
  PROVE  IInv'
<1> DEFINE n == calls + 1
           h == Header(n, len)
<1>1. /\ phase = "recording" /\ calls' = n /\ failed' = TRUE
      /\ UNCHANGED <<flushed, written, ends, phase, pos, yielded>>
  BY DEF WriteFails
<1>2. /\ stream \in Seq(Cell) /\ Len(stream) \in Nat /\ Len(stream) >= 1 /\ n \in Nat
      /\ Len(ends) \in Nat /\ len \in Nat /\ flushed \in Nat /\ flushed <= Len(stream)
      /\ Types /\ Layout
  BY FixtureAssumption, LenProperties DEF IInv, Types
<1>3. h \in Seq(Cell) /\ Len(h) = 2
  BY <1>2, RecordCells
<1>4. PICK k \in 0 .. 2 : stream' = stream \o SubSeq(h, 1, k)
  BY <1>1 DEF WriteFails
<1> HIDE DEF h, n
<1>5. SubSeq(h, 1, k) \in Seq(Cell)
  <2>1. ASSUME NEW i \in 1 .. k PROVE h[i] \in Cell
    <3>1. i \in 1 .. Len(h)
      BY <1>3
    <3> QED
      BY <1>3, <3>1, ElementOfSeq
  <2> QED
    BY <1>3, <2>1, SubSeqProperties
<1>6. /\ stream' \in Seq(Cell) /\ Len(stream') \in Nat /\ Len(stream') >= Len(stream)
      /\ \A i \in 1 .. Len(stream) : stream'[i] = stream[i]
  <2> DEFINE part == SubSeq(h, 1, k)
  <2>1. part \in Seq(Cell) /\ Len(part) \in Nat
    BY <1>5, LenProperties
  <2>2. stream' = stream \o part
    BY <1>4
  <2> HIDE DEF part
  <2>3. /\ stream' \in Seq(Cell) /\ Len(stream') = Len(stream) + Len(part)
        /\ \A i \in 1 .. Len(stream) + Len(part) :
             stream'[i] = IF i <= Len(stream) THEN stream[i] ELSE part[i - Len(stream)]
    BY <1>2, <2>1, <2>2, ConcatProperties
  <2> QED
    BY <1>2, <2>1, <2>3
<1>7. Types'
  <2>1. stream'[1] = Magic /\ flushed' <= Len(stream') /\ Len(stream') >= 1
    <3>1. stream[1] = Magic
      BY <1>2 DEF Types
    <3>2. 1 \in 1 .. Len(stream)
      BY <1>2
    <3>3. stream'[1] = Magic
      BY <1>6, <3>1, <3>2
    <3>4. flushed' = flushed
      BY <1>1
    <3> QED
      BY <1>2, <1>6, <3>3, <3>4
  <2> QED
    BY <1>1, <1>2, <1>6, <2>1 DEF Types
<1>8. \A i \in 1 .. Len(ends) : RecordAt(i)' /\ ends'[i] <= Len(stream')
  BY <1>1, <1>2, <1>6, RecordKept
<1>9. Layout'
  BY <1>1, <1>2, <1>8 DEF Layout
<1>10. Reading'
  <2>1. pos = 0 /\ yielded = <<>> /\ Len(yielded) = 0
    BY <1>1, EmptySeq DEF IInv, Reading
  <2> QED
    BY <1>1, <1>2, <2>1 DEF Reading, Done
<1> QED
  BY <1>7, <1>9, <1>10 DEF IInv

(* What follows leaves the records alone.                                   *)
LEMMA LayoutKept ==
  ASSUME Layout, UNCHANGED <<stream, written, failed, ends>>
  PROVE  Layout'
BY DEF Layout, RecordAt, End

-----------------------------------------------------------------------------
(* The reader *)

(* Reader::next returns the record the writer put there.                    *)
LEMMA ReadRecordIInv ==
  ASSUME IInv, ReadRecord
  PROVE  IInv'
<1>1. /\ phase = "reading" /\ ~HeaderMissing /\ PacketEnd <= Len(File)
      /\ yielded' = Append(yielded, SubSeq(File, pos + 3, PacketEnd))
      /\ pos' = PacketEnd
      /\ UNCHANGED <<stream, flushed, calls, written, failed, ends, phase>>
  BY DEF ReadRecord
<1>2. Types /\ Layout /\ Reading
  BY DEF IInv
<1>3. /\ File \in Seq(Cell) /\ Len(File) = flushed
      /\ \A i \in 1 .. flushed : File[i] = stream[i] /\ File[i].val \in Nat
  BY <1>2, FileIs
<1>4. /\ flushed \in Nat /\ pos \in Nat /\ pos + 2 <= flushed /\ pos + 2 \in 1 .. flushed
      /\ Len(yielded) \in Nat /\ Len(ends) \in Nat /\ Len(stream) \in Nat
      /\ flushed <= Len(stream)
  BY <1>1, <1>2, <1>3, LenProperties DEF Types, HeaderMissing
<1> DEFINE val == File[pos + 2].val
           q == SubSeq(File, pos + 3, PacketEnd)
<1>5. val \in Nat /\ PacketEnd = pos + 2 + val /\ PacketEnd <= flushed
  BY <1>1, <1>3, <1>4 DEF PacketEnd
<1>6. /\ q \in Seq(Cell) /\ Len(q) = val
      /\ \A j \in 1 .. val : q[j] = stream[pos + 2 + j]
  <2>1. \A i \in pos + 3 .. PacketEnd : i \in 1 .. flushed
    BY <1>4, <1>5
  <2>2. \A i \in pos + 3 .. PacketEnd : File[i] \in Cell
    BY <1>3, <2>1, ElementOfSeq
  <2>3. pos + 3 \in Nat /\ PacketEnd \in Nat
    BY <1>4, <1>5
  <2> HIDE DEF val
  <2>4. /\ q \in Seq(Cell)
        /\ Len(q) = IF pos + 3 <= PacketEnd THEN PacketEnd - (pos + 3) + 1 ELSE 0
        /\ \A i \in 1 .. PacketEnd - (pos + 3) + 1 : q[i] = File[(pos + 3) + i - 1]
    BY <1>3, <2>2, <2>3, SubSeqProperties
  <2>5. Len(q) = val
    BY <1>4, <1>5, <2>4
  <2>6. ASSUME NEW j \in 1 .. val PROVE q[j] = stream[pos + 2 + j]
    <3>1. /\ j \in 1 .. PacketEnd - (pos + 3) + 1 /\ (pos + 3) + j - 1 = pos + 2 + j
          /\ pos + 2 + j \in 1 .. flushed
      BY <1>4, <1>5
    <3> QED
      BY <1>3, <2>4, <3>1
  <2> QED
    BY <2>4, <2>5, <2>6
<1> HIDE DEF q, val
<1>7. /\ yielded' \in Seq(Seq(Cell)) /\ Len(yielded') = Len(yielded) + 1
      /\ \A i \in 1 .. Len(yielded) : yielded'[i] = yielded[i]
      /\ yielded'[Len(yielded) + 1] = q
  <2>1. yielded' = Append(yielded, q) /\ yielded \in Seq(Seq(Cell)) /\ q \in Seq(Cell)
    BY <1>1, <1>2, <1>6 DEF q, Types
  <2> QED
    BY <2>1, AppendProperties
<1>8. Types'
  BY <1>1, <1>2, <1>4, <1>5, <1>7 DEF Types
<1>9. Layout'
  BY <1>1, <1>2, LayoutKept
<1> DEFINE m == Len(yielded) + 1
<1>10. ASSUME Len(yielded) < Len(ends)
       PROVE  PacketEnd = ends[m] /\ q = written[m]
  <2>1. /\ m \in 1 .. Len(ends) /\ m - 1 = Len(yielded) /\ pos = End(m - 1)
    BY <1>1, <1>2, <1>4, <1>10 DEF Reading
  <2>2. /\ stream[pos + 2].val = Len(written[m]) /\ ends[m] = pos + 2 + Len(written[m])
        /\ \A j \in 1 .. Len(written[m]) : stream[pos + 2 + j] = written[m][j]
    BY <1>2, <2>1 DEF Layout, RecordAt
  <2>3. val = Len(written[m])
    BY <1>3, <1>4, <2>2 DEF val
  <2>4. written[m] \in Seq(Cell)
    <3>1. m \in 1 .. Len(written)
      BY <1>2, <2>1, LenProperties DEF Layout, Types
    <3> QED
      BY <1>2, <3>1, ElementOfSeq DEF Types
  <2> HIDE DEF m
  <2>5. q = written[m]
    <3>1. Len(q) = Len(written[m]) /\ \A j \in 1 .. Len(q) : q[j] = written[m][j]
      BY <1>6, <2>2, <2>3
    <3> QED
      BY <1>6, <2>4, <3>1, SeqEqual
  <2> QED
    BY <1>5, <2>2, <2>3, <2>5
<1>11. ~failed => Len(yielded) < Len(ends)
  <2> SUFFICES ASSUME ~failed, ~(Len(yielded) < Len(ends)) PROVE FALSE
    OBVIOUS
  <2>1. Len(yielded) = Len(ends)
    BY <1>2, <1>4 DEF Reading
  <2>2. pos = Len(stream)
    BY <1>1, <1>2, <1>4, <2>1 DEF Reading, Layout
  <2> QED
    BY <1>4, <2>2
<1>12. Reading'
  <2>1. phase' = "reading" /\ ~Done'
    BY <1>1 DEF Done
  <2>2. ~failed' => Len(yielded') <= Len(ends')
    BY <1>1, <1>4, <1>7, <1>11
  <2>3. Len(yielded') <= Len(ends') => pos' = End(Len(yielded))'
    <3> SUFFICES ASSUME Len(yielded') <= Len(ends') PROVE pos' = End(Len(yielded))'
      OBVIOUS
    <3>1. pos' = ends'[Len(yielded')] /\ Len(yielded') # 0
      BY <1>1, <1>4, <1>7, <1>10, SMTT(30)
    <3> QED
      BY <3>1 DEF End
  <2>4. ASSUME NEW i \in 1 .. Len(yielded'), i <= Len(ends') PROVE yielded'[i] = written'[i]
    <3>1. CASE i \in 1 .. Len(yielded)
      BY <1>1, <1>2, <1>7, <2>4, <3>1 DEF Reading
    <3>2. CASE i = m
      <4>1. Len(yielded) < Len(ends)
        BY <1>1, <1>4, <2>4, <3>2
      <4>2. yielded'[m] = q /\ q = written[m] /\ written' = written
        BY <1>1, <1>7, <1>10, <4>1
      <4> QED
        BY <3>2, <4>2
    <3> QED
      BY <1>4, <1>7, <3>1, <3>2
  <2> QED
    BY <2>1, <2>2, <2>3, <2>4 DEF Reading
<1> QED
  BY <1>8, <1>9, <1>12 DEF IInv

(* A reader that stops has met the end of the file before the end of the    *)
(* next record, if there is one.                                            *)
LEMMA StopIInv ==
  ASSUME IInv, ReadTruncated \/ ReadEnd
  PROVE  IInv'
<1>1. /\ phase = "reading" /\ phase' \in {"end", "error"}
      /\ HeaderMissing \/ (~HeaderMissing /\ PacketEnd > Len(File))
      /\ phase' = "error" => ~HeaderMissing /\ PacketEnd > Len(File)
      /\ UNCHANGED <<stream, flushed, calls, written, failed, ends, pos, yielded>>
  BY DEF ReadTruncated, ReadEnd
<1>2. Types /\ Layout /\ Reading
  BY DEF IInv
<1>3. /\ Len(File) = flushed
      /\ \A i \in 1 .. flushed : File[i] = stream[i] /\ File[i].val \in Nat
  BY <1>2, FileIs
<1>4. /\ flushed \in Nat /\ pos \in Nat /\ Len(yielded) \in Nat /\ Len(ends) \in Nat
      /\ Len(stream) \in Nat /\ flushed <= Len(stream)
  BY <1>2, LenProperties DEF Types
<1>5. Types' /\ Layout'
  BY <1>1, <1>2, LayoutKept DEF Types
<1>6. ASSUME Len(yielded) < Len(ends) PROVE flushed < ends[Len(yielded) + 1]
  <2> DEFINE m == Len(yielded) + 1
  <2>1. m \in 1 .. Len(ends) /\ m - 1 = Len(yielded) /\ pos = End(m - 1)
    BY <1>1, <1>2, <1>4, <1>6 DEF Reading
  <2>2. stream[pos + 2].val = Len(written[m]) /\ ends[m] = pos + 2 + Len(written[m])
    BY <1>2, <2>1 DEF Layout, RecordAt
  <2>3. Len(written[m]) \in Nat
    <3>1. m \in 1 .. Len(written)
      BY <1>2, <2>1, LenProperties DEF Layout, Types
    <3>2. written[m] \in Seq(Cell)
      BY <1>2, <3>1, ElementOfSeq DEF Types
    <3> QED
      BY <3>2, LenProperties
  <2>4. CASE HeaderMissing
    <3>1. flushed < pos + 2
      BY <1>3, <2>4 DEF HeaderMissing
    <3>2. ASSUME NEW n \in Nat PROVE flushed < pos + 2 + n
      BY <1>4, <3>1
    <3> QED
      BY <2>2, <2>3, <3>2
  <2>5. CASE ~HeaderMissing
    <3>1. pos + 2 \in 1 .. flushed
      BY <1>3, <1>4, <2>5 DEF HeaderMissing
    <3>2. PacketEnd = ends[m]
      BY <1>3, <2>2, <3>1 DEF PacketEnd
    <3>3. PacketEnd > flushed
      BY <1>1, <1>3, <2>5
    <3> QED
      BY <3>2, <3>3
  <2> QED
    BY <2>4, <2>5
<1>7. ASSUME ~failed, phase' = "error" PROVE flushed < Len(stream)
  <2>1. CASE Len(yielded) < Len(ends)
    <3>1. Len(yielded) + 1 \in 1 .. Len(ends)
      BY <1>4, <2>1
    <3>2. ends[Len(yielded) + 1] <= Len(stream) /\ ends[Len(yielded) + 1] \in Nat
      BY <1>2, <3>1, ElementOfSeq DEF Layout, Types
    <3> QED
      BY <1>4, <1>6, <2>1, <3>2
  <2>2. CASE ~(Len(yielded) < Len(ends))
    <3>1. Len(yielded) = Len(ends)
      BY <1>2, <1>4, <1>7, <2>2 DEF Reading
    <3>2. pos = Len(stream)
      BY <1>1, <1>2, <1>4, <1>7, <3>1 DEF Reading, Layout
    <3>3. ~HeaderMissing
      BY <1>1, <1>7
    <3> QED
      BY <1>3, <1>4, <3>2, <3>3 DEF HeaderMissing
  <2> QED
    BY <2>1, <2>2
<1>8. Reading'
  <2>1. phase' \notin {"recording", "open", "reading"}
    BY <1>1
  <2> QED
    BY <1>1, <1>2, <1>6, <1>7, <2>1 DEF Reading, Done
<1> QED
  BY <1>5, <1>8 DEF IInv

(* Opening finds the magic unless the file is empty.                        *)
LEMMA OpenIInv ==
  ASSUME IInv, Open
  PROVE  IInv'
<1>1. /\ phase = "open"
      /\ IF Len(File) >= 1 /\ File[1] = Magic
         THEN phase' = "reading" /\ pos' = 1
         ELSE phase' = "error" /\ UNCHANGED pos
      /\ UNCHANGED <<stream, flushed, calls, written, failed, ends, yielded>>
  BY DEF Open
<1>2. Types /\ Layout /\ Reading
  BY DEF IInv
<1>3. /\ Len(File) = flushed /\ flushed \in Nat /\ Len(ends) \in Nat
      /\ Len(stream) \in Nat /\ Len(stream) >= 1
      /\ \A i \in 1 .. flushed : File[i] = stream[i]
  BY <1>2, FileIs, LenProperties DEF Types
<1>4. Len(File) >= 1 /\ File[1] = Magic <=> flushed >= 1
  BY <1>2, <1>3 DEF Types
<1>5. Types' /\ Layout'
  BY <1>1, <1>2, LayoutKept DEF Types
<1>6. yielded = <<>> /\ Len(yielded) = 0 /\ Len(yielded') = 0 /\ yielded' = yielded
  BY <1>1, <1>2, EmptySeq DEF Reading
<1>7. Reading'
  <2>1. CASE flushed >= 1
    <3>1. phase' = "reading" /\ pos' = 1
      BY <1>1, <1>4, <2>1
    <3>2. End(0)' = 1
      BY DEF End
    <3>3. pos' = End(Len(yielded))'
      BY <1>6, <3>1 DEF End
    <3> QED
      BY <1>1, <1>3, <1>6, <3>1, <3>3 DEF Reading, Done
  <2>2. CASE ~(flushed >= 1)
    <3>1. phase' = "error" /\ flushed = 0
      BY <1>1, <1>3, <1>4, <2>2
    <3>2. 0 < Len(ends) => 0 < ends[1]
      <4>1. 0 < Len(ends) => 1 \in 0 .. Len(ends) /\ End(1) = ends[1]
        BY <1>3 DEF End
      <4> QED
        BY <1>2, <4>1, EndBounds
    <3>3. Len(yielded) + 1 = 1 /\ flushed' = flushed /\ ends' = ends /\ stream' = stream
      BY <1>1, <1>6
    <3> QED
      BY <1>1, <1>3, <1>6, <3>1, <3>2, <3>3 DEF Reading, Done
  <2> QED
    BY <2>1, <2>2
<1> QED
  BY <1>5, <1>7 DEF IInv

-----------------------------------------------------------------------------
(* Theorems *)

(* Every step preserves the invariant.                                      *)
LEMMA NextIInv == IInv /\ [Next]_vars => IInv'
<1> SUFFICES ASSUME IInv, [Next]_vars PROVE IInv'
  OBVIOUS
<1>1. ASSUME NEW len \in PacketLen, Write(len) PROVE IInv'
  BY <1>1, WriteIInv
<1>2. ASSUME NEW len \in PacketLen, Refuse(len) PROVE IInv'
  <2>1. /\ UNCHANGED <<stream, flushed, written, failed, ends, phase, pos, yielded>>
        /\ calls' \in Nat
    BY <1>2 DEF Refuse, IInv, Types
  <2>2. Layout'
    BY <2>1, LayoutKept DEF IInv
  <2> QED
    BY <2>1, <2>2 DEF IInv, Types, Reading, End, Done
<1>3. ASSUME NEW len \in PacketLen, WriteFails(len) PROVE IInv'
  BY <1>3, WriteFailsIInv
<1>4. CASE Close \/ Die
  <2>1. /\ phase' = "open" /\ flushed' \in Nat /\ flushed' <= Len(stream)
        /\ phase = "recording"
        /\ UNCHANGED <<stream, calls, written, failed, ends, pos, yielded>>
    <3>1. Len(stream) \in Nat
      BY LenProperties DEF IInv, Types
    <3> QED
      BY <1>4, <3>1 DEF Close, Die
  <2>2. Layout'
    BY <2>1, LayoutKept DEF IInv
  <2> QED
    BY <2>1, <2>2 DEF IInv, Types, Reading, Done
<1>5. CASE Open
  BY <1>5, OpenIInv
<1>6. CASE ReadRecord
  BY <1>6, ReadRecordIInv
<1>7. CASE ReadTruncated \/ ReadEnd
  BY <1>7, StopIInv
<1>8. CASE UNCHANGED vars
  <2>1. Layout'
    BY <1>8, LayoutKept DEF IInv, vars
  <2> QED
    BY <1>8, <2>1 DEF vars, IInv, Types, Reading, End, Done
<1> QED
  BY <1>1, <1>2, <1>3, <1>4, <1>5, <1>6, <1>7, <1>8 DEF Next

(* The invariant holds of every capture.                                    *)
LEMMA SpecIInv == Spec => []IInv
BY InitIInv, NextIInv, PTL DEF Spec

(* What a replay returns of the packets recorded before the first failed    *)
(* write is whole, in their order and from the first on, wherever the file  *)
(* was cut, for any number and size of packets; without a failed write it   *)
(* returns nothing else.                                                    *)
THEOREM FixtureReplaysRecorded == Spec => []ReplaysRecorded
<1>1. IInv => ReplaysRecorded
  BY DEF IInv, Layout, Reading, ReplaysRecorded
<1> QED
  BY <1>1, SpecIInv, PTL

(* When a replay ends it has returned every packet whose record got to the  *)
(* file whole, up to the first failed write; of a complete capture it has   *)
(* returned all of them, and without a failed write it ends without error.  *)
THEOREM FixtureLosesOnlyTheTail == Spec => []LosesOnlyTheTail
<1>1. ASSUME IInv, Done PROVE
        /\ flushed = Len(stream) =>
             /\ Len(yielded) >= Len(ends)
             /\ ~failed => phase = "end" /\ Len(yielded) = Len(written)
        /\ \A i \in Len(yielded) + 1 .. Len(ends) : flushed < ends[i]
  <2>1. Types /\ Layout /\ Reading
    BY <1>1 DEF IInv
  <2>2. /\ Len(yielded) \in Nat /\ Len(ends) \in Nat /\ Len(written) \in Nat
        /\ Len(stream) \in Nat /\ flushed \in Nat
        /\ \A i \in 1 .. Len(ends) : ends[i] \in Nat /\ ends[i] <= Len(stream)
    BY <2>1, LenProperties, ElementOfSeq DEF Types, Layout
  <2>3. ASSUME NEW i \in Len(yielded) + 1 .. Len(ends) PROVE flushed < ends[i]
    <3> DEFINE m == Len(yielded) + 1
    <3>1. m \in 1 .. Len(ends) /\ i \in 1 .. Len(ends) /\ (m = i \/ m < i) /\ Len(yielded) < Len(ends)
      BY <2>2, <2>3
    <3>2. flushed < ends[m]
      BY <1>1, <2>1, <3>1 DEF Reading
    <3>3. m < i => ends[m] < ends[i]
      BY <2>1, <3>1 DEF Layout
    <3> QED
      BY <2>2, <3>1, <3>2, <3>3
  <2>4. ASSUME flushed = Len(stream) PROVE Len(yielded) >= Len(ends)
    <3> SUFFICES ASSUME Len(yielded) < Len(ends) PROVE FALSE
      BY <2>2
    <3>1. Len(ends) \in Len(yielded) + 1 .. Len(ends) /\ Len(ends) \in 1 .. Len(ends)
      BY <2>2
    <3> QED
      BY <2>2, <2>3, <2>4, <3>1
  <2>5. ASSUME flushed = Len(stream), ~failed PROVE phase = "end" /\ Len(yielded) = Len(written)
    <3>1. phase # "error"
      BY <2>1, <2>2, <2>5 DEF Reading
    <3>2. Len(yielded) <= Len(ends) /\ Len(ends) = Len(written)
      BY <2>1, <2>5 DEF Reading, Layout
    <3> QED
      BY <1>1, <2>2, <2>4, <2>5, <3>1, <3>2 DEF Done
  <2> QED
    BY <2>3, <2>4, <2>5
<1>2. IInv => LosesOnlyTheTail
  BY <1>1 DEF LosesOnlyTheTail
<1> QED
  BY <1>2, SpecIInv, PTL

=============================================================================
