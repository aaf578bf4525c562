------------------------------ MODULE Fixture ------------------------------
(***************************************************************************)
(* fixture.rs: a capture that is recorded through a BufWriter, ends by     *)
(* being dropped (flushed) or by the process dying, and is then replayed.  *)
(*                                                                         *)
(* The file is a sequence of cells: one for the magic, then per record one *)
(* for the time stamp, one for the length and one per byte of the packet.  *)
(* A cell has a value because a reader that lost its place takes whatever  *)
(* it finds for a length.  BufWriter (external) either takes a whole chunk *)
(* or fails and takes nothing of it; what it holds reaches the file in     *)
(* order, up to any cell when the process dies.                            *)
(***************************************************************************)
EXTENDS Integers, Sequences

CONSTANTS
  MaxLen,      \* u16::MAX
  PacketLen,   \* lengths of the packets offered to the writer
  MaxRecords   \* bound: calls of write

ASSUME FixtureAssumption ==
  MaxLen \in Nat /\ PacketLen \subseteq Nat /\ MaxRecords \in Nat

VARIABLES
  stream,      \* what the BufWriter has taken, in the file or not
  flushed,     \* cells of it that are in the file
  calls,       \* calls of Writer::write so far
  written,     \* packets whose write returned Ok
  failed,      \* a chunk of some write has failed
  ends,        \* history: where the records written before that end
  phase,       \* "recording", then the state of the reader
  pos,         \* cells the reader has consumed
  yielded      \* packets the reader has returned

vars == <<stream, flushed, calls, written, failed, ends, phase, pos, yielded>>

Magic == [part |-> "magic", of |-> 0, val |-> 0]
Stamp(n) == [part |-> "stamp", of |-> n, val |-> 1]
Length(n, len) == [part |-> "length", of |-> n, val |-> len]
Packet(n, len) == [i \in 1 .. len |-> [part |-> "byte", of |-> n, val |-> 1]]

File == SubSeq(stream, 1, flushed)

(* Writer::new                                                              *)
Init ==
  /\ stream = <<Magic>>
  /\ flushed = 0
  /\ calls = 0 /\ written = <<>>
  /\ failed = FALSE /\ ends = <<>>
  /\ phase = "recording"
  /\ pos = 0 /\ yielded = <<>>

-----------------------------------------------------------------------------
(* Writer::write_at: time stamp, length and packet are three chunks.        *)

Header(n, len) == <<Stamp(n), Length(n, len)>>

Write(len) ==
  /\ phase = "recording" /\ calls < MaxRecords
  /\ len <= MaxLen
  /\ calls' = calls + 1
  /\ stream' = stream \o Header(calls', len) \o Packet(calls', len)
  /\ written' = Append(written, Packet(calls', len))
  /\ ends' = IF failed THEN ends ELSE Append(ends, Len(stream'))
  /\ UNCHANGED <<flushed, failed, phase, pos, yielded>>

(* A packet longer than u16 is refused before anything is written.          *)
Refuse(len) ==
  /\ phase = "recording" /\ calls < MaxRecords
  /\ len > MaxLen
  /\ calls' = calls + 1
  /\ UNCHANGED <<stream, flushed, written, failed, ends, phase, pos, yielded>>

(* One of the chunks fails: the ones before it stay, the tap logs the error *)
(* and the next packet is written behind them.                              *)
WriteFails(len) ==
  /\ phase = "recording" /\ calls < MaxRecords
  /\ len <= MaxLen
  /\ calls' = calls + 1
  /\ \E k \in 0 .. 2 :
       stream' = stream \o SubSeq(Header(calls', len), 1, k)
  /\ failed' = TRUE
  /\ UNCHANGED <<flushed, written, ends, phase, pos, yielded>>

(* The writer is dropped, which flushes it.                                 *)
Close ==
  /\ phase = "recording"
  /\ flushed' = Len(stream)
  /\ phase' = "open"
  /\ UNCHANGED <<stream, calls, written, failed, ends, pos, yielded>>

(* The process dies; what the file has got by then stays.                   *)
Die ==
  /\ phase = "recording"
  /\ flushed' \in 0 .. Len(stream)
  /\ phase' = "open"
  /\ UNCHANGED <<stream, calls, written, failed, ends, pos, yielded>>

-----------------------------------------------------------------------------
(* Reader::new *)

Open ==
  /\ phase = "open"
  /\ IF Len(File) >= 1 /\ File[1] = Magic
     THEN phase' = "reading" /\ pos' = 1
     ELSE phase' = "error" /\ UNCHANGED pos
  /\ UNCHANGED <<stream, flushed, calls, written, failed, ends, yielded>>

(* Reader::next: the header, then as many bytes as it says.                 *)
HeaderMissing == Len(File) < pos + 2
PacketEnd == pos + 2 + File[pos + 2].val

(* Mutant: a packet that is cut short is returned as far as it goes.        *)
ReadRecordShort ==
  /\ phase = "reading" /\ ~HeaderMissing
  /\ yielded' = Append(yielded, SubSeq(File, pos + 3,
                  IF PacketEnd <= Len(File) THEN PacketEnd ELSE Len(File)))
  /\ pos' = IF PacketEnd <= Len(File) THEN PacketEnd ELSE Len(File)
  /\ UNCHANGED <<stream, flushed, calls, written, failed, ends, phase>>

ReadRecord ==
  /\ phase = "reading" /\ ~HeaderMissing
  /\ PacketEnd <= Len(File)
  /\ yielded' = Append(yielded, SubSeq(File, pos + 3, PacketEnd))
  /\ pos' = PacketEnd
  /\ UNCHANGED <<stream, flushed, calls, written, failed, ends, phase>>

(* Mutant: the error of a packet cut short is skipped, not returned.        *)
ReadTruncatedSkipped ==
  /\ phase = "reading" /\ ~HeaderMissing
  /\ PacketEnd > Len(File)
  /\ UNCHANGED vars

(* The packet is cut short: an error, on which replay stops.                *)
ReadTruncated ==
  /\ phase = "reading" /\ ~HeaderMissing
  /\ PacketEnd > Len(File)
  /\ phase' = "error"
  /\ UNCHANGED <<stream, flushed, calls, written, failed, ends, pos, yielded>>

(* Mutant: reading ends one header early.                                   *)
ReadEndEarly ==
  /\ phase = "reading"
  /\ Len(File) <= pos + 2
  /\ phase' = "end"
  /\ UNCHANGED <<stream, flushed, calls, written, failed, ends, pos, yielded>>

(* Any end of file inside a header is the end of the capture.               *)
ReadEnd ==
  /\ phase = "reading" /\ HeaderMissing
  /\ phase' = "end"
  /\ UNCHANGED <<stream, flushed, calls, written, failed, ends, pos, yielded>>

Next ==
  \/ \E len \in PacketLen : Write(len) \/ Refuse(len) \/ WriteFails(len)
  \/ Close \/ Die
  \/ Open \/ ReadRecord \/ ReadTruncated \/ ReadEnd

Fairness == WF_vars(Open \/ ReadRecord \/ ReadTruncated \/ ReadEnd)

Spec == Init /\ [][Next]_vars /\ Fairness

-----------------------------------------------------------------------------
(* Properties *)

Done == phase \in {"end", "error"}

(* What a replay returns of the packets recorded before the first failed    *)
(* write is whole, in their order and from the first on, wherever the file  *)
(* was cut; without a failed write it returns nothing else.                 *)
ReplaysRecorded ==
  /\ \A i \in 1 .. Len(yielded) : i <= Len(ends) => yielded[i] = written[i]
  /\ ~failed => Len(yielded) <= Len(written)

(* A capture that got to the file completely replays without an error, and  *)
(* a failed write costs none of the packets recorded before it.             *)
(* A packet that reached the file whole is not lost to a cut behind it.     *)
LosesOnlyTheTail ==
  Done =>
    /\ flushed = Len(stream) =>
         /\ Len(yielded) >= Len(ends)
         /\ ~failed => phase = "end" /\ Len(yielded) = Len(written)
    /\ \A i \in Len(yielded) + 1 .. Len(ends) : flushed < ends[i]

(* Replaying a capture of any shape comes to an end.                        *)
ReplayEnds == phase = "open" ~> Done

(* The file layout of the head comment: magic, then records.  The reader    *)
(* returns packets that were recorded and nothing else.                     *)
ReplaysPrefix ==
  Len(yielded) <= Len(written) /\ yielded = SubSeq(written, 1, Len(yielded))

=============================================================================
