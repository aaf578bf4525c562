--------------------------- MODULE PipelineProofs ---------------------------
(***************************************************************************)
(* Proofs about Pipeline.tla for every number of datagrams, every batch    *)
(* size, every capacity of the socket buffer, the channel and the sink,    *)
(* and whether or not the worker may panic.                                *)
(*                                                                         *)
(* The argument follows one sequence, Flow: all datagrams that are         *)
(* somewhere between the deshredder and the socket buffer.  The hand-overs *)
(* between threads move a boundary inside it and leave it as it is, an     *)
(* arrival appends to it, and each way of losing a datagram cuts a piece   *)
(* out of it, so that its order is never disturbed.                        *)
(***************************************************************************)
EXTENDS Pipeline, SequenceTheorems, TLAPS

(* What is between the deshredder and the socket buffer, in order: the      *)
(* datagrams pushed, the one in the worker's hand, those in the channel, in *)
(* the receiver's batch and on the wire.                                    *)
Flow(p, h, c, b, w) == p \o h \o c \o b \o w

(* A sequence of increasing datagram numbers, none above b.                 *)
Rising(s, b) ==
  /\ \A i, j \in 1 .. Len(s) : i < j => s[i] < s[j]
  /\ \A i \in 1 .. Len(s) : s[i] <= b

-----------------------------------------------------------------------------
(* Sequences *)

(* Moving the head of the right part to the end of the left part changes    *)
(* nothing: Append(s, Head(t)) \o Tail(t) is s \o t.                        *)
LEMMA MoveHead ==
  ASSUME NEW S, NEW s \in Seq(S), NEW t \in Seq(S), t # <<>>
  PROVE  Append(s, Head(t)) \o Tail(t) = s \o t
<1>1. t = <<Head(t)>> \o Tail(t) /\ Head(t) \in S /\ Tail(t) \in Seq(S)
  BY HeadTailProperties, SubSeqFull, SMT
<1>2. Append(s, Head(t)) = s \o <<Head(t)>> /\ <<Head(t)>> \in Seq(S)
  BY <1>1, AppendIsConcat
<1> QED
  BY <1>1, <1>2, ConcatAssociative

(* Appending to the right part appends to the whole.                        *)
LEMMA ConcatAppend ==
  ASSUME NEW S, NEW s \in Seq(S), NEW t \in Seq(S), NEW e \in S
  PROVE  s \o Append(t, e) = Append(s \o t, e)
<1>1. <<e>> \in Seq(S) /\ s \o t \in Seq(S)
  BY ConcatProperties
<1>2. Append(t, e) = t \o <<e>> /\ Append(s \o t, e) = (s \o t) \o <<e>>
  BY <1>1, AppendIsConcat
<1> QED
  BY <1>1, <1>2, ConcatAssociative

(* Associativity, for sequences of numbers.                                 *)
LEMMA NatAssociative ==
  \A r, s, t \in Seq(Nat) : (r \o s) \o t = r \o (s \o t)
BY ConcatAssociative

(* recv_batch takes the first n datagrams off the socket and leaves the     *)
(* others: the two parts make up the whole.                                 *)
LEMMA SplitSeq ==
  ASSUME NEW S, NEW s \in Seq(S), NEW n \in Nat, n <= Len(s)
  PROVE  /\ SubSeq(s, 1, n) \in Seq(S) /\ Len(SubSeq(s, 1, n)) = n
         /\ SubSeq(s, n + 1, Len(s)) \in Seq(S)
         /\ Len(SubSeq(s, n + 1, Len(s))) = Len(s) - n
         /\ SubSeq(s, 1, n) \o SubSeq(s, n + 1, Len(s)) = s
<1>1. Len(s) \in Nat /\ \A i \in 1 .. Len(s) : s[i] \in S
  BY LenProperties, ElementOfSeq
<1>2. SubSeq(s, 1, n) \in Seq(S) /\ Len(SubSeq(s, 1, n)) = n
  <2>1. \A i \in 1 .. n : s[i] \in S
    BY <1>1
  <2> QED
    BY <1>1, <2>1, SubSeqProperties
<1>3. /\ SubSeq(s, n + 1, Len(s)) \in Seq(S)
      /\ Len(SubSeq(s, n + 1, Len(s))) = Len(s) - n
  <2>1. \A i \in n + 1 .. Len(s) : s[i] \in S
    BY <1>1
  <2> QED
    BY <1>1, <2>1, SubSeqProperties
<1>4. SubSeq(s, 1, n) \o SubSeq(s, n + 1, Len(s)) = SubSeq(s, 1, Len(s))
  <2>1. 1 \in 1 .. Len(s) + 1 /\ n \in 1 - 1 .. Len(s) /\ Len(s) \in n .. Len(s)
    BY <1>1
  <2> QED
    BY <2>1, ConcatAdjacentSubSeq
<1> QED
  BY <1>2, <1>3, <1>4, SubSeqFull

(* A piece cut out of a rising sequence leaves a rising sequence.           *)
LEMMA CutRising ==
  ASSUME NEW b \in Nat, NEW s \in Seq(Nat), NEW t \in Seq(Nat), NEW u \in Seq(Nat),
         Rising(s \o t \o u, b)
  PROVE  Rising(s \o u, b)
<1> DEFINE whole == s \o t \o u
           rest == s \o u
           At(i) == IF i <= Len(s) THEN i ELSE i + Len(t)
<1>1. /\ Len(s) \in Nat /\ Len(t) \in Nat /\ Len(u) \in Nat
      /\ Len(whole) = Len(s) + Len(t) + Len(u)
      /\ Len(rest) = Len(s) + Len(u)
  BY ConcatProperties, LenProperties
<1>2. ASSUME NEW i \in 1 .. Len(rest)
      PROVE  At(i) \in 1 .. Len(whole) /\ rest[i] = whole[At(i)]
  <2>1. s \o t \in Seq(Nat) /\ Len(s \o t) = Len(s) + Len(t)
    BY ConcatProperties
  <2>2. CASE i <= Len(s)
    <3>1. rest[i] = s[i]
      BY <1>1, <2>2, ConcatProperties
    <3>2. whole[i] = (s \o t)[i]
      BY <1>1, <2>1, <2>2, ConcatProperties
    <3>3. (s \o t)[i] = s[i]
      BY <1>1, <2>2, ConcatProperties
    <3> QED
      BY <1>1, <2>2, <3>1, <3>2, <3>3
  <2>3. CASE ~(i <= Len(s))
    <3>1. rest[i] = u[i - Len(s)]
      BY <1>1, <2>3, ConcatProperties
    <3>2. whole[i + Len(t)] = u[i + Len(t) - (Len(s) + Len(t))]
      BY <1>1, <2>1, <2>3, ConcatProperties
    <3>3. i + Len(t) - (Len(s) + Len(t)) = i - Len(s)
      BY <1>1
    <3> QED
      BY <1>1, <2>3, <3>1, <3>2, <3>3
  <2> QED
    BY <2>2, <2>3
<1>3. ASSUME NEW i \in 1 .. Len(rest), NEW j \in 1 .. Len(rest), i < j
      PROVE  At(i) < At(j)
  BY <1>1, <1>3
<1> HIDE DEF whole, rest, At
<1>4. Rising(rest, b)
  BY <1>2, <1>3 DEF Rising, whole
<1> QED
  BY <1>4 DEF rest

(* A single element cut out of a rising sequence leaves a rising sequence.  *)
LEMMA CutElement ==
  ASSUME NEW n \in Nat, NEW s \in Seq(Nat), NEW e \in Nat, NEW t \in Seq(Nat),
         NEW w \in Seq(Nat), Rising((Append(s, e) \o t) \o w, n)
  PROVE  Rising((s \o t) \o w, n)
<1> DEFINE longer == Append(s, e)
           rest == t \o w
<1>1. longer \in Seq(Nat) /\ rest \in Seq(Nat) /\ <<e>> \in Seq(Nat)
  BY AppendProperties, ConcatProperties
<1>2. longer = s \o <<e>>
  BY AppendIsConcat
<1> HIDE DEF longer
<1>3. (longer \o t) \o w = longer \o rest
  <2>1. longer \in Seq(Nat)
    BY <1>1
  <2> QED
    BY <2>1, NatAssociative
<1>4. (s \o t) \o w = s \o rest
  BY NatAssociative
<1> HIDE DEF rest
<1>5. Rising(s \o <<e>> \o rest, n)
  BY <1>2, <1>3, Zenon DEF longer
<1>6. Rising(s \o rest, n)
  BY <1>1, <1>5, CutRising
<1> QED
  BY <1>4, <1>6, Zenon

(* A rising sequence can be extended by a number above its bound.           *)
LEMMA AppendRising ==
  ASSUME NEW b \in Nat, NEW s \in Seq(Nat), Rising(s, b)
  PROVE  Rising(Append(s, b + 1), b + 1)
<1> DEFINE longer == Append(s, b + 1)
<1>1. /\ Len(s) \in Nat /\ Len(longer) = Len(s) + 1
      /\ \A i \in 1 .. Len(s) : longer[i] = s[i] /\ s[i] \in Nat /\ s[i] <= b
      /\ longer[Len(s) + 1] = b + 1
  BY AppendProperties, LenProperties, ElementOfSeq DEF Rising
<1> HIDE DEF longer
<1>2. \A i \in 1 .. Len(longer) : i \in 1 .. Len(s) \/ i = Len(s) + 1
  BY <1>1
<1>3. ASSUME NEW i \in 1 .. Len(longer), NEW j \in 1 .. Len(longer), i < j
      PROVE  longer[i] < longer[j]
  <2>1. i \in 1 .. Len(s)
    BY <1>1, <1>2, <1>3
  <2>2. CASE j \in 1 .. Len(s)
    BY <1>1, <1>3, <2>1, <2>2 DEF Rising
  <2>3. CASE j = Len(s) + 1
    <3>1. longer[i] \in Nat /\ longer[i] <= b /\ longer[j] = b + 1
      BY <1>1, <2>1, <2>3
    <3> QED
      BY <3>1
  <2> QED
    BY <1>2, <2>2, <2>3
<1>4. \A i \in 1 .. Len(longer) : longer[i] <= b + 1
  BY <1>1, <1>2
<1>5. Rising(longer, b + 1)
  BY <1>3, <1>4 DEF Rising
<1> QED
  BY <1>5 DEF longer

(* A higher bound is a bound.                                               *)
LEMMA HigherBound ==
  ASSUME NEW b \in Nat, NEW s \in Seq(Nat), Rising(s, b)
  PROVE  Rising(s, b + 1)
BY ElementOfSeq, LenProperties DEF Rising

-----------------------------------------------------------------------------
(* The flow *)

(* The flow is a sequence of numbers; an arrival appends to it.             *)
LEMMA FlowArrive ==
  ASSUME NEW p \in Seq(Nat), NEW h \in Seq(Nat), NEW c \in Seq(Nat),
         NEW b \in Seq(Nat), NEW w \in Seq(Nat)
  PROVE  /\ Flow(p, h, c, b, w) \in Seq(Nat)
         /\ \A e \in Nat : Flow(p, h, c, b, Append(w, e)) = Append(Flow(p, h, c, b, w), e)
<1> DEFINE phc == p \o h \o c
           phcb == phc \o b
<1>1. phc \in Seq(Nat)
  BY ConcatProperties
<1> HIDE DEF phc
<1>2. phcb \in Seq(Nat)
  BY <1>1, ConcatProperties
<1> HIDE DEF phcb
<1>3. phcb \o w \in Seq(Nat) /\ \A e \in Nat : phcb \o Append(w, e) = Append(phcb \o w, e)
  BY <1>2, ConcatProperties, ConcatAppend
<1> QED
  BY <1>3 DEF phc, phcb, Flow

(* The worker taking the head of the channel leaves the flow as it is.      *)
LEMMA FlowTake ==
  ASSUME NEW p \in Seq(Nat), NEW c \in Seq(Nat), NEW b, NEW w, c # <<>>
  PROVE  Flow(p, <<Head(c)>>, Tail(c), b, w) = Flow(p, <<>>, c, b, w)
<1>1. Head(c) \in Nat
  BY HeadTailProperties
<1>2. p \o <<Head(c)>> = Append(p, Head(c)) /\ p \o <<>> = p
  BY <1>1, AppendIsConcat, ConcatEmptySeq
<1>3. Append(p, Head(c)) \o Tail(c) = p \o c
  BY MoveHead
<1> QED
  BY <1>2, <1>3, Zenon DEF Flow

(* Pushing the datagram in hand leaves the flow as it is.                   *)
LEMMA FlowPush ==
  ASSUME NEW p \in Seq(Nat), NEW h \in Seq(Nat), NEW c, NEW b, NEW w
  PROVE  Flow(p \o h, <<>>, c, b, w) = Flow(p, h, c, b, w)
<1>1. p \o h \o <<>> = p \o h
  BY ConcatProperties, ConcatEmptySeq
<1> QED
  BY <1>1, Zenon DEF Flow

(* Sending the head of the batch leaves the flow as it is.                  *)
LEMMA FlowSend ==
  ASSUME NEW p \in Seq(Nat), NEW h \in Seq(Nat), NEW c \in Seq(Nat),
         NEW b \in Seq(Nat), NEW w, b # <<>>
  PROVE  Flow(p, h, Append(c, Head(b)), Tail(b), w) = Flow(p, h, c, b, w)
<1> DEFINE ph == p \o h
           phc == ph \o c
<1>1. ph \in Seq(Nat) /\ Head(b) \in Nat
  BY ConcatProperties, HeadTailProperties
<1> HIDE DEF ph
<1>2. phc \in Seq(Nat) /\ ph \o Append(c, Head(b)) = Append(phc, Head(b))
  <2>1. phc \in Seq(Nat)
    BY <1>1, ConcatProperties
  <2>2. ph \o Append(c, Head(b)) = Append(phc, Head(b))
    <3> DEFINE head == Head(b)
    <3>1. ph \in Seq(Nat) /\ head \in Nat
      BY <1>1
    <3> HIDE DEF head
    <3> QED
      BY <3>1, ConcatAppend
  <2> QED
    BY <2>1, <2>2
<1> HIDE DEF phc
<1>3. Append(phc, Head(b)) \o Tail(b) = phc \o b
  BY <1>2, MoveHead
<1> QED
  BY <1>2, <1>3, Zenon DEF Flow, ph, phc

(* Receiving a batch into an empty one leaves the flow as it is.            *)
LEMMA FlowReceive ==
  ASSUME NEW p \in Seq(Nat), NEW h \in Seq(Nat), NEW c \in Seq(Nat),
         NEW b \in Seq(Nat), NEW w \in Seq(Nat)
  PROVE  Flow(p, h, c, b, w) = Flow(p, h, c, <<>>, b \o w)
<1> DEFINE phc == p \o h \o c
<1>1. phc \in Seq(Nat)
  BY ConcatProperties
<1> HIDE DEF phc
<1>2. (phc \o b) \o w = phc \o (b \o w) /\ phc \o <<>> = phc
  BY <1>1, NatAssociative, ConcatEmptySeq
<1> QED
  BY <1>2, Zenon DEF Flow, phc

(* A flow without its channel, without what the worker holds, without its   *)
(* batch or without the head of its batch rises when the whole does.        *)
LEMMA FlowCut ==
  ASSUME NEW p \in Seq(Nat), NEW h \in Seq(Nat), NEW c \in Seq(Nat),
         NEW b \in Seq(Nat), NEW w \in Seq(Nat), NEW n \in Nat,
         Rising(Flow(p, h, c, b, w), n)
  PROVE  /\ Rising(Flow(p, h, <<>>, b, w), n)
         /\ Rising(Flow(p, <<>>, <<>>, b, w), n)
         /\ Rising(Flow(p, h, c, <<>>, w), n)
         /\ b # <<>> => Rising(Flow(p, h, c, Tail(b), w), n)
<1> DEFINE ph == p \o h
           hc == h \o c
           phc == ph \o c
           bw == b \o w
<1>1. ph \in Seq(Nat) /\ hc \in Seq(Nat) /\ bw \in Seq(Nat)
  BY ConcatProperties
<1>2. phc = p \o hc
  BY NatAssociative
<1> HIDE DEF ph
<1>3. phc \in Seq(Nat) /\ ph \o <<>> = ph
  BY <1>1, ConcatProperties, ConcatEmptySeq
<1> HIDE DEF phc, hc
<1>4. (phc \o b) \o w = phc \o bw /\ (ph \o b) \o w = ph \o bw /\ (p \o b) \o w = p \o bw
  <2>1. (phc \o b) \o w = phc \o bw
    BY <1>3, NatAssociative
  <2>2. (ph \o b) \o w = ph \o bw
    <3>1. ph \in Seq(Nat)
      BY <1>1
    <3> QED
      BY <3>1, NatAssociative
  <2>3. (p \o b) \o w = p \o bw
    BY NatAssociative
  <2> QED
    BY <2>1, <2>2, <2>3
<1> HIDE DEF bw
<1>5. Rising(phc \o bw, n)
  BY <1>4, Zenon DEF Flow, ph, phc
<1>6. Rising(Flow(p, h, <<>>, b, w), n)
  <2>1. Rising(ph \o bw, n)
    BY <1>1, <1>5, CutRising DEF phc
  <2> QED
    BY <1>3, <1>4, <2>1, Zenon DEF Flow, ph
<1>7. Rising(Flow(p, <<>>, <<>>, b, w), n)
  <2>1. Rising(p \o bw, n)
    BY <1>1, <1>2, <1>5, CutRising
  <2>2. p \o <<>> = p
    BY ConcatEmptySeq
  <2> QED
    BY <1>4, <2>1, <2>2, Zenon DEF Flow
<1>8. Rising(Flow(p, h, c, <<>>, w), n)
  <2>1. Rising(phc \o b \o w, n) /\ phc \o <<>> = phc
    BY <1>3, <1>4, <1>5, ConcatEmptySeq, Zenon
  <2>2. Rising(phc \o w, n)
    BY <1>3, <2>1, CutRising
  <2> QED
    BY <2>1, <2>2, Zenon DEF Flow, ph, phc
<1>9. ASSUME b # <<>> PROVE Rising(Flow(p, h, c, Tail(b), w), n)
  <2>1. Head(b) \in Nat /\ Tail(b) \in Seq(Nat)
    BY <1>9, HeadTailProperties
  <2>2. Append(phc, Head(b)) \o Tail(b) = phc \o b
    BY <1>3, <1>9, MoveHead
  <2>3. Rising((Append(phc, Head(b)) \o Tail(b)) \o w, n)
    BY <1>4, <1>5, <2>2, Zenon
  <2>4. Rising((phc \o Tail(b)) \o w, n)
    BY <1>3, <2>1, <2>3, CutElement
  <2> QED
    BY <2>4, Zenon DEF Flow, ph, phc
<1> QED
  BY <1>6, <1>7, <1>8, <1>9

-----------------------------------------------------------------------------
(* The inductive invariant *)

(* Where the threads are and what they hold: a batch is kept only while it  *)
(* is sent, completed batches only while they are sunk, the worker finishes *)
(* after the receiver and with an empty channel, shutdown returns after the *)
(* worker, and the caller is past spawn exactly when a worker was started.  *)
Control ==
  /\ receiver # "send" => batch = <<>>
  /\ worker # "sink" => out = <<>>
  /\ worker = "done" => receiver = "done" /\ channel = <<>>
  /\ caller = "returned" => worker \in {"done", "panicked"}
  /\ caller = "spawning" <=> worker = "unborn"
  /\ caller = "failed" <=> worker = "never"

(* The histories have their types.                                          *)
History ==
  /\ pushed \in Seq(1 .. N)
  /\ produced \in Seq((1 .. N) \X (1 .. MaxOut))
  /\ pulled \in Seq((1 .. N) \X (1 .. MaxOut))

(* Each datagram taken off the socket is somewhere or was counted.          *)
Balance ==
  Connected => taken = Len(pushed) + Len(hand) + Len(channel) + Len(batch) + dropped

(* The batches taken, waiting and not yet sunk are the completed ones.      *)
SinkFlow == sink_open /\ worker # "panicked" => pulled \o sink \o out = produced

(* Nothing came in after stop unless a recv_batch call was under way; a     *)
(* receiver that has received after stop does not call recv_batch again.    *)
Late ==
  /\ late <= BATCH
  /\ ~stop => late = 0
  /\ receiver = "recv" => late = 0

IInv ==
  /\ TypeOK /\ History /\ Control
  /\ Rising(Flow(pushed, hand, channel, batch, wire), arrived)
  /\ Balance /\ SinkFlow /\ Late

(* The initial state satisfies the invariant.                               *)
LEMMA InitIInv == Init => IInv
<1> SUFFICES ASSUME Init PROVE IInv
  OBVIOUS
<1> DEFINE Pair == (1 .. N) \X (1 .. MaxOut)
<1>0. <<>> \in Seq(1 .. N) /\ <<>> \in Seq(Pair) /\ Len(<<>>) = 0
  BY EmptySeq
<1>1. TypeOK
  <2>1. sink_open \in BOOLEAN /\ own_consumer \in BOOLEAN /\ stop \in BOOLEAN
    BY DEF Init
  <2>2. out \in Seq(Pair) /\ sink \in Seq(Pair) /\ Len(sink) <= SinkCapacity
    BY <1>0, PipelineAssumption DEF Init
  <2> HIDE DEF Pair
  <2> QED
    BY <1>0, <2>1, <2>2, PipelineAssumption DEF Init, TypeOK, Pair
<1>5. History /\ Control /\ Balance /\ Late
  BY <1>0, PipelineAssumption DEF Init, History, Control, Connected, Balance, Late
<1>2. Flow(pushed, hand, channel, batch, wire) = <<>>
  BY ConcatEmptySeq, EmptySeq DEF Init, Flow
<1>3. Rising(Flow(pushed, hand, channel, batch, wire), arrived)
  BY <1>2, EmptySeq DEF Rising
<1>4. pulled \o sink \o out = produced
  BY ConcatEmptySeq, EmptySeq DEF Init
<1> QED
  BY <1>1, <1>3, <1>4, <1>5 DEF IInv, SinkFlow

-----------------------------------------------------------------------------
(* One step: the control of the threads and what came in after stop *)

(* Each step keeps the threads' control and the bound on late datagrams.    *)
LEMMA StepControl ==
  ASSUME TypeOK, Control, Late, [Next]_vars
  PROVE  Control' /\ Late'
<1> USE DEF netVars, receiverVars, workerVars, sinkVars, callerVars
<1>1. CASE SpawnWorker
  BY <1>1, PipelineAssumption DEF SpawnWorker, TypeOK, Control, Late,
    Connected
<1>2. CASE SpawnFails
  BY <1>2, PipelineAssumption DEF SpawnFails, TypeOK, Control, Late, Connected
<1>3. CASE Arrive
  BY <1>3, PipelineAssumption DEF Arrive, TypeOK, Control, Late, Connected
<1>4. CASE CheckStop
  BY <1>4, PipelineAssumption DEF CheckStop, TypeOK, Control, Late, Connected
<1>5. CASE RecvBatch
  BY <1>5, PipelineAssumption DEF RecvBatch, TypeOK, Control, Late, Connected
<1>6. CASE RecvNothing
  BY <1>6, PipelineAssumption DEF RecvNothing, TypeOK, Control, Late,
    Connected
<1>7. CASE Sent
  BY <1>7, PipelineAssumption DEF Sent, TypeOK, Control, Late, Connected
<1>8. CASE Full
  BY <1>8, PipelineAssumption DEF Full, TypeOK, Control, Late, Connected
<1>9. CASE Disconnected
  BY <1>9, PipelineAssumption DEF Disconnected, TypeOK, Control, Late,
    Connected
<1>10. CASE BatchSent
  BY <1>10, PipelineAssumption DEF BatchSent, TypeOK, Control, Late, Connected
<1>11. CASE Take
  BY <1>11, PipelineAssumption DEF Take, TypeOK, Control, Late, Connected
<1>12. CASE Finish
  BY <1>12, PipelineAssumption DEF Finish, TypeOK, Control, Late, Connected
<1>13. CASE Push
  BY <1>13, PipelineAssumption DEF Push, TypeOK, Control, Late, Connected
<1>14. CASE OnBatch
  BY <1>14, PipelineAssumption DEF OnBatch, TypeOK, Control, Late, Connected
<1>15. CASE BatchesSunk
  BY <1>15, PipelineAssumption DEF BatchesSunk, TypeOK, Control, Late,
    Connected
<1>16. CASE Panic
  BY <1>16, PipelineAssumption DEF Panic, TypeOK, Control, Late, Connected
<1>17. CASE Pull
  BY <1>17, PipelineAssumption DEF Pull, TypeOK, Control, Late, Connected
<1>18. CASE HangUp
  BY <1>18, PipelineAssumption DEF HangUp, TypeOK, Control, Late, Connected
<1>19. CASE Shutdown
  BY <1>19, PipelineAssumption DEF Shutdown, TypeOK, Control, Late, Connected
<1>20. CASE JoinReceiver
  BY <1>20, PipelineAssumption DEF JoinReceiver, TypeOK, Control, Late,
    Connected
<1>21. CASE JoinWorker
  BY <1>21, PipelineAssumption DEF JoinWorker, TypeOK, Control, Late,
    Connected
<1>22. CASE UNCHANGED vars
  BY <1>22, PipelineAssumption DEF vars, TypeOK, Control, Late, Connected
<1> QED
  BY <1>1, <1>2, <1>3, <1>4, <1>5, <1>6, <1>7, <1>8, <1>9, <1>10, <1>11,
    <1>12, <1>13, <1>14, <1>15, <1>16, <1>17, <1>18, <1>19, <1>20, <1>21,
    <1>22 DEF Next, ReceiverStep, WorkerStep, Join

(* Each step keeps the types and the bounds of the queues.                  *)
LEMMA StepType ==
  ASSUME TypeOK, History, Control, [Next]_vars
  PROVE  TypeOK' /\ History'
<1> USE DEF netVars, receiverVars, workerVars, sinkVars, callerVars
<1>1. CASE SpawnWorker
  BY <1>1, PipelineAssumption DEF SpawnWorker, TypeOK, History, Control,
    HasRoom
<1>2. CASE SpawnFails
  BY <1>2, PipelineAssumption DEF SpawnFails, TypeOK, History, Control,
    HasRoom
<1>3. CASE Arrive
  <2>1. arrived' \in 1 .. N /\ arrived' \in 0 .. N
    BY <1>3, PipelineAssumption DEF Arrive, TypeOK
  <2>2. wire' \in Seq(1 .. N) /\ Len(wire') <= KernelRoom
    <3>1. /\ wire \in Seq(1 .. N) /\ Len(wire) <= KernelRoom
          /\ Len(wire) \in Nat /\ KernelRoom \in Nat
      BY PipelineAssumption, LenProperties DEF TypeOK
    <3>2. CASE Len(wire) < KernelRoom
      BY <1>3, <2>1, <3>1, <3>2, AppendProperties DEF Arrive, HasRoom
    <3>3. CASE ~(Len(wire) < KernelRoom)
      BY <1>3, <3>1, <3>3 DEF Arrive, HasRoom
    <3> QED
      BY <3>2, <3>3
  <2> QED
    BY <1>3, <2>1, <2>2 DEF Arrive, TypeOK, History
<1>4. CASE CheckStop
  BY <1>4, PipelineAssumption DEF CheckStop, TypeOK, History, Control, HasRoom
<1>5. CASE RecvBatch
  <2>1. PICK n \in 1 .. BATCH :
             /\ n <= Len(wire)
             /\ batch' = SubSeq(wire, 1, n)
             /\ wire' = SubSeq(wire, n + 1, Len(wire))
             /\ taken' = taken + n
             /\ late' = IF stop THEN late + n ELSE late
    BY <1>5 DEF RecvBatch
  <2>2. /\ wire \in Seq(1 .. N) /\ Len(wire) <= KernelRoom
        /\ taken \in Nat /\ late \in Nat /\ n \in Nat
    BY PipelineAssumption DEF TypeOK
  <2>3. /\ batch' \in Seq(1 .. N) /\ Len(batch') = n
        /\ wire' \in Seq(1 .. N) /\ Len(wire') = Len(wire) - n
    BY <2>1, <2>2, SplitSeq
  <2>4. Len(batch') <= BATCH /\ Len(wire') <= KernelRoom /\ taken' \in Nat /\ late' \in Nat
    BY <2>1, <2>2, <2>3, PipelineAssumption, LenProperties
  <2> QED
    BY <1>5, <2>3, <2>4 DEF RecvBatch, TypeOK, History
<1>6. CASE RecvNothing
  BY <1>6, PipelineAssumption DEF RecvNothing, TypeOK, History, Control,
    HasRoom
<1>7. CASE Sent
  <2>1. /\ batch \in Seq(1 .. N) /\ batch # <<>> /\ channel \in Seq(1 .. N)
        /\ Len(batch) <= BATCH /\ Len(channel) < ChannelCapacity
    BY <1>7 DEF Sent, TypeOK, HasRoom
  <2>2. /\ Head(batch) \in 1 .. N
        /\ batch' \in Seq(1 .. N) /\ Len(batch') <= BATCH
    BY <1>7, <2>1, PipelineAssumption, HeadTailProperties, LenProperties
      DEF Sent
  <2>3. channel' \in Seq(1 .. N) /\ Len(channel') <= ChannelCapacity
    BY <1>7, <2>1, <2>2, PipelineAssumption, AppendProperties,
      LenProperties DEF Sent
  <2> QED
    BY <1>7, <2>2, <2>3 DEF Sent, TypeOK, History
<1>8. CASE Full
  BY <1>8, PipelineAssumption DEF Full, TypeOK, History, Control, HasRoom
<1>9. CASE Disconnected
  BY <1>9, PipelineAssumption DEF Disconnected, TypeOK, History, Control,
    HasRoom
<1>10. CASE BatchSent
  BY <1>10, PipelineAssumption DEF BatchSent, TypeOK, History, Control,
    HasRoom
<1>11. CASE Take
  <2>1. channel \in Seq(1 .. N) /\ channel # <<>> /\ Len(channel) <= ChannelCapacity
    BY <1>11 DEF Take, TypeOK
  <2>2. /\ Head(channel) \in 1 .. N
        /\ channel' \in Seq(1 .. N) /\ Len(channel') <= ChannelCapacity
    BY <1>11, <2>1, PipelineAssumption, HeadTailProperties,
      LenProperties DEF Take
  <2>3. hand' \in Seq(1 .. N) /\ Len(hand') = 1
    BY <1>11, <2>2 DEF Take
  <2> QED
    BY <1>11, <2>2, <2>3 DEF Take, TypeOK, History
<1>12. CASE Finish
  BY <1>12, PipelineAssumption DEF Finish, TypeOK, History, Control, HasRoom
<1>13. CASE Push
  <2> DEFINE Pair == (1 .. N) \X (1 .. MaxOut)
  <2>1. PICK n \in 0 .. MaxOut : /\ out' = [j \in 1 .. n |-> <<hand[1], j>>]
                               /\ produced' = produced \o out'
    BY <1>13 DEF Push
  <2>2. hand \in Seq(1 .. N) /\ Len(hand) = 1 /\ hand[1] \in 1 .. N
    <3>1. hand \in Seq(1 .. N) /\ Len(hand) = 1 /\ 1 \in 1 .. 1
      BY <1>13 DEF Push, TypeOK
    <3> QED
      BY <3>1, ElementOfSeq
  <2>3. n \in Nat /\ \A j \in 1 .. n : <<hand[1], j>> \in Pair
    BY <2>2, PipelineAssumption
  <2>4. out' \in Seq(Pair)
    <3> HIDE DEF Pair
    <3> QED
      BY <2>1, <2>3
  <2>5. produced' \in Seq(Pair)
    BY <2>1, <2>4, ConcatProperties DEF History
  <2>6. pushed' \in Seq(1 .. N) /\ hand' \in Seq(1 .. N) /\ Len(hand') = 0
    BY <1>13, <2>2, ConcatProperties, EmptySeq DEF Push, History
  <2> QED
    BY <1>13, <2>4, <2>5, <2>6 DEF Push, TypeOK, History
<1>14. CASE OnBatch
  <2> DEFINE Pair == (1 .. N) \X (1 .. MaxOut)
  <2>1. /\ out \in Seq(Pair) /\ out # <<>> /\ sink \in Seq(Pair)
        /\ Len(sink) <= SinkCapacity
        /\ sink_open => Len(sink) < SinkCapacity
    BY <1>14 DEF OnBatch, TypeOK, HasRoom
  <2> HIDE DEF Pair
  <2>2. Head(out) \in Pair /\ out' \in Seq(Pair)
    BY <1>14, <2>1, HeadTailProperties DEF OnBatch
  <2>3. sink' \in Seq(Pair) /\ Len(sink') <= SinkCapacity
    <3>1. CASE sink_open
      BY <1>14, <2>1, <2>2, <3>1, PipelineAssumption,
        AppendProperties, LenProperties DEF OnBatch
    <3>2. CASE ~sink_open
      BY <1>14, <2>1, <3>2 DEF OnBatch
    <3> QED
      BY <3>1, <3>2
  <2> QED
    BY <1>14, <2>2, <2>3 DEF OnBatch, TypeOK, History, Pair
<1>15. CASE BatchesSunk
  BY <1>15, PipelineAssumption DEF BatchesSunk, TypeOK, History, Control,
    HasRoom
<1>16. CASE Panic
  BY <1>16, PipelineAssumption DEF Panic, TypeOK, History, Control, HasRoom
<1>17. CASE Pull
  <2> DEFINE Pair == (1 .. N) \X (1 .. MaxOut)
  <2>1. /\ sink \in Seq(Pair) /\ sink # <<>> /\ Len(sink) <= SinkCapacity
        /\ pulled \in Seq(Pair)
    BY <1>17 DEF Pull, TypeOK, History
  <2> HIDE DEF Pair
  <2>2. Head(sink) \in Pair /\ sink' \in Seq(Pair) /\ Len(sink') <= SinkCapacity
    BY <1>17, <2>1, PipelineAssumption, HeadTailProperties,
      LenProperties DEF Pull
  <2>3. pulled' \in Seq(Pair)
    BY <1>17, <2>1, <2>2, AppendProperties DEF Pull
  <2> QED
    BY <1>17, <2>2, <2>3 DEF Pull, TypeOK, History, Pair
<1>18. CASE HangUp
  <2> DEFINE Pair == (1 .. N) \X (1 .. MaxOut)
  <2>1. sink' \in Seq(Pair) /\ Len(sink') <= SinkCapacity
    BY <1>18, PipelineAssumption, EmptySeq DEF HangUp
  <2>2. sink_open' \in BOOLEAN
    BY <1>18 DEF HangUp
  <2> QED
    BY <1>18, <2>1, <2>2 DEF HangUp, TypeOK, History
<1>19. CASE Shutdown
  BY <1>19, PipelineAssumption DEF Shutdown, TypeOK, History, Control, HasRoom
<1>20. CASE JoinReceiver
  BY <1>20, PipelineAssumption DEF JoinReceiver, TypeOK, History, Control,
    HasRoom
<1>21. CASE JoinWorker
  BY <1>21, PipelineAssumption DEF JoinWorker, TypeOK, History, Control,
    HasRoom
<1>22. CASE UNCHANGED vars
  BY <1>22, PipelineAssumption DEF vars, TypeOK, History, Control, HasRoom
<1> QED
  BY <1>1, <1>2, <1>3, <1>4, <1>5, <1>6, <1>7, <1>8, <1>9, <1>10, <1>11,
    <1>12, <1>13, <1>14, <1>15, <1>16, <1>17, <1>18, <1>19, <1>20, <1>21,
    <1>22 DEF Next, ReceiverStep, WorkerStep, Join

(* Each step keeps the account of the datagrams taken off the socket.       *)
LEMMA StepBalance ==
  ASSUME TypeOK, History, Control, Balance, [Next]_vars
  PROVE  Balance'
<1> USE DEF netVars, receiverVars, workerVars, sinkVars, callerVars
<1>0. /\ Len(pushed) \in Nat /\ Len(hand) \in Nat /\ Len(channel) \in Nat
      /\ Len(batch) \in Nat /\ dropped \in Nat /\ taken \in Nat
  BY LenProperties DEF TypeOK, History
<1>1. CASE SpawnWorker
  BY <1>1, <1>0 DEF SpawnWorker, TypeOK, History, Control, Balance, Connected
<1>2. CASE SpawnFails
  BY <1>2, <1>0 DEF SpawnFails, TypeOK, History, Control, Balance, Connected
<1>3. CASE Arrive
  BY <1>3, <1>0 DEF Arrive, TypeOK, History, Control, Balance, Connected
<1>4. CASE CheckStop
  BY <1>4, <1>0 DEF CheckStop, TypeOK, History, Control, Balance, Connected
<1>5. CASE RecvBatch
  <2>1. PICK n \in 1 .. BATCH :
             /\ n <= Len(wire)
             /\ batch' = SubSeq(wire, 1, n)
             /\ taken' = taken + n
    BY <1>5 DEF RecvBatch
  <2>2. Len(batch') = n /\ n \in Nat /\ Len(batch) = 0
    BY <1>5, <2>1, PipelineAssumption, SplitSeq, EmptySeq DEF RecvBatch,
      TypeOK, Control
  <2> QED
    BY <1>5, <2>1, <2>2, <1>0 DEF RecvBatch, Balance, Connected
<1>6. CASE RecvNothing
  BY <1>6, <1>0 DEF RecvNothing, TypeOK, History, Control, Balance, Connected
<1>7. CASE Sent
  <2>1. /\ batch \in Seq(1 .. N) /\ batch # <<>> /\ channel \in Seq(1 .. N)
        /\ batch' = Tail(batch) /\ channel' = Append(channel, Head(batch))
    BY <1>7 DEF Sent, TypeOK
  <2>2. Len(batch') = Len(batch) - 1 /\ Len(channel') = Len(channel) + 1
    BY <2>1, HeadTailProperties, AppendProperties
  <2> QED
    BY <1>7, <2>2, <1>0 DEF Sent, Balance, Connected
<1>8. CASE Full
  <2>1. Len(batch') = Len(batch) - 1
    BY <1>8, HeadTailProperties DEF Full, TypeOK
  <2> QED
    BY <1>8, <2>1, <1>0 DEF Full, Balance, Connected
<1>9. CASE Disconnected
  BY <1>9, <1>0 DEF Disconnected, TypeOK, History, Control, Balance, Connected
<1>10. CASE BatchSent
  BY <1>10, <1>0 DEF BatchSent, TypeOK, History, Control, Balance, Connected
<1>11. CASE Take
  BY <1>11, <1>0 DEF Take, TypeOK, History, Control, Balance, Connected
<1>12. CASE Finish
  BY <1>12, <1>0 DEF Finish, TypeOK, History, Control, Balance, Connected
<1>13. CASE Push
  <2>1. Len(pushed') = Len(pushed) + Len(hand) /\ Len(hand') = 0
    BY <1>13, ConcatProperties, EmptySeq DEF Push, TypeOK, History
  <2> QED
    BY <1>13, <2>1, <1>0 DEF Push, Balance, Connected
<1>14. CASE OnBatch
  BY <1>14, <1>0 DEF OnBatch, TypeOK, History, Control, Balance, Connected
<1>15. CASE BatchesSunk
  BY <1>15, <1>0 DEF BatchesSunk, TypeOK, History, Control, Balance, Connected
<1>16. CASE Panic
  BY <1>16, <1>0 DEF Panic, TypeOK, History, Control, Balance, Connected
<1>17. CASE Pull
  BY <1>17, <1>0 DEF Pull, TypeOK, History, Control, Balance, Connected
<1>18. CASE HangUp
  BY <1>18, <1>0 DEF HangUp, TypeOK, History, Control, Balance, Connected
<1>19. CASE Shutdown
  BY <1>19, <1>0 DEF Shutdown, TypeOK, History, Control, Balance, Connected
<1>20. CASE JoinReceiver
  BY <1>20, <1>0 DEF JoinReceiver, TypeOK, History, Control, Balance,
    Connected
<1>21. CASE JoinWorker
  BY <1>21, <1>0 DEF JoinWorker, TypeOK, History, Control, Balance, Connected
<1>22. CASE UNCHANGED vars
  BY <1>22, <1>0 DEF vars, TypeOK, History, Control, Balance, Connected
<1> QED
  BY <1>1, <1>2, <1>3, <1>4, <1>5, <1>6, <1>7, <1>8, <1>9, <1>10, <1>11,
    <1>12, <1>13, <1>14, <1>15, <1>16, <1>17, <1>18, <1>19, <1>20, <1>21,
    <1>22 DEF Next, ReceiverStep, WorkerStep, Join

-----------------------------------------------------------------------------
(* One step: the order of the datagrams and of the batches *)

(* Each step keeps the flow of datagrams rising: it leaves the flow as it   *)
(* is, extends it by the newest datagram or cuts out what is lost.          *)
LEMMA StepFlow ==
  ASSUME TypeOK, History, Control, [Next]_vars,
         Rising(Flow(pushed, hand, channel, batch, wire), arrived)
  PROVE  Rising(Flow(pushed, hand, channel, batch, wire), arrived)'
<1> USE DEF netVars, receiverVars, workerVars, sinkVars, callerVars
<1> DEFINE flow == Flow(pushed, hand, channel, batch, wire)
<1>0. /\ pushed \in Seq(Nat) /\ hand \in Seq(Nat) /\ channel \in Seq(Nat)
      /\ batch \in Seq(Nat) /\ wire \in Seq(Nat) /\ arrived \in Nat
      /\ flow \in Seq(Nat) /\ Rising(flow, arrived)
  <2>1. 1 .. N \subseteq Nat
    BY PipelineAssumption
  <2>2. /\ pushed \in Seq(Nat) /\ hand \in Seq(Nat) /\ channel \in Seq(Nat)
        /\ batch \in Seq(Nat) /\ wire \in Seq(Nat)
    BY <2>1, SeqMonotonic DEF TypeOK, History
  <2>3. arrived \in Nat
    BY PipelineAssumption DEF TypeOK
  <2> QED
    BY <2>2, <2>3, FlowArrive
<1> SUFFICES Rising(flow', arrived')
  OBVIOUS
<1> HIDE DEF flow
<1>1. CASE SpawnWorker
  BY <1>1, <1>0 DEF SpawnWorker, flow
<1>2. CASE SpawnFails
  BY <1>2, <1>0, FlowCut DEF SpawnFails, flow
<1>3. CASE Arrive
  <2>1. CASE HasRoom(wire, KernelRoom)
    <3>1. wire' = Append(wire, arrived + 1) /\ arrived' = arrived + 1 /\ arrived + 1 \in Nat
      BY <1>3, <1>0, <2>1 DEF Arrive
    <3>2. flow' = Append(flow, arrived + 1)
      BY <1>3, <1>0, <3>1, FlowArrive DEF Arrive, flow
    <3> QED
      BY <1>0, <3>1, <3>2, AppendRising
  <2>2. CASE ~HasRoom(wire, KernelRoom)
    <3>1. flow' = flow /\ arrived' = arrived + 1
      BY <1>3, <2>2 DEF Arrive, flow
    <3> QED
      BY <1>0, <3>1, HigherBound
  <2> QED
    BY <2>1, <2>2
<1>4. CASE CheckStop
  BY <1>4, <1>0 DEF CheckStop, flow
<1>5. CASE RecvBatch
  <2>1. PICK n \in 1 .. BATCH :
             /\ n <= Len(wire)
             /\ batch' = SubSeq(wire, 1, n)
             /\ wire' = SubSeq(wire, n + 1, Len(wire))
    BY <1>5 DEF RecvBatch
  <2>2. batch' \in Seq(Nat) /\ wire' \in Seq(Nat) /\ batch' \o wire' = wire
    <3>1. n \in Nat
      BY PipelineAssumption
    <3> QED
      BY <1>0, <2>1, <3>1, SplitSeq
  <2>3. batch = <<>>
    BY <1>5 DEF RecvBatch, Control
  <2>4. Flow(pushed, hand, channel, batch', wire') = Flow(pushed, hand, channel, <<>>, wire)
    <3>1. Flow(pushed, hand, channel, batch', wire')
            = Flow(pushed, hand, channel, <<>>, batch' \o wire')
      <4>1. /\ pushed \in Seq(Nat) /\ hand \in Seq(Nat) /\ channel \in Seq(Nat)
            /\ batch' \in Seq(Nat) /\ wire' \in Seq(Nat)
        BY <1>0, <2>2
      <4> QED
        BY <4>1, FlowReceive
    <3> QED
      BY <2>2, <3>1
  <2> QED
    BY <1>5, <1>0, <2>3, <2>4 DEF RecvBatch, flow
<1>6. CASE RecvNothing
  BY <1>6, <1>0 DEF RecvNothing, flow
<1>7. CASE Sent
  <2>1. batch # <<>> /\ batch' = Tail(batch) /\ channel' = Append(channel, Head(batch))
    BY <1>7 DEF Sent
  <2>2. Flow(pushed, hand, channel', batch', wire) = flow
    BY <1>0, <2>1, FlowSend DEF flow
  <2> QED
    BY <1>7, <1>0, <2>2 DEF Sent, flow
<1>8. CASE Full
  BY <1>8, <1>0, FlowCut DEF Full, flow
<1>9. CASE Disconnected
  BY <1>9, <1>0, FlowCut DEF Disconnected, flow
<1>10. CASE BatchSent
  BY <1>10, <1>0 DEF BatchSent, flow
<1>11. CASE Take
  <2>1. /\ channel # <<>> /\ channel' = Tail(channel)
        /\ hand' = <<Head(channel)>> /\ hand = <<>>
    BY <1>11, <1>0, EmptySeq DEF Take, TypeOK
  <2>2. Flow(pushed, hand', channel', batch, wire) = flow
    BY <1>0, <2>1, FlowTake DEF flow
  <2> QED
    BY <1>11, <1>0, <2>2 DEF Take, flow
<1>12. CASE Finish
  BY <1>12, <1>0 DEF Finish, flow
<1>13. CASE Push
  <2>1. pushed' = pushed \o hand /\ hand' = <<>>
    BY <1>13 DEF Push
  <2>2. Flow(pushed', hand', channel, batch, wire) = flow
    BY <1>0, <2>1, FlowPush DEF flow
  <2> QED
    BY <1>13, <1>0, <2>2 DEF Push, flow
<1>14. CASE OnBatch
  BY <1>14, <1>0 DEF OnBatch, flow
<1>15. CASE BatchesSunk
  BY <1>15, <1>0 DEF BatchesSunk, flow
<1>16. CASE Panic
  BY <1>16, <1>0, FlowCut DEF Panic, flow
<1>17. CASE Pull
  BY <1>17, <1>0 DEF Pull, flow
<1>18. CASE HangUp
  BY <1>18, <1>0 DEF HangUp, flow
<1>19. CASE Shutdown
  BY <1>19, <1>0 DEF Shutdown, flow
<1>20. CASE JoinReceiver
  BY <1>20, <1>0 DEF JoinReceiver, flow
<1>21. CASE JoinWorker
  BY <1>21, <1>0 DEF JoinWorker, flow
<1>22. CASE UNCHANGED vars
  BY <1>22, <1>0 DEF vars, flow
<1> QED
  BY <1>1, <1>2, <1>3, <1>4, <1>5, <1>6, <1>7, <1>8, <1>9, <1>10, <1>11,
    <1>12, <1>13, <1>14, <1>15, <1>16, <1>17, <1>18, <1>19, <1>20, <1>21,
    <1>22 DEF Next, ReceiverStep, WorkerStep, Join

(* Each step keeps the batches on their way to the consumer in order.       *)
LEMMA StepSink ==
  ASSUME TypeOK, History, Control, SinkFlow, [Next]_vars
  PROVE  SinkFlow'
<1> USE DEF netVars, receiverVars, workerVars, sinkVars, callerVars
<1> DEFINE Pair == (1 .. N) \X (1 .. MaxOut)
<1>0. /\ pulled \in Seq(Pair) /\ sink \in Seq(Pair) /\ out \in Seq(Pair)
      /\ pulled \o sink \in Seq(Pair)
  BY ConcatProperties DEF TypeOK, History
<1> HIDE DEF Pair
<1>1. CASE SpawnWorker
  BY <1>1 DEF SpawnWorker, SinkFlow, Control
<1>2. CASE SpawnFails
  BY <1>2 DEF SpawnFails, SinkFlow, Control
<1>3. CASE Arrive
  BY <1>3 DEF Arrive, SinkFlow, Control
<1>4. CASE CheckStop
  BY <1>4 DEF CheckStop, SinkFlow, Control
<1>5. CASE RecvBatch
  BY <1>5 DEF RecvBatch, SinkFlow, Control
<1>6. CASE RecvNothing
  BY <1>6 DEF RecvNothing, SinkFlow, Control
<1>7. CASE Sent
  BY <1>7 DEF Sent, SinkFlow, Control
<1>8. CASE Full
  BY <1>8 DEF Full, SinkFlow, Control
<1>9. CASE Disconnected
  BY <1>9 DEF Disconnected, SinkFlow, Control
<1>10. CASE BatchSent
  BY <1>10 DEF BatchSent, SinkFlow, Control
<1>11. CASE Take
  BY <1>11 DEF Take, SinkFlow, Control
<1>12. CASE Finish
  BY <1>12 DEF Finish, SinkFlow, Control
<1>13. CASE Push
  <2>1. PICK n \in 0 .. MaxOut : produced' = produced \o out'
    BY <1>13 DEF Push
  <2>2. out = <<>>
    BY <1>13 DEF Push, Control
  <2>3. pulled \o sink \o out = pulled \o sink
    BY <1>0, <2>2, ConcatEmptySeq
  <2> QED
    BY <1>13, <2>1, <2>3 DEF Push, SinkFlow
<1>14. CASE OnBatch
  <2> SUFFICES ASSUME sink_open', worker' # "panicked"
               PROVE  pulled' \o sink' \o out' = produced'
    BY DEF SinkFlow
  <2>1. /\ sink_open /\ worker # "panicked" /\ pulled' = pulled /\ produced' = produced
        /\ out # <<>> /\ sink' = Append(sink, Head(out)) /\ out' = Tail(out)
    BY <1>14 DEF OnBatch
  <2>2. Head(out) \in Pair
    BY <1>0, <2>1, HeadTailProperties
  <2>3. pulled \o sink' = Append(pulled \o sink, Head(out))
    BY <1>0, <2>1, <2>2, ConcatAppend
  <2>4. (pulled \o sink') \o out' = (pulled \o sink) \o out
    BY <1>0, <2>1, <2>3, MoveHead
  <2> QED
    BY <2>1, <2>4 DEF SinkFlow
<1>15. CASE BatchesSunk
  BY <1>15 DEF BatchesSunk, SinkFlow, Control
<1>16. CASE Panic
  BY <1>16 DEF Panic, SinkFlow, Control
<1>17. CASE Pull
  <2>1. sink # <<>> /\ pulled' = Append(pulled, Head(sink)) /\ sink' = Tail(sink)
    BY <1>17 DEF Pull
  <2>2. pulled' \o sink' = pulled \o sink
    BY <1>0, <2>1, MoveHead
  <2> QED
    BY <1>17, <2>2 DEF Pull, SinkFlow
<1>18. CASE HangUp
  BY <1>18 DEF HangUp, SinkFlow, Control
<1>19. CASE Shutdown
  BY <1>19 DEF Shutdown, SinkFlow, Control
<1>20. CASE JoinReceiver
  BY <1>20 DEF JoinReceiver, SinkFlow, Control
<1>21. CASE JoinWorker
  BY <1>21 DEF JoinWorker, SinkFlow, Control
<1>22. CASE UNCHANGED vars
  BY <1>22 DEF vars, SinkFlow, Control
<1> QED
  BY <1>1, <1>2, <1>3, <1>4, <1>5, <1>6, <1>7, <1>8, <1>9, <1>10, <1>11,
    <1>12, <1>13, <1>14, <1>15, <1>16, <1>17, <1>18, <1>19, <1>20, <1>21,
    <1>22 DEF Next, ReceiverStep, WorkerStep, Join

(* What was pushed rises by itself.                                         *)
LEMMA PushedRises ==
  ASSUME IInv
  PROVE  Rising(pushed, arrived)
<1> DEFINE rest == batch \o wire
<1>1. /\ pushed \in Seq(Nat) /\ hand \in Seq(Nat) /\ channel \in Seq(Nat)
      /\ batch \in Seq(Nat) /\ wire \in Seq(Nat) /\ arrived \in Nat
  <2>1. 1 .. N \subseteq Nat
    BY PipelineAssumption
  <2>2. /\ pushed \in Seq(Nat) /\ hand \in Seq(Nat) /\ channel \in Seq(Nat)
        /\ batch \in Seq(Nat) /\ wire \in Seq(Nat)
    BY <2>1, SeqMonotonic DEF IInv, TypeOK, History
  <2> QED
    BY <2>2, PipelineAssumption DEF IInv, TypeOK
<1>2. Rising(Flow(pushed, <<>>, <<>>, batch, wire), arrived)
  BY <1>1, FlowCut DEF IInv
<1>3. rest \in Seq(Nat) /\ (pushed \o batch) \o wire = pushed \o rest
  BY <1>1, ConcatProperties, NatAssociative
<1> HIDE DEF rest
<1>4. pushed \o <<>> = pushed /\ pushed \o rest \in Seq(Nat) /\ <<>> \in Seq(Nat)
  BY <1>1, <1>3, ConcatEmptySeq, ConcatProperties
<1>5. (pushed \o rest) \o <<>> = pushed \o rest
  BY <1>4, ConcatEmptySeq
<1>6. Rising(pushed \o rest \o <<>>, arrived)
  BY <1>2, <1>3, <1>4, <1>5, Zenon DEF Flow
<1> QED
  BY <1>1, <1>3, <1>4, <1>6, CutRising

-----------------------------------------------------------------------------
(* Theorems *)

(* Every step preserves the conjunction.                                    *)
LEMMA NextIInv == IInv /\ [Next]_vars => IInv'
<1> SUFFICES ASSUME IInv, [Next]_vars PROVE IInv'
  OBVIOUS
<1>1. Control' /\ Late'
  BY StepControl DEF IInv
<1>2. TypeOK' /\ History'
  BY StepType DEF IInv
<1>3. Balance'
  BY StepBalance DEF IInv
<1>4. Rising(Flow(pushed, hand, channel, batch, wire), arrived)'
  BY StepFlow DEF IInv
<1>5. SinkFlow'
  BY StepSink DEF IInv
<1> QED
  BY <1>1, <1>2, <1>3, <1>4, <1>5 DEF IInv

(* The conjunction is an invariant.                                         *)
LEMMA SpecIInv == Spec => []IInv
BY InitIInv, NextIInv, PTL DEF Spec

(* The threads' state keeps its type, and neither the socket buffer, a      *)
(* batch, the channel nor the sink's channel exceeds its capacity.          *)
THEOREM PipelineTypeOK == Spec => []TypeOK
<1>1. IInv => TypeOK
  BY DEF IInv
<1> QED
  BY <1>1, SpecIInv, PTL

(* Datagrams reach the deshredder in the order the kernel queued them and   *)
(* none twice, whatever is dropped on a full channel, discarded by a panic  *)
(* of the worker or abandoned by a receiver that finds the channel closed.  *)
THEOREM PipelineInOrder == Spec => []InOrder
<1>1. IInv => InOrder
  BY DEF IInv, Rising, Flow, InOrder
<1> QED
  BY <1>1, SpecIInv, PTL

(* While the channel is connected, Stats::dropped counts exactly the        *)
(* datagrams that recv_batch returned and that are not pushed and do not    *)
(* wait; when shutdown returns, no datagram waits.                          *)
THEOREM PipelineAccounted == Spec => []Accounted
<1>1. ASSUME IInv PROVE Accounted
  <2> SUFFICES ASSUME Connected PROVE
        /\ taken = Len(pushed) + Len(hand) + Len(channel) + Len(batch) + dropped
        /\ caller = "returned" => taken = Len(pushed) + dropped
    BY DEF Accounted
  <2>1. taken = Len(pushed) + Len(hand) + Len(channel) + Len(batch) + dropped
    BY <1>1 DEF IInv, Balance
  <2>2. ASSUME caller = "returned"
        PROVE  Len(hand) = 0 /\ Len(channel) = 0 /\ Len(batch) = 0
    BY <1>1, <2>2, EmptySeq DEF IInv, Control, Connected, TypeOK
  <2>3. Len(pushed) \in Nat /\ dropped \in Nat
    BY <1>1, LenProperties DEF IInv, History, TypeOK
  <2> QED
    BY <2>1, <2>2, <2>3
<1> QED
  BY <1>1, SpecIInv, PTL

(* A consumer that stays gets each batch that push completed, once and in   *)
(* order, unless the worker panicked; when shutdown returns, each was taken *)
(* or is in the sink's channel.                                             *)
THEOREM PipelineSinkGetsEveryBatch == Spec => []SinkGetsEveryBatch
<1>1. ASSUME IInv PROVE SinkGetsEveryBatch
  <2> SUFFICES ASSUME sink_open, worker # "panicked" PROVE
        /\ pulled \o sink \o out = produced
        /\ caller = "returned" => pulled \o sink = produced
    BY DEF SinkGetsEveryBatch
  <2>1. pulled \o sink \o out = produced
    BY <1>1 DEF IInv, SinkFlow
  <2>2. ASSUME caller = "returned" PROVE pulled \o sink = produced
    <3>1. out = <<>>
      BY <1>1, <2>2 DEF IInv, Control
    <3>2. pulled \o sink \in Seq((1 .. N) \X (1 .. MaxOut))
      BY <1>1, ConcatProperties DEF IInv, TypeOK, History
    <3> QED
      BY <2>1, <3>1, <3>2, ConcatEmptySeq
  <2> QED
    BY <2>1, <2>2
<1> QED
  BY <1>1, SpecIInv, PTL

(* After Pipeline::shutdown has set stop, at most one recv_batch call, the  *)
(* one already under way, still returns datagrams.                          *)
THEOREM PipelineStopsReceiving == Spec => []StopsReceiving
<1>1. IInv => StopsReceiving
  BY DEF IInv, Late, StopsReceiving
<1> QED
  BY <1>1, SpecIInv, PTL

=============================================================================
