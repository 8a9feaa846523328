------------------------------ MODULE ArqData ------------------------------
(***************************************************************************)
(* The data plane of internal/arq for one direction of one stream: the     *)
(* sending ARQ reads chunks from its local application (ioLoop), keeps     *)
(* them in sndBuf until they are acknowledged and retransmits them; the    *)
(* receiving ARQ reorders them in rcvBuf, acknowledges and NACKs, and      *)
(* writes them to its local application (writeLoop).  Between the two lies *)
(* a DNS path that loses, duplicates, delays and reorders packets.         *)
(*                                                                         *)
(* Sequence numbers wrap at SeqSpace.  A chunk is identified by its        *)
(* position in the stream, which no packet carries: the code sees only the *)
(* wrapped number, the position stands for the payload bytes.              *)
(***************************************************************************)
EXTENDS SeqArith, Sequences, FiniteSets, Functions

CONSTANTS
  WindowLimit,   \* a.limit: chunks that may be unacknowledged
  RecvWindow,    \* a.receiveWindowSize
  NackGap,       \* a.dataNackMaxGap
  MaxRetries,    \* a.maxDataRetries
  Lifetime,      \* how many chunks may be read while a packet is under way
  ChunkCount,    \* bound: chunks the application offers
  MaxInFlight,   \* bound: packets of a kind under way at once
  MaxBatch       \* bound: retransmissions one scan collects

(* The widths fit the number space: the configuration clamps the window at *)
(* 8000 chunks, which makes the limit 6400 and the receive window 16000    *)
(* against 32768.  Lifetime is about the path, not the code: it delivers a *)
(* packet only if its chunk is among the last Lifetime chunks read.  How   *)
(* long a chunk stays unacknowledged is not bounded.                       *)
ASSUME WindowAssumption ==
  /\ WindowLimit \in Nat \ {0}
  /\ RecvWindow \in Nat \ {0}
  /\ NackGap \in Nat
  /\ MaxRetries \in Nat
  /\ Lifetime \in 1 .. Half
  /\ ChunkCount \in Nat
  /\ MaxInFlight \in Nat \ {0}
  /\ MaxBatch \in Nat \ {0}
  /\ RecvWindow + 1 + WindowLimit <= Half

VARIABLES
  input,      \* chunks read from the local application so far
  sndNxt,     \* a.sndNxt
  sndBuf,     \* a.sndBuf
  txQueue,    \* data and resend packets waiting in the stream's TX queue
  rtxJobs,    \* jobs checkRetransmits took from sndBuf and has not pushed yet
  rtxPushed,  \* the job it pushed and has not marked in sndBuf yet
  gaveUp,     \* the sender reset the stream: retransmissions exhausted
  dataNet,    \* data packets under way
  ackNet,     \* acknowledgements under way
  nackNet,    \* negative acknowledgements under way
  rcvNxt,     \* the receiver's a.rcvNxt
  rcvBuf,     \* the receiver's a.rcvBuf
  output      \* chunks written to the receiver's local application

senderVars   == <<input, sndNxt, sndBuf, txQueue, rtxJobs, rtxPushed, gaveUp>>
receiverVars == <<rcvNxt, rcvBuf, output>>
netVars      == <<dataNet, ackNet, nackNet>>
vars         == <<senderVars, netVars, receiverVars>>

Chunk   == 0 .. ChunkCount - 1
Packet  == [sn : Seqs, chunk : Chunk]
Segment == [chunk : Chunk, dispatched : BOOLEAN, retries : 0 .. MaxRetries]

Store(f, s, v) == [x \in DOMAIN f \cup {s} |-> IF x = s THEN v ELSE f[x]]
Without(f, S)  == Restrict(f, DOMAIN f \ S)

(* The path holds what fits and the packets that are young enough. *)
Young(c)       == input - c <= Lifetime
Put(net, p)    == IF Cardinality(net) < MaxInFlight THEN net \cup {p} ELSE net
Arrivals(net, p) == {net, net \ {p}}    \* a copy may stay behind

Init ==
  /\ input = 0 /\ sndNxt = 0 /\ sndBuf = <<>>
  /\ txQueue = {} /\ rtxJobs = {} /\ rtxPushed = {} /\ gaveUp = FALSE
  /\ dataNet = {} /\ ackNet = {} /\ nackNet = {}
  /\ rcvNxt = 0 /\ rcvBuf = <<>> /\ output = <<>>

-----------------------------------------------------------------------------
(* The sending ARQ. *)

(* PushTXPacket refuses a data packet whose number is queued already. *)
Queued(sn) == \E p \in txQueue : p.sn = sn

WindowOpenOffByOne == Cardinality(DOMAIN sndBuf) <= WindowLimit

(* waitWindowNotFull *)
WindowOpen == Cardinality(DOMAIN sndBuf) < WindowLimit

NextNumberUnwrapped(sn) == sn + 1

(* ioLoop's a.sndNxt++ on a uint16 *)
NextNumber(sn) == Wrap(sn + 1)

(* ioLoop: waits until fewer than the limit are unacknowledged, reads a    *)
(* chunk, stores it under its number whatever is there, and queues it.     *)
(* Packets under way grow older.                                           *)
IoRead ==
  /\ ~gaveUp
  /\ input < ChunkCount
  /\ WindowOpen
  /\ input' = input + 1
  /\ sndNxt' = NextNumber(sndNxt)
  /\ sndBuf' = Store(sndBuf, sndNxt,
                     [chunk |-> input, dispatched |-> Queued(sndNxt), retries |-> 0])
  /\ txQueue' = IF Queued(sndNxt) THEN txQueue
                ELSE txQueue \cup {[sn |-> sndNxt, chunk |-> input]}
  /\ dataNet' = {p \in dataNet : (input + 1) - p.chunk <= Lifetime}
  /\ ackNet' = {p \in ackNet : (input + 1) - p.chunk <= Lifetime}
  /\ UNCHANGED <<rtxJobs, rtxPushed, gaveUp, nackNet, receiverVars>>

(* The dispatcher takes a packet from the TX queue and sends it;           *)
(* NoteTXPacketDequeued starts its retransmission timer.                   *)
TxDequeue(p) ==
  /\ p \in txQueue
  /\ txQueue' = txQueue \ {p}
  /\ sndBuf' = IF p.sn \in DOMAIN sndBuf
               THEN [sndBuf EXCEPT ![p.sn].dispatched = TRUE] ELSE sndBuf
  /\ dataNet' = IF Young(p.chunk) THEN Put(dataNet, p) ELSE dataNet
  /\ UNCHANGED <<input, sndNxt, rtxJobs, rtxPushed, gaveUp, ackNet, nackNet,
                 receiverVars>>

(* checkRetransmits, under the read lock: the dispatched chunks whose      *)
(* timeout has passed become jobs.                                         *)
RtxCheck ==
  /\ ~gaveUp
  /\ rtxJobs = {} /\ rtxPushed = {}
  /\ \E S \in SUBSET {s \in DOMAIN sndBuf : sndBuf[s].dispatched} \ {{}} :
       /\ Cardinality(S) <= MaxBatch
       /\ rtxJobs' = {[sn |-> s, chunk |-> sndBuf[s].chunk] : s \in S}
  /\ UNCHANGED <<input, sndNxt, sndBuf, txQueue, rtxPushed, gaveUp, netVars,
                 receiverVars>>

(* It pushes a job without holding the lock... *)
RtxPush(p) ==
  /\ p \in rtxJobs
  /\ rtxPushed = {}
  /\ rtxJobs' = rtxJobs \ {p}
  /\ txQueue' = IF Queued(p.sn) THEN txQueue ELSE txQueue \cup {p}
  /\ rtxPushed' = IF Queued(p.sn) THEN {} ELSE {p}
  /\ UNCHANGED <<input, sndNxt, sndBuf, gaveUp, netVars, receiverVars>>

(* ... and marks it in sndBuf afterwards. *)
RtxMark(p) ==
  /\ p \in rtxPushed
  /\ rtxPushed' = {}
  /\ sndBuf' = IF p.sn \in DOMAIN sndBuf
               THEN [sndBuf EXCEPT ![p.sn].dispatched = FALSE,
                                   ![p.sn].retries = IF @ < MaxRetries THEN @ + 1 ELSE @]
               ELSE sndBuf
  /\ UNCHANGED <<input, sndNxt, txQueue, rtxJobs, gaveUp, netVars, receiverVars>>

(* checkRetransmits finds a chunk whose retries and lifetime are used up   *)
(* and resets the stream: Close with SendRST clears sndBuf.                *)
GiveUp ==
  /\ ~gaveUp
  /\ rtxJobs = {} /\ rtxPushed = {}
  /\ \E s \in DOMAIN sndBuf : sndBuf[s].retries >= MaxRetries
  /\ gaveUp' = TRUE
  /\ sndBuf' = <<>>
  /\ UNCHANGED <<input, sndNxt, txQueue, rtxJobs, rtxPushed, netVars, receiverVars>>

(* ReceiveAck, with RemoveQueuedData for the acknowledged number. *)
ReceiveAck(p) ==
  /\ p \in ackNet
  /\ ackNet' \in Arrivals(ackNet, p)
  /\ IF p.sn \in DOMAIN sndBuf
     THEN /\ sndBuf' = Without(sndBuf, {p.sn})
          /\ txQueue' = {q \in txQueue : q.sn # p.sn}
     ELSE UNCHANGED <<sndBuf, txQueue>>
  /\ UNCHANGED <<input, sndNxt, rtxJobs, rtxPushed, gaveUp, dataNet, nackNet,
                 receiverVars>>

(* HandleDataNack queues a resend of a chunk that is still unacknowledged. *)
HandleDataNack(sn) ==
  /\ sn \in nackNet
  /\ nackNet' \in Arrivals(nackNet, sn)
  /\ txQueue' = IF ~gaveUp /\ sn \in DOMAIN sndBuf /\ ~Queued(sn)
                THEN txQueue \cup {[sn |-> sn, chunk |-> sndBuf[sn].chunk]}
                ELSE txQueue
  /\ UNCHANGED <<input, sndNxt, sndBuf, rtxJobs, rtxPushed, gaveUp, dataNet,
                 ackNet, receiverVars>>

-----------------------------------------------------------------------------
(* The receiving ARQ. *)

SlotFromNext(i) == Wrap(rcvNxt + i + 1)

(* The number at offset i of the receive window. *)
Slot(i) == Wrap(rcvNxt + i)

(* The offsets below n that are missing from the buffer buf. *)
Missing(buf, n) == {i \in 0 .. n - 1 : Slot(i) \notin DOMAIN buf}

(* maybeSendDataNacks: every gap below a number close to rcvNxt; for a far *)
(* one the first few gaps (a twentieth of NackGap) and the last gap of the *)
(* NackGap frontier.                                                       *)
NackOffsets(buf, diff) ==
  IF NackGap = 0 \/ diff >= Half THEN {}
  ELSE IF diff <= NackGap THEN Missing(buf, diff)
  ELSE LET sample   == (NackGap + 19) \div 20
           early    == {i \in Missing(buf, diff) :
                          Cardinality({j \in Missing(buf, diff) : j < i}) < sample}
           frontier == Missing(buf, NackGap)
       IN early \cup {i \in frontier : \A j \in frontier : j <= i}

(* The NACKs really sent are those the per-number timers allow. *)
SendNacks(offsets) ==
  \E T \in SUBSET {Slot(i) : i \in offsets} :
    nackNet' = IF Cardinality(nackNet \cup T) <= MaxInFlight THEN nackNet \cup T ELSE nackNet

(* The two tests of processReceivedData.  A number in the half behind      *)
(* rcvNxt is a duplicate: acknowledged, not stored.  A number too far      *)
(* ahead, or a new one that is not the next when the buffer is full, is    *)
(* dropped without an acknowledgement.                                     *)
DuplicateBeyondWindow(diff) == diff > RecvWindow
Duplicate(diff) == diff >= Half

RefusedWhenFull(sn, diff) ==
  \/ diff > RecvWindow
  \/ sn \notin DOMAIN rcvBuf /\ Cardinality(DOMAIN rcvBuf) >= RecvWindow

Refused(sn, diff) ==
  \/ diff > RecvWindow
  \/ /\ sn \notin DOMAIN rcvBuf
     /\ Cardinality(DOMAIN rcvBuf) >= RecvWindow
     /\ sn # rcvNxt

(* ReceiveData, rxLoop and processReceivedData.  A full rxChan is a loss,  *)
(* waiting in it a delay: both are the path's.                             *)
ProcessReceivedData(p) ==
  LET diff == Ahead(p.sn, rcvNxt) IN
  /\ p \in dataNet
  /\ dataNet' \in Arrivals(dataNet, p)
  /\ \/ /\ Duplicate(diff)
        /\ ackNet' = Put(ackNet, p)
        /\ UNCHANGED <<rcvBuf, nackNet>>
     \/ /\ ~Duplicate(diff) /\ Refused(p.sn, diff)
        /\ UNCHANGED <<rcvBuf, ackNet, nackNet>>
     \/ /\ ~Duplicate(diff) /\ ~Refused(p.sn, diff)
        /\ rcvBuf' = IF p.sn \in DOMAIN rcvBuf THEN rcvBuf
                     ELSE Store(rcvBuf, p.sn, p.chunk)
        /\ ackNet' = Put(ackNet, p)
        /\ SendNacks(NackOffsets(rcvBuf', diff))
  /\ UNCHANGED <<senderVars, rcvNxt, output>>

(* runGapRecoveryWatchdog: nothing arrives and the next chunk is missing. *)
GapWatchdog ==
  /\ DOMAIN rcvBuf # {}
  /\ rcvNxt \notin DOMAIN rcvBuf
  /\ SendNacks(Missing(rcvBuf, NackGap))
  /\ UNCHANGED <<senderVars, dataNet, ackNet, receiverVars>>

(* runFinalAckWatchdog acknowledges the last chunk written once more. *)
FinalAck ==
  /\ DOMAIN rcvBuf = {}
  /\ rcvNxt > 0
  /\ Young(Len(output) - 1)
  /\ ackNet' = Put(ackNet, [sn |-> rcvNxt - 1, chunk |-> Len(output) - 1])
  /\ UNCHANGED <<senderVars, dataNet, nackNet, receiverVars>>

(* writeLoop takes the contiguous run at rcvNxt and writes it. *)
WriteLoop ==
  \E n \in 1 .. RecvWindow + 1 :
    /\ \A i \in 0 .. n - 1 : Slot(i) \in DOMAIN rcvBuf
    /\ Slot(n) \notin DOMAIN rcvBuf
    /\ rcvNxt' = Slot(n)
    /\ rcvBuf' = Without(rcvBuf, {Slot(i) : i \in 0 .. n - 1})
    /\ output' = output \o [i \in 1 .. n |-> rcvBuf[Slot(i - 1)]]
    /\ UNCHANGED <<senderVars, netVars>>

-----------------------------------------------------------------------------
(* The path loses packets of every kind. *)
Lose ==
  /\ \/ /\ \E p \in dataNet : dataNet' = dataNet \ {p}
        /\ UNCHANGED <<ackNet, nackNet>>
     \/ /\ \E p \in ackNet : ackNet' = ackNet \ {p}
        /\ UNCHANGED <<dataNet, nackNet>>
     \/ /\ \E s \in nackNet : nackNet' = nackNet \ {s}
        /\ UNCHANGED <<dataNet, ackNet>>
  /\ UNCHANGED <<senderVars, receiverVars>>

Next ==
  \/ IoRead
  \/ \E p \in txQueue : TxDequeue(p)
  \/ RtxCheck
  \/ \E p \in rtxJobs : RtxPush(p)
  \/ \E p \in rtxPushed : RtxMark(p)
  \/ GiveUp
  \/ \E p \in ackNet : ReceiveAck(p)
  \/ \E s \in nackNet : HandleDataNack(s)
  \/ \E p \in dataNet : ProcessReceivedData(p)
  \/ GapWatchdog
  \/ FinalAck
  \/ WriteLoop
  \/ Lose

Spec == Init /\ [][Next]_vars

-----------------------------------------------------------------------------
(* Properties. *)

(* Every variable has its type; the two sequence numbers are the wrapped    *)
(* positions of the next chunk to read and the next to write.               *)
TypeOK ==
  /\ input \in 0 .. ChunkCount
  /\ sndNxt = Wrap(input)
  /\ DOMAIN sndBuf \subseteq Seqs /\ sndBuf \in [DOMAIN sndBuf -> Segment]
  /\ txQueue \subseteq Packet
  /\ rtxJobs \subseteq Packet
  /\ rtxPushed \subseteq Packet
  /\ gaveUp \in BOOLEAN
  /\ dataNet \subseteq Packet
  /\ ackNet \subseteq Packet
  /\ nackNet \subseteq Seqs
  /\ rcvNxt = Wrap(Len(output))
  /\ DOMAIN rcvBuf \subseteq Seqs /\ rcvBuf \in [DOMAIN rcvBuf -> Chunk]
  /\ output \in Seq(Chunk)

(* The receiving application gets every chunk once and in order, although   *)
(* numbers are reused after a wrap and old copies keep arriving             *)
(* (processReceivedData, writeLoop).                                        *)
InOrder ==
  /\ Len(output) <= input
  /\ \A i \in 1 .. Len(output) : output[i] = i - 1

Unacked  == {sndBuf[s].chunk : s \in DOMAIN sndBuf}
Buffered == {rcvBuf[s] : s \in DOMAIN rcvBuf}

(* The sender forgets a chunk only when the receiver has it: no             *)
(* acknowledgement, however late, is taken for that of the chunk that       *)
(* reuses its number (ReceiveAck, processReceivedData).                     *)
AckedIsHeld ==
  gaveUp \/ 0 .. input - 1 \subseteq Unacked \cup Buffered \cup 0 .. Len(output) - 1

(* The sender never runs further ahead of the receiving application than    *)
(* the two windows together, although the limit counts unacknowledged       *)
(* chunks and nothing bounds the span from the oldest of them               *)
(* (waitWindowNotFull, the window tests of processReceivedData).            *)
LeadBounded == input - Len(output) <= RecvWindow + 1 + WindowLimit

(* The receiver has chunk c. *)
Held(c) ==
  \/ c < Len(output)
  \/ Wrap(c) \in DOMAIN rcvBuf /\ rcvBuf[Wrap(c)] = c

(* A chunk all of whose acknowledgements were lost may sit in sndBuf for a  *)
(* whole lap of the numbers, and the chunk that gets its number then        *)
(* overwrites it without a test (ioLoop's a.sndBuf[sn] = ...).  Only a      *)
(* chunk the receiver has is overwritten.                                   *)
ReuseLosesNothing ==
  [][\A s \in DOMAIN sndBuf \cap DOMAIN sndBuf' :
       sndBuf'[s].chunk = sndBuf[s].chunk \/ Held(sndBuf[s].chunk)]_vars

(* The data plane implements the reliable stream. *)
Stream == INSTANCE ReliableStream WITH
            read    <- [i \in 1 .. input |-> i - 1],
            written <- output

ImplementsStream == Stream!Spec

-----------------------------------------------------------------------------
(* Fairness.  The dispatcher serves every queued packet, writeLoop runs     *)
(* when it can, a packet sent again and again arrives, and the gap watchdog *)
(* (or the arrival of other chunks) repeats the NACK of the next chunk.     *)
PacketOf(c) == [sn |-> Wrap(c), chunk |-> c]

Fairness ==
  /\ \A c \in Chunk : /\ WF_vars(TxDequeue(PacketOf(c)))
                       /\ SF_vars(ProcessReceivedData(PacketOf(c)))
                       /\ SF_vars(HandleDataNack(Wrap(c)))
  /\ SF_vars(GapWatchdog /\ rcvNxt \in nackNet')
  /\ WF_vars(WriteLoop)

FairSpec == Spec /\ Fairness

(* A chunk that waits behind a gap is written in the end: the NACKs alone   *)
(* close the gap, without the retransmission timer, and a full buffer still *)
(* admits the missing chunk (runGapRecoveryWatchdog, HandleDataNack).       *)
GapRepaired ==
  \A c \in Chunk : c \in Buffered ~> (Len(output) > c \/ gaveUp)
=============================================================================
