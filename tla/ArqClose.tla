------------------------------ MODULE ArqClose ------------------------------
(***************************************************************************)
(* How a stream of internal/arq ends: the close-read, close-write and      *)
(* reset handshakes between the two ARQs of a stream, the drain of unsent  *)
(* data before a terminal packet, the single slot in which a terminal      *)
(* acknowledgement is awaited, and the loops that read from and write to   *)
(* the local connections meanwhile.                                        *)
(*                                                                         *)
(* The state of one ARQ is a record; every method that runs under a.mu, or *)
(* a chain of methods that call each other, is an operator from records to *)
(* records named after it.  An action is one such chain run by one         *)
(* goroutine.  Two loops are split where the code lets go of the lock:     *)
(* ioLoop while it reads, writeLoop between its two critical sections and  *)
(* while it writes.                                                        *)
(*                                                                         *)
(* Data are abstracted to the numbers of the chunks: ArqData shows that    *)
(* they arrive once and in order.  A packet that is never received is one  *)
(* that the path lost; they are received in any order.                     *)
(***************************************************************************)
EXTENDS Naturals, FiniteSets

CONSTANTS
  Workloads,   \* set of [Side -> Nat]: the chunks each local application sends
  AppErrors,   \* local connections may fail (BOOLEAN)
  Timeouts,    \* deadlines and retry limits may pass (BOOLEAN)
  LateCopies   \* a delivered packet leaves a copy on the path (BOOLEAN)

Side == {"client", "server"}
Peer(s) == IF s = "client" THEN "server" ELSE "client"

ASSUME CloseAssumption ==
  /\ Workloads \subseteq [Side -> Nat]
  /\ AppErrors \in BOOLEAN /\ Timeouts \in BOOLEAN /\ LateCopies \in BOOLEAN

VARIABLES
  arq,     \* the two ARQs
  data,    \* data[s]: chunks on their way to s
  acks,    \* acks[s]: acknowledgements of data on their way to s
  ctl      \* ctl[s]: terminal packets and their acknowledgements on their way to s

vars == <<arq, data, acks, ctl>>

Terminal == {"CLOSE_READ", "CLOSE_WRITE", "RST"}
Control  == [type : Terminal, ack : BOOLEAN]

Flags == {"stopLocalRead", "localWriterBroken", "localWriteClosed",
          "closeReadSent", "closeReadReceived", "closeReadAcked",
          "closeWriteSent", "closeWriteReceived", "closeWriteAcked",
          "stateReset", "rstSent", "rstReceived", "closed"}

Arq == [offers : Nat,              \* chunks the local application sends
        fed : Nat,                 \* chunks read from it
        sndBuf : SUBSET Nat,       \* unacknowledged chunks
        rxChan : SUBSET Nat,       \* accepted, not processed: pendingInbound counts them
        rcvBuf : SUBSET Nat,
        rcvNxt : Nat,
        writing : Nat,             \* chunks in hand: localWritePending says there are some
        wrote : Nat,               \* chunks written to the local application
        flags : SUBSET Flags,
        deferred : {"none", "CLOSE_READ", "RST"},     \* deferredClose, deferredPacket
        waitingAckFor : Terminal \cup {"none"},
        controlSndBuf : SUBSET Terminal,
        flush : BOOLEAN,           \* flushSignal
        io : {"check", "read", "done"},               \* where ioLoop is
        writer : {"wait", "scan", "empty", "done"}]   \* where writeLoop is

NewARQ(n) ==
          [offers |-> n, fed |-> 0, sndBuf |-> {}, rxChan |-> {}, rcvBuf |-> {},
           rcvNxt |-> 1, writing |-> 0, wrote |-> 0, flags |-> {}, deferred |-> "none",
           waitingAckFor |-> "none", controlSndBuf |-> {}, flush |-> FALSE,
           io |-> "check", writer |-> "wait"]

Init ==
  /\ \E load \in Workloads : arq = [s \in Side |-> NewARQ(load[s])]
  /\ data = [s \in Side |-> {}]
  /\ acks = [s \in Side |-> {}]
  /\ ctl = [s \in Side |-> {}]

-----------------------------------------------------------------------------
(* The methods. *)

Is(a, f)     == f \in a.flags
Any(a, F)    == a.flags \cap F # {}
Raise(a, F)  == [a EXCEPT !.flags = @ \cup F]
Resetting(a) == Any(a, {"rstSent", "rstReceived"})

FinalizeClose(a) ==
  IF Is(a, "closed") THEN a
  ELSE [Raise(a, {"closed"}) EXCEPT !.deferred = "none", !.waitingAckFor = "none",
                                    !.sndBuf = {}, !.rcvBuf = {}, !.controlSndBuf = {}]

(* The client's writer broke and both terminal handshakes are over. *)
TryFinalizeClientLocalDisconnect(s, a) ==
  IF /\ s = "client"
     /\ {"localWriterBroken", "closeWriteAcked", "closeReadSent", "closeReadAcked"} \subseteq a.flags
     /\ a.sndBuf = {} /\ a.rcvBuf = {} /\ a.rxChan = {}
     /\ a.writing = 0 /\ a.waitingAckFor = "none" /\ a.deferred = "none"
  THEN FinalizeClose(a) ELSE a

ReceiveDrainedIgnoringWrite(a) ==
  Is(a, "localWriterBroken") \/ (a.rcvBuf = {} /\ a.rxChan = {})

ReceiveDrained(a) ==
  Is(a, "localWriterBroken") \/ (a.rcvBuf = {} /\ a.rxChan = {} /\ a.writing = 0)

WriteSideSettledByAckOnly(a) == Is(a, "closeWriteAcked")

WriteSideSettled(a) ==
  IF Is(a, "localWriterBroken") THEN Any(a, {"closeWriteAcked", "closeWriteReceived"})
  ELSE Is(a, "closeWriteSent") => Is(a, "closeWriteAcked")

OwnCloseSettled(a) ==
  \/ Is(a, "closeReadAcked")
  \/ Is(a, "closeReadSent") /\ a.waitingAckFor # "CLOSE_READ"

TryFinalizeRemoteEOF(s, a) ==
  IF Is(a, "closeReadReceived") /\ ReceiveDrained(a) /\ OwnCloseSettled(a) /\ WriteSideSettled(a)
  THEN FinalizeClose(a)
  ELSE TryFinalizeClientLocalDisconnect(s, a)

MarkCloseReadReceived(s, a) ==
  TryFinalizeRemoteEOF(s, [Raise(a, {"closeReadReceived"}) EXCEPT !.flush = TRUE])

SendControl(a, t) == [a EXCEPT !.controlSndBuf = @ \cup {t}]

(* emitTerminalPacketWithTTL, with MarkCloseReadSent, MarkCloseWriteSent    *)
(* and MarkRstSent.                                                         *)
EmitTerminal(s, a, t) ==
  LET stopped == [Raise(a, {"stopLocalRead"}) EXCEPT !.deferred = "none"]
      waiting == [stopped EXCEPT !.waitingAckFor = t]
      refused == \/ stopped.waitingAckFor = t
                 \/ Resetting(a)
                 \/ t = "CLOSE_READ" /\ Is(a, "closeReadSent")
                 \/ t = "CLOSE_WRITE" /\ Is(a, "closeWriteSent")
  IN IF Is(a, "closed") THEN a
     ELSE IF refused THEN stopped
     ELSE SendControl(
            CASE t = "CLOSE_READ"  -> TryFinalizeRemoteEOF(s, Raise(waiting, {"closeReadSent"}))
              [] t = "CLOSE_WRITE" -> [Raise(waiting, {"closeWriteSent", "localWriterBroken",
                                                       "localWriteClosed"}) EXCEPT !.rcvBuf = {}]
              [] t = "RST"         -> [Raise(waiting, {"rstSent", "stateReset"})
                                         EXCEPT !.sndBuf = {}, !.rcvBuf = {}, !.controlSndBuf = {}],
            t)

(* settleTerminalDrain: the deferred packet leaves once nothing is          *)
(* unacknowledged.                                                          *)
SettleTerminalDrain(s, a) ==
  IF a.deferred = "none" \/ Is(a, "closed") \/ a.sndBuf # {} THEN a
  ELSE EmitTerminal(s, a, a.deferred)

DeferTerminalUndrained(s, a, t) == EmitTerminal(s, a, t)

DeferTerminal(s, a, t) ==
  IF Is(a, "closed") THEN a
  ELSE SettleTerminalDrain(s, [Raise(a, {"stopLocalRead"}) EXCEPT !.deferred = t])

(* Close with SendCloseRead, SendCloseWrite or SendRST. *)
Close(s, a, t, afterDrain) ==
  IF t # "RST"
  THEN IF t = "CLOSE_READ" /\ afterDrain THEN DeferTerminal(s, a, t) ELSE EmitTerminal(s, a, t)
  ELSE IF \/ Is(a, "closed") \/ Resetting(a)
          \/ a.waitingAckFor = "RST" \/ a.deferred = "RST"
       THEN a
       ELSE LET b == [Raise(a, {"stateReset"}) EXCEPT !.deferred = "none"]
            IN IF afterDrain /\ b.sndBuf # {} THEN DeferTerminal(s, b, t)
               ELSE EmitTerminal(s, b, t)

MarkCloseWriteReceived(s, a) ==
  TryFinalizeRemoteEOF(s, SettleTerminalDrain(s,
    [Raise(a, {"closeWriteReceived", "stopLocalRead"}) EXCEPT !.sndBuf = {}]))

(* MarkRstReceived and the forced Close that both handlers run after it. *)
PeerReset(a) ==
  FinalizeClose([Raise(a, {"rstReceived", "stopLocalRead", "stateReset"})
                   EXCEPT !.sndBuf = {}, !.controlSndBuf = {}])

NeedCloseWrite(a) ==
  /\ Is(a, "localWriterBroken")
  /\ ~Is(a, "closeWriteSent") /\ a.waitingAckFor # "CLOSE_WRITE"
  /\ ~Is(a, "closed") /\ ~Resetting(a)

CloseWriteIfNeeded(s, a) == IF NeedCloseWrite(a) THEN Close(s, a, "CLOSE_WRITE", FALSE) ELSE a

MarkLocalWriterBroken(a) ==
  [Raise(a, {"localWriterBroken"}) EXCEPT !.writing = 0, !.rcvBuf = {}]

(* A client whose writer broke ends its own sending side too. *)
MaybeInitiateClientCloseRead(s, a) ==
  IF /\ s = "client" /\ Is(a, "localWriterBroken")
     /\ ~Any(a, {"closed", "rstSent", "rstReceived", "closeReadSent", "closeReadReceived"})
  THEN Close(s, a, "CLOSE_READ", a.sndBuf # {} \/ a.writing # 0)
  ELSE a

ClearWaitingAck(a, t) ==
  IF a.waitingAckFor = t THEN [a EXCEPT !.waitingAckFor = "none"] ELSE a

(* ReceiveControlAck, for a packet that is tracked or awaited. *)
ReceiveControlAck(s, a, t) ==
  LET b == [a EXCEPT !.controlSndBuf = @ \ {t}]
  IN IF t \notin a.controlSndBuf /\ a.waitingAckFor # t THEN a
     ELSE CASE t = "CLOSE_READ"  ->
                 TryFinalizeRemoteEOF(s, ClearWaitingAck(Raise(b, {"closeReadAcked"}), t))
            [] t = "CLOSE_WRITE" ->
                 TryFinalizeRemoteEOF(s, MaybeInitiateClientCloseRead(s, ClearWaitingAck(
                   Raise(b, {"closeWriteAcked", "localWriterBroken", "localWriteClosed"}), t)))
            [] t = "RST"         -> FinalizeClose(Raise(b, {"stateReset"}))

-----------------------------------------------------------------------------
(* The loops and handlers. *)

Become(s, a) == arq' = [arq EXCEPT ![s] = a]
Arrived(net, s, x) == net' = IF LateCopies THEN net ELSE [net EXCEPT ![s] = @ \ {x}]

(* ioLoop, to the point where it lets go of the lock to read. *)
IoCheck(s) ==
  /\ arq[s].io = "check"
  /\ Become(s, [arq[s] EXCEPT !.io = IF Any(arq[s], {"stopLocalRead", "closed"})
                                     THEN "done" ELSE "read"])
  /\ UNCHANGED <<data, acks, ctl>>

(* A chunk that was read enters sndBuf, whatever happened meanwhile.       *)
Feed(a) == [a EXCEPT !.fed = @ + 1, !.sndBuf = @ \cup {a.fed + 1}]

IoData(s) ==
  /\ arq[s].io = "read" /\ ~Is(arq[s], "closed")
  /\ arq[s].fed < arq[s].offers
  /\ Become(s, [Feed(arq[s]) EXCEPT !.io = "check"])
  /\ UNCHANGED <<data, acks, ctl>>

(* Or the read times out; only then does ioLoop look at stopLocalRead.      *)
IoTimeout(s) ==
  /\ arq[s].io = "read"
  /\ Is(arq[s], "stopLocalRead")
  /\ Become(s, [arq[s] EXCEPT !.io = "check"])
  /\ UNCHANGED <<data, acks, ctl>>

(* The last read of a connection may return data along with its error.      *)
LastReads(s) ==
  LET a == [arq[s] EXCEPT !.io = "done"]
  IN {a} \cup IF a.fed < a.offers THEN {Feed(a)} ELSE {}

(* The application has sent everything and shut its side down.              *)
IoEOF(s) ==
  /\ arq[s].io = "read" /\ ~Is(arq[s], "closed")
  /\ \E a \in LastReads(s) :
       /\ a.fed = a.offers
       /\ Become(s, Close(s, a, "CLOSE_READ", TRUE))
  /\ UNCHANGED <<data, acks, ctl>>

GracefulCloseInProgress(a) ==
  \/ Any(a, {"closed", "closeReadSent", "closeReadReceived", "closeWriteSent", "closeWriteReceived"})
  \/ a.deferred = "CLOSE_READ" \/ a.waitingAckFor \in {"CLOSE_READ", "CLOSE_WRITE"}

(* A read error resets the stream, after a drain if the read also returned  *)
(* data; a connection found closed during a graceful close does not.        *)
IoError(s) ==
  /\ AppErrors
  /\ arq[s].io = "read" /\ ~Is(arq[s], "closed")
  /\ \E a \in LastReads(s) :
       \/ Become(s, Close(s, a, "RST", a.fed # arq[s].fed))
       \/ GracefulCloseInProgress(a) /\ Become(s, a)
  /\ UNCHANGED <<data, acks, ctl>>

(* An unacknowledged chunk is sent, or sent again. *)
SendData(s, c) ==
  /\ c \in arq[s].sndBuf
  /\ data' = [data EXCEPT ![Peer(s)] = @ \cup {c}]
  /\ UNCHANGED <<arq, acks, ctl>>

Refuses(s) == Is(arq[s], "closed") \/ (s = "server" /\ Any(arq[s], {"stateReset"}))

(* The handlers of STREAM_DATA: data for a stream that is closed here are   *)
(* answered with a reset; ReceiveData queues the others.                    *)
ReceiveData(s, c) ==
  /\ c \in data[s]
  /\ Arrived(data, s, c)
  /\ IF Refuses(s)
     THEN /\ ctl' = [ctl EXCEPT ![Peer(s)] = @ \cup {[type |-> "RST", ack |-> FALSE]}]
          /\ UNCHANGED arq
     ELSE /\ Become(s, IF Resetting(arq[s]) THEN arq[s]
                       ELSE IF Is(arq[s], "localWriterBroken") THEN CloseWriteIfNeeded(s, arq[s])
                       ELSE [arq[s] EXCEPT !.rxChan = @ \cup {c}])
          /\ UNCHANGED ctl
  /\ UNCHANGED acks

(* rxLoop and processReceivedData, acknowledging what is stored and what    *)
(* was stored before.                                                       *)
ProcessReceivedData(s, c) ==
  LET a == [arq[s] EXCEPT !.rxChan = @ \ {c}] IN
  /\ c \in arq[s].rxChan
  /\ IF Any(a, {"localWriterBroken", "closeWriteSent", "closeWriteAcked"})
     THEN Become(s, CloseWriteIfNeeded(s, a)) /\ UNCHANGED acks
     ELSE /\ Become(s, IF c < a.rcvNxt THEN a
                       ELSE [a EXCEPT !.rcvBuf = @ \cup {c}, !.flush = TRUE])
          /\ acks' = [acks EXCEPT ![Peer(s)] = @ \cup {c}]
  /\ UNCHANGED <<data, ctl>>

(* rxLoop of a closed stream drops what is queued. *)
RxDrain(s) ==
  /\ Is(arq[s], "closed") /\ arq[s].rxChan # {}
  /\ Become(s, [arq[s] EXCEPT !.rxChan = {}])
  /\ UNCHANGED <<data, acks, ctl>>

ReceiveAck(s, c) ==
  /\ c \in acks[s]
  /\ Arrived(acks, s, c)
  /\ LET a == [arq[s] EXCEPT !.sndBuf = @ \ {c}]
         b == IF Is(a, "closeReadReceived") THEN TryFinalizeRemoteEOF(s, a) ELSE a
     IN Become(s, IF c \in arq[s].sndBuf THEN SettleTerminalDrain(s, b) ELSE arq[s])
  /\ UNCHANGED <<data, ctl>>

(* writeLoop wakes up: its next chunk is there or it was signalled. *)
WriterWake(s) ==
  LET a == arq[s] IN
  /\ a.writer = "wait"
  /\ a.rcvNxt \in a.rcvBuf \/ a.flush \/ Is(a, "closed")
  /\ Become(s, [a EXCEPT !.writer = IF Is(a, "closed") THEN "done" ELSE "scan",
                         !.flush = @ /\ a.rcvNxt \in a.rcvBuf])
  /\ UNCHANGED <<data, acks, ctl>>

(* Its first critical section takes the contiguous chunks... *)
WriterScan(s) ==
  LET a     == arq[s]
      ready == {n \in 1 .. Cardinality(a.rcvBuf) : \A i \in 0 .. n - 1 : a.rcvNxt + i \in a.rcvBuf}
      n     == Cardinality(ready)
  IN /\ a.writer = "scan"
     /\ a.writing = 0
     /\ Become(s, IF Is(a, "closed") THEN [a EXCEPT !.writer = "done"]
                  ELSE [a EXCEPT !.writer = IF n = 0 THEN "empty" ELSE "scan",
                                 !.writing = n, !.rcvNxt = @ + n,
                                 !.rcvBuf = @ \ (a.rcvNxt .. a.rcvNxt + n - 1)])
     /\ UNCHANGED <<data, acks, ctl>>

(* ... and, when there are none, a second one half-closes the local         *)
(* connection if the peer has ended and nothing is queued.                  *)
WriterIdle(s) ==
  LET a == arq[s]
      b == IF Is(a, "closeReadReceived") /\ a.rxChan = {} /\ ~Is(a, "closed")
           THEN Raise(a, {"localWriteClosed"}) ELSE a
  IN /\ a.writer = "empty"
     /\ Become(s, [TryFinalizeRemoteEOF(s, b) EXCEPT !.writer = "wait"])
     /\ UNCHANGED <<data, acks, ctl>>

(* Writing to the local connection succeeds... *)
WriterWrite(s) ==
  LET a == arq[s] IN
  /\ a.writing > 0 /\ a.writer = "scan"
  /\ ~Any(a, {"closed", "localWriteClosed"})
  /\ Become(s, TryFinalizeRemoteEOF(s, [a EXCEPT !.wrote = @ + a.writing, !.writing = 0]))
  /\ UNCHANGED <<data, acks, ctl>>

(* ... or fails, certainly once the connection is closed. *)
WriterFail(s) ==
  LET a == arq[s] IN
  /\ a.writing > 0 /\ a.writer = "scan"
  /\ AppErrors \/ Any(a, {"closed", "localWriteClosed"})
  /\ Become(s, [Close(s, MarkLocalWriterBroken(a), "CLOSE_WRITE", FALSE) EXCEPT !.writer = "done"])
  /\ UNCHANGED <<data, acks, ctl>>

(* A terminal packet is sent, or sent again. *)
SendTerminal(s, t) ==
  /\ t \in arq[s].controlSndBuf
  /\ ctl' = [ctl EXCEPT ![Peer(s)] = @ \cup {[type |-> t, ack |-> FALSE]}]
  /\ UNCHANGED <<arq, data, acks>>

(* The handlers of CLOSE_READ, CLOSE_WRITE and RST acknowledge the packet   *)
(* first, also for a stream that has gone.                                  *)
ReceiveTerminal(s, p) ==
  /\ p \in ctl[s]
  /\ ctl' = [ctl EXCEPT ![s] = IF LateCopies THEN @ ELSE @ \ {p},
                        ![Peer(s)] = IF p.ack THEN @ ELSE @ \cup {[p EXCEPT !.ack = TRUE]}]
  /\ Become(s, IF p.ack THEN ReceiveControlAck(s, arq[s], p.type)
               ELSE IF Is(arq[s], "closed") THEN arq[s]
               ELSE CASE p.type = "CLOSE_READ"  -> MarkCloseReadReceived(s, arq[s])
                      [] p.type = "CLOSE_WRITE" -> MarkCloseWriteReceived(s, arq[s])
                      [] p.type = "RST"         -> PeerReset(arq[s]))
  /\ UNCHANGED <<data, acks>>

-----------------------------------------------------------------------------
(* checkRetransmits, when time has passed. *)

(* The client ends its writing side some time after its application ended,  *)
(* if the peer has finished sending too.                                    *)
GraceElapsed(s) ==
  LET a == arq[s] IN
  /\ s = "client"
  /\ {"closeReadSent", "closeReadAcked"} \subseteq a.flags
  /\ Any(a, {"closeReadReceived", "localWriterBroken"})
  /\ ~Any(a, {"closed", "rstSent", "rstReceived", "closeWriteSent", "closeWriteAcked",
              "closeWriteReceived"})
  /\ a.deferred = "none" /\ a.waitingAckFor # "CLOSE_WRITE"
  /\ a.rcvBuf = {} /\ a.rxChan = {} /\ a.writing = 0
  /\ Become(s, Close(s, a, "CLOSE_WRITE", FALSE))
  /\ UNCHANGED <<data, acks, ctl>>

(* The drain, the wait for an acknowledgement, the retries of a chunk or of *)
(* a terminal packet, or an idle stream run out of time.                    *)
DeadlinePassed(s) ==
  LET a == arq[s] IN
  /\ Timeouts /\ ~Is(a, "closed")
  /\ \/ /\ a.deferred # "none" /\ a.sndBuf # {}
        /\ Become(s, Close(s, [a EXCEPT !.deferred = "none"], "RST", FALSE))
     \/ /\ a.deferred = "none" /\ a.waitingAckFor # "none"
        /\ Become(s, IF a.waitingAckFor = "RST" THEN FinalizeClose(a)
                     ELSE Close(s, a, "RST", FALSE))
     \/ /\ a.sndBuf # {}
        /\ Become(s, Close(s, a, "RST", FALSE))
     \/ /\ a.sndBuf = {} /\ a.controlSndBuf = {}
        /\ Become(s, Close(s, a, "RST", FALSE))
     \/ \E t \in a.controlSndBuf :
          LET b == [a EXCEPT !.controlSndBuf = @ \ {t}]
          IN Become(s, IF t = "RST" THEN FinalizeClose(b) ELSE Close(s, b, "RST", FALSE))
  /\ UNCHANGED <<data, acks, ctl>>

IoLoop(s)    == IoCheck(s) \/ IoData(s) \/ IoTimeout(s) \/ IoEOF(s)
WriteLoop(s) == WriterWake(s) \/ WriterScan(s) \/ WriterIdle(s) \/ WriterWrite(s) \/ WriterFail(s)

Next ==
  \E s \in Side :
    \/ IoLoop(s) \/ IoError(s)
    \/ \E c \in arq[s].sndBuf : SendData(s, c)
    \/ \E c \in data[s] : ReceiveData(s, c)
    \/ \E c \in arq[s].rxChan : ProcessReceivedData(s, c)
    \/ RxDrain(s)
    \/ \E c \in acks[s] : ReceiveAck(s, c)
    \/ WriteLoop(s)
    \/ \E t \in arq[s].controlSndBuf : SendTerminal(s, t)
    \/ \E p \in ctl[s] : ReceiveTerminal(s, p)
    \/ GraceElapsed(s) \/ DeadlinePassed(s)

Spec == Init /\ [][Next]_vars

(* Every goroutine gets to run, what retransmitLoop sends again and again   *)
(* arrives in the end, and timers expire.                                   *)
Chunk == UNION {1 .. load[s] : load \in Workloads, s \in Side}

Fairness ==
  \A s \in Side :
    /\ WF_vars(IoLoop(s)) /\ WF_vars(WriteLoop(s)) /\ WF_vars(RxDrain(s))
    /\ WF_vars(GraceElapsed(s)) /\ WF_vars(DeadlinePassed(s))
    /\ \A c \in Chunk : /\ WF_vars(SendData(s, c)) /\ WF_vars(ReceiveAck(s, c))
                        /\ WF_vars(ReceiveData(s, c)) /\ WF_vars(ProcessReceivedData(s, c))
    /\ \A t \in Terminal : WF_vars(SendTerminal(s, t))
    /\ \A p \in Control : WF_vars(ReceiveTerminal(s, p))

FairSpec == Spec /\ Fairness

-----------------------------------------------------------------------------
(* Properties. *)

TypeOK ==
  /\ arq \in [Side -> Arq]
  /\ \A s \in Side : /\ data[s] \subseteq 1 .. arq[Peer(s)].offers
                     /\ acks[s] \subseteq 1 .. arq[s].offers
                     /\ ctl[s] \subseteq Control

(* What ends a stream before its data are through: a reset, or a local      *)
(* writer that broke.                                                       *)
GivenUp(s) == Any(arq[s], {"rstSent", "rstReceived", "localWriterBroken"})

(* A stream that ends by the close handshake has delivered everything: the  *)
(* local application got every chunk the peer's application had to send,    *)
(* also what was not yet read (tryFinalizeRemoteEOF, settleTerminalDrain).  *)
CompleteAtClose ==
  /\ TypeOK
  /\ \A s \in Side :
       Is(arq[s], "closed") /\ ~GivenUp(s) => arq[s].wrote = arq[Peer(s)].offers

(* Whoever has the peer's CLOSE_READ has all the data, unless it gave them  *)
(* up: the drain delays CLOSE_READ until the last acknowledgement, and an   *)
(* acknowledgement is only sent for a chunk that is stored                  *)
(* (deferTerminalPacket, processReceivedData).                              *)
EOFAfterData ==
  \A s \in Side :
    Is(arq[s], "closeReadReceived") /\ ~Is(arq[s], "closed") /\ ~GivenUp(s)
      => 1 .. arq[Peer(s)].fed \subseteq 1 .. arq[s].rcvNxt - 1 \cup arq[s].rcvBuf

(* When both applications have ended and none of them failed, both ends of  *)
(* the stream close: nobody waits for the other (tryFinalizeRemoteEOF,      *)
(* handleTerminalRetransmitState).                                          *)
BothEndsClose == <>(\A s \in Side : Is(arq[s], "closed"))

(* The stream ends without loss as long as no application fails and no      *)
(* limit is reached, which is what CLOSE_READ says to the peer ("peer       *)
(* should finish draining inbound and close writer", Close): late copies of *)
(* data do not cut it off.                                                  *)
NoTruncation == \A s \in Side : Is(arq[s], "closed") => arq[s].wrote = arq[Peer(s)].fed
=============================================================================
