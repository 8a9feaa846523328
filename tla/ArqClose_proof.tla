---------------------------- MODULE ArqClose_proof ----------------------------
(***************************************************************************)
(* Proofs about ArqClose: a stream that ends by the close handshake has    *)
(* delivered everything, whoever has the peer's CLOSE_READ has all the     *)
(* data, for any numbers of chunks, and what the two applications see of a *)
(* stream is a behaviour of StreamEnds.                                    *)
(*                                                                         *)
(* The argument is one about two records.  Good says of one ARQ that its   *)
(* fields agree; Link relates an ARQ as the sender of one direction to its *)
(* peer as the receiver, and to what is on the path between them.  Every   *)
(* method of the code leads from a record to one that keeps both (Leads),  *)
(* so an action is one change that needs the peer, followed by methods     *)
(* that do not.                                                            *)
(***************************************************************************)
EXTENDS ArqClose, FiniteSetTheorems, WellFoundedInduction, TLAPS

(* Local connections do not fail, or only one of the applications sends.    *)
(* Otherwise the client, whose writer broke, may read on after CLOSE_READ.  *)
Unmixed == AppErrors => \A load \in Workloads : \E s \in Side : load[s] = 0

(* What s sends after its CLOSE_READ is nothing: always true of the server. *)
Whole(s) == s = "server" \/ Unmixed

-----------------------------------------------------------------------------
(* The invariant. *)

Gave(a)    == Any(a, {"rstSent", "rstReceived", "localWriterBroken"})
Stopped(a) == Any(a, {"closed", "rstSent", "rstReceived"})
Done(a)    == Is(a, "closed") \/ Gave(a)
Stored(a)  == 1 .. a.rcvNxt - 1 \cup a.rcvBuf
Sent(a)    == 1 .. a.fed

(* A terminal packet that is tracked or awaited left its mark. *)
Tracked(a, t) == t \in a.controlSndBuf \/ a.waitingAckFor = t
Marked(a) ==
  /\ Tracked(a, "CLOSE_READ") => Is(a, "closeReadSent")
  /\ Tracked(a, "CLOSE_WRITE") \/ Is(a, "closeWriteSent") => Is(a, "localWriterBroken")
  /\ Tracked(a, "RST") => Is(a, "rstSent")
  /\ Is(a, "localWriteClosed") => Is(a, "closeReadReceived") \/ Is(a, "localWriterBroken")

(* Why a writer broke. *)
Excused(a) == Any(a, {"closeReadSent", "closeReadReceived", "closed"}) \/ a.fed = a.offers

Counted(a) ==
  /\ a.fed <= a.offers /\ a.sndBuf \subseteq Sent(a) /\ a.rcvNxt # 0
  /\ a.wrote + a.writing <= a.rcvNxt - 1
  /\ ~Is(a, "localWriterBroken") => a.wrote + a.writing = a.rcvNxt - 1
  /\ Is(a, "closed") /\ ~Gave(a) => a.writing = 0

Committed(s, a) ==
  /\ Whole(s) => (Is(a, "closeReadSent") \/ a.deferred = "CLOSE_READ" => a.fed = a.offers)
  /\ Unmixed => (Is(a, "localWriterBroken") => Excused(a))
  /\ Is(a, "closeReadSent") => Is(a, "stopLocalRead")

Good(s, a) == a \in Arq /\ Counted(a) /\ Marked(a) /\ Committed(s, a)

(* What CLOSE_READ covers: all that was read, or, when a client whose writer broke has *)
(* sent it during a read, all but the chunk of that read.  There is no read after it.  *)
Covered(s, a) == IF Whole(s) \/ a.io = "read" THEN Sent(a) ELSE 1 .. a.fed - 1

(* s, with record a, sends to its peer with record b: d are the chunks      *)
(* under way, k the acknowledgements coming back, c the terminal packets.   *)
Bounded(a, b, d, k) ==
  /\ d \subseteq Sent(a) /\ k \subseteq Sent(a)
  /\ b.rxChan \subseteq Sent(a) /\ b.rcvBuf \subseteq Sent(a) /\ b.rcvNxt - 1 <= a.fed

Acknowledged(b, k) == Done(b) \/ k \subseteq Stored(b)
Kept(a, b)         == Done(b) \/ Stopped(a) \/ Sent(a) \subseteq a.sndBuf \cup Stored(b)

Announced(a, b, c) ==
  /\ Is(b, "closeReadReceived") \/ [type |-> "CLOSE_READ", ack |-> FALSE] \in c => Is(a, "closeReadSent")
  /\ [type |-> "CLOSE_WRITE", ack |-> FALSE] \in c => Is(a, "localWriterBroken")

Delivered(s, a, b) ==
  /\ Is(a, "closeReadSent") => Done(b) \/ Covered(s, a) \subseteq Stored(b)
  /\ Is(b, "closed") /\ ~Gave(b) => /\ Is(b, "closeReadReceived")
                                    /\ Covered(s, a) \subseteq 1 .. b.wrote

Link(s, a, b, d, k, c) ==
  Bounded(a, b, d, k) /\ Acknowledged(b, k) /\ Kept(a, b) /\ Announced(a, b, c) /\ Delivered(s, a, b)

Types ==
  /\ arq \in [Side -> Arq] /\ data \in [Side -> SUBSET Nat] /\ acks \in [Side -> SUBSET Nat]
  /\ ctl \in [Side -> SUBSET Control]
  /\ [s \in Side |-> arq[s].offers] \in Workloads

Linked(s) == Link(s, arq[s], arq[Peer(s)], data[Peer(s)], acks[s], ctl[Peer(s)])

Inv == Types /\ \A s \in Side : Good(s, arq[s]) /\ Linked(s)

-----------------------------------------------------------------------------
(* The methods.  Leads is what a chain of methods may do to a record.       *)

Leads(a, b) ==
  /\ b.offers = a.offers /\ b.fed = a.fed /\ b.rcvNxt = a.rcvNxt /\ b.wrote = a.wrote
  /\ b.writing = a.writing /\ b.rxChan = a.rxChan
  /\ a.flags \subseteq b.flags
  /\ Is(a, "closed") /\ ~Gave(a) => ~Gave(b)
  /\ b.io = "read" => a.io = "read" \/ ~Is(a, "stopLocalRead")
  /\ b.sndBuf = a.sndBuf \/ (Stopped(b) /\ b.sndBuf = {})
  /\ b.rcvBuf = a.rcvBuf \/ (Done(b) /\ b.rcvBuf = {})
  /\ Is(b, "closeReadReceived") => Is(a, "closeReadReceived")
  /\ Is(b, "closeReadSent") => Is(a, "closeReadSent") \/ (a.sndBuf = {} /\ ~Stopped(a))
  /\ Is(b, "closed") => \/ Is(a, "closed") \/ Gave(b)
                        \/ Is(a, "closeReadReceived") /\ a.rcvBuf = {} /\ a.writing = 0

Fine(s, a, b) == Good(s, b) /\ Leads(a, b)

LEMMA LeadsItself ==
  ASSUME NEW a PROVE Leads(a, a)
BY DEF Leads

LEMMA LeadsOn ==
  ASSUME NEW a, NEW b, NEW c, Leads(a, b), Leads(b, c)
  PROVE  Leads(a, c)
BY DEF Leads, Stopped, Done, Gave, Any, Is

LEMMA FineOn ==
  ASSUME NEW s, NEW a, NEW b, NEW c, Fine(s, a, b), Fine(s, b, c)
  PROVE  Fine(s, a, c)
BY LeadsOn DEF Fine

LEMMA FineItself ==
  ASSUME NEW s, NEW a, Good(s, a) PROVE Fine(s, a, a)
BY LeadsItself DEF Fine

\* Raising flags adds to what is known of a record.
LEMMA RaiseFields ==
  ASSUME NEW a \in Arq, NEW F \in SUBSET Flags
  PROVE  /\ Raise(a, F) \in Arq
         /\ Raise(a, F).flags = a.flags \cup F
         /\ Raise(a, F).offers = a.offers /\ Raise(a, F).fed = a.fed
         /\ Raise(a, F).sndBuf = a.sndBuf /\ Raise(a, F).rxChan = a.rxChan
         /\ Raise(a, F).rcvBuf = a.rcvBuf /\ Raise(a, F).rcvNxt = a.rcvNxt
         /\ Raise(a, F).writing = a.writing /\ Raise(a, F).wrote = a.wrote /\ Raise(a, F).io = a.io
         /\ Raise(a, F).deferred = a.deferred /\ Raise(a, F).waitingAckFor = a.waitingAckFor
         /\ Raise(a, F).controlSndBuf = a.controlSndBuf
BY DEF Raise, Arq

LEMMA FinalizeCloseFine ==
  ASSUME NEW s \in Side, NEW a, Good(s, a),
         Is(a, "closed") \/ Gave(a)
           \/ (Is(a, "closeReadReceived") /\ a.rcvBuf = {} /\ a.writing = 0)
  PROVE  Fine(s, a, FinalizeClose(a))
<1>1. CASE Is(a, "closed")
  BY <1>1, FineItself DEF FinalizeClose
<1>2. CASE ~Is(a, "closed")
  <2> DEFINE r == Raise(a, {"closed"})
             b == FinalizeClose(a)
  <2>1. /\ r \in Arq /\ r.flags = a.flags \cup {"closed"}
        /\ r.offers = a.offers /\ r.fed = a.fed /\ r.rxChan = a.rxChan /\ r.rcvNxt = a.rcvNxt
        /\ r.writing = a.writing /\ r.wrote = a.wrote /\ r.io = a.io
    BY RaiseFields DEF Good, Flags
  <2>2. /\ b \in Arq /\ b.flags = a.flags \cup {"closed"}
        /\ b.offers = a.offers /\ b.fed = a.fed /\ b.rxChan = a.rxChan /\ b.rcvNxt = a.rcvNxt
        /\ b.writing = a.writing /\ b.wrote = a.wrote /\ b.io = a.io
        /\ b.deferred = "none" /\ b.waitingAckFor = "none"
        /\ b.sndBuf = {} /\ b.rcvBuf = {} /\ b.controlSndBuf = {}
    <3> HIDE DEF r
    <3>1. b = [r EXCEPT !.deferred = "none", !.waitingAckFor = "none",
                        !.sndBuf = {}, !.rcvBuf = {}, !.controlSndBuf = {}]
      BY <1>2 DEF FinalizeClose, r
    <3> HIDE DEF b
    <3> QED BY <2>1, <3>1 DEF Arq
  <2> HIDE DEF r, b
  <2>3. Good(s, b)
    BY <2>2 DEF Good, Counted, Gave, Marked, Committed, Tracked, Excused, Sent, Is, Any
  <2>4. Leads(a, b)
    BY <2>2 DEF Leads, Stopped, Done, Gave, Is, Any
  <2> QED BY <2>3, <2>4 DEF Fine, b
<1> QED BY <1>1, <1>2

LEMMA TryFinalizeFine ==
  ASSUME NEW s \in Side, NEW a, Good(s, a)
  PROVE  Fine(s, a, TryFinalizeRemoteEOF(s, a))
<1>1. Fine(s, a, TryFinalizeClientLocalDisconnect(s, a))
  <2>1. CASE "localWriterBroken" \in a.flags
    <3>1. Fine(s, a, FinalizeClose(a))
      BY <2>1, FinalizeCloseFine DEF Gave, Any
    <3> QED BY <3>1, FineItself DEF TryFinalizeClientLocalDisconnect
  <2>2. CASE "localWriterBroken" \notin a.flags
    BY <2>2, FineItself DEF TryFinalizeClientLocalDisconnect
  <2> QED BY <2>1, <2>2
<1>2. ASSUME Is(a, "closeReadReceived"), ReceiveDrained(a)
      PROVE  Fine(s, a, FinalizeClose(a))
  BY <1>2, FinalizeCloseFine DEF ReceiveDrained, Gave, Any, Is
<1> QED BY <1>1, <1>2 DEF TryFinalizeRemoteEOF

\* The loops move, or less is deferred, awaited or tracked.
LEMMA BookFine ==
  ASSUME NEW s \in Side, NEW a, Good(s, a), NEW b \in Arq,
         b.flags = a.flags, b.offers = a.offers, b.fed = a.fed,
         b.sndBuf = a.sndBuf, b.rxChan = a.rxChan, b.rcvBuf = a.rcvBuf, b.rcvNxt = a.rcvNxt,
         b.writing = a.writing, b.wrote = a.wrote,
         b.io = "read" => a.io = "read" \/ ~Is(a, "stopLocalRead"),
         b.deferred \in {"none", a.deferred}, b.waitingAckFor \in {"none", a.waitingAckFor},
         b.controlSndBuf \subseteq a.controlSndBuf
  PROVE  Fine(s, a, b)
<1>1. Good(s, b)
  BY DEF Good, Counted, Gave, Marked, Committed, Tracked, Excused, Sent, Is, Any, Terminal
<1>2. Leads(a, b)
  BY DEF Leads, Stopped, Done, Gave, Is, Any
<1> QED BY <1>1, <1>2 DEF Fine

\* What a terminal packet needs before it is sent.
MayEmit(s, a, t) ==
  /\ t \in Terminal
  /\ t = "CLOSE_READ" => a.sndBuf = {} /\ (Whole(s) => a.fed = a.offers)
  /\ t = "CLOSE_WRITE" => (Unmixed => Excused(a))

\* A packet is tracked that has left its mark.
LEMMA SendControlFine ==
  ASSUME NEW s \in Side, NEW a, Good(s, a), NEW t \in Terminal,
         t = "CLOSE_READ" => Is(a, "closeReadSent"),
         t = "CLOSE_WRITE" => Is(a, "localWriterBroken"),
         t = "RST" => Is(a, "rstSent")
  PROVE  Fine(s, a, SendControl(a, t))
<1> DEFINE b == SendControl(a, t)
<1>1. /\ b \in Arq
      /\ b.flags = a.flags /\ b.offers = a.offers /\ b.fed = a.fed
      /\ b.sndBuf = a.sndBuf /\ b.rxChan = a.rxChan
      /\ b.rcvBuf = a.rcvBuf /\ b.rcvNxt = a.rcvNxt
      /\ b.writing = a.writing /\ b.wrote = a.wrote /\ b.io = a.io
      /\ b.deferred = a.deferred /\ b.waitingAckFor = a.waitingAckFor
      /\ b.controlSndBuf = a.controlSndBuf \cup {t}
  BY DEF SendControl, Arq, Good
<1> HIDE DEF b
<1>2. Good(s, b)
  BY <1>1 DEF Good, Counted, Gave, Marked, Committed, Tracked, Excused, Sent, Is, Any, Terminal
<1>3. Leads(a, b)
  BY <1>1 DEF Leads, Stopped, Done, Gave, Is, Any
<1> QED BY <1>2, <1>3 DEF Fine, b

LEMMA EmitFine ==
  ASSUME NEW s \in Side, NEW a, Good(s, a), NEW t, MayEmit(s, a, t)
  PROVE  Fine(s, a, EmitTerminal(s, a, t))
<1> DEFINE stopped == [Raise(a, {"stopLocalRead"}) EXCEPT !.deferred = "none"]
           waiting == [stopped EXCEPT !.waitingAckFor = t]
           refused == \/ stopped.waitingAckFor = t
                      \/ Resetting(a)
                      \/ t = "CLOSE_READ" /\ Is(a, "closeReadSent")
                      \/ t = "CLOSE_WRITE" /\ Is(a, "closeWriteSent")
<1>0. t \in Terminal /\ a \in Arq
  BY DEF MayEmit, Good
<1>1. /\ stopped \in Arq
      /\ stopped.flags = a.flags \cup {"stopLocalRead"}
      /\ stopped.offers = a.offers /\ stopped.fed = a.fed
      /\ stopped.sndBuf = a.sndBuf /\ stopped.rxChan = a.rxChan
      /\ stopped.rcvBuf = a.rcvBuf /\ stopped.rcvNxt = a.rcvNxt
      /\ stopped.writing = a.writing /\ stopped.wrote = a.wrote /\ stopped.io = a.io
      /\ stopped.deferred = "none" /\ stopped.waitingAckFor = a.waitingAckFor
      /\ stopped.controlSndBuf = a.controlSndBuf
  <2> DEFINE r == Raise(a, {"stopLocalRead"})
  <2>1. /\ r \in Arq /\ r.flags = a.flags \cup {"stopLocalRead"}
        /\ r.offers = a.offers /\ r.fed = a.fed /\ r.sndBuf = a.sndBuf
        /\ r.rcvBuf = a.rcvBuf /\ r.controlSndBuf = a.controlSndBuf
        /\ r.rxChan = a.rxChan /\ r.rcvNxt = a.rcvNxt /\ r.waitingAckFor = a.waitingAckFor
        /\ r.writing = a.writing /\ r.wrote = a.wrote /\ r.io = a.io
    BY RaiseFields, <1>0 DEF Flags
  <2> HIDE DEF r
  <2> QED BY <2>1 DEF Arq, r
<1>2. /\ waiting \in Arq
      /\ waiting.flags = a.flags \cup {"stopLocalRead"}
      /\ waiting.offers = a.offers /\ waiting.fed = a.fed
      /\ waiting.sndBuf = a.sndBuf /\ waiting.rxChan = a.rxChan
      /\ waiting.rcvBuf = a.rcvBuf /\ waiting.rcvNxt = a.rcvNxt
      /\ waiting.writing = a.writing /\ waiting.wrote = a.wrote /\ waiting.io = a.io
      /\ waiting.deferred = "none" /\ waiting.waitingAckFor = t
      /\ waiting.controlSndBuf = a.controlSndBuf
  <2> HIDE DEF stopped
  <2> QED BY <1>0, <1>1 DEF Arq
<1>3. Fine(s, a, stopped)
  <2> HIDE DEF stopped
  <2>1. Good(s, stopped)
    BY <1>1 DEF Good, Counted, Gave, Marked, Committed, Tracked, Excused, Sent, Is, Any
  <2>2. Leads(a, stopped)
    BY <1>1 DEF Leads, Stopped, Done, Gave, Is, Any
  <2> QED BY <2>1, <2>2 DEF Fine
<1>4. CASE Is(a, "closed")
  BY <1>4, FineItself DEF EmitTerminal
<1>5. CASE ~Is(a, "closed") /\ refused
  BY <1>3, <1>5 DEF EmitTerminal
<1>6. CASE ~Is(a, "closed") /\ ~refused
  <2> DEFINE m == CASE t = "CLOSE_READ"  -> TryFinalizeRemoteEOF(s, Raise(waiting, {"closeReadSent"}))
                    [] t = "CLOSE_WRITE" -> [Raise(waiting, {"closeWriteSent", "localWriterBroken",
                                                            "localWriteClosed"}) EXCEPT !.rcvBuf = {}]
                    [] t = "RST"         -> [Raise(waiting, {"rstSent", "stateReset"})
                                              EXCEPT !.sndBuf = {}, !.rcvBuf = {}, !.controlSndBuf = {}]
  <2>0. EmitTerminal(s, a, t) = SendControl(m, t)
    BY <1>6 DEF EmitTerminal
  <2> HIDE DEF m
  <2> HIDE DEF stopped
  <2>1. CASE t = "CLOSE_READ"
    <3> DEFINE r == Raise(waiting, {"closeReadSent"})
    <3>1. /\ r \in Arq /\ r.flags = a.flags \cup {"stopLocalRead", "closeReadSent"}
          /\ r.offers = a.offers /\ r.fed = a.fed
          /\ r.sndBuf = a.sndBuf /\ r.rxChan = a.rxChan
          /\ r.rcvBuf = a.rcvBuf /\ r.rcvNxt = a.rcvNxt
          /\ r.writing = a.writing /\ r.wrote = a.wrote /\ r.io = a.io
          /\ r.deferred = "none" /\ r.waitingAckFor = t
          /\ r.controlSndBuf = a.controlSndBuf
      <4> HIDE DEF waiting
      <4> QED BY <1>2, RaiseFields DEF Flags
    <3>2. ~Stopped(a) /\ a.sndBuf = {} /\ (Whole(s) => a.fed = a.offers)
      BY <1>6, <2>1 DEF MayEmit, Stopped, Resetting, Any, Is
    <3> HIDE DEF r, waiting
    <3>3. Good(s, r)
      BY <2>1, <3>1, <3>2 DEF Good, Counted, Gave, Marked, Committed, Tracked, Excused, Sent, Is, Any
    <3>4. Leads(a, r)
      BY <3>1, <3>2 DEF Leads, Stopped, Done, Gave, Is, Any
    <3>5. Fine(s, r, m)
      <4>1. m = TryFinalizeRemoteEOF(s, r)
        BY <2>1 DEF m, r
      <4> QED BY <3>3, <4>1, TryFinalizeFine
    <3>6. Is(m, "closeReadSent")
      BY <3>1, <3>5 DEF Fine, Leads, Is
    <3>7. Fine(s, m, SendControl(m, t))
      BY <1>0, <2>1, <3>5, <3>6, SendControlFine DEF Fine
    <3> QED BY <2>0, <3>3, <3>4, <3>5, <3>7, FineOn DEF Fine
  <2>2. CASE t = "CLOSE_WRITE"
    <3> DEFINE r == Raise(waiting, {"closeWriteSent", "localWriterBroken", "localWriteClosed"})
    <3>1. /\ r \in Arq
          /\ r.flags = a.flags \cup {"stopLocalRead", "closeWriteSent", "localWriterBroken", "localWriteClosed"}
          /\ r.offers = a.offers /\ r.fed = a.fed
          /\ r.sndBuf = a.sndBuf /\ r.rxChan = a.rxChan /\ r.rcvNxt = a.rcvNxt
          /\ r.writing = a.writing /\ r.wrote = a.wrote /\ r.io = a.io
          /\ r.deferred = "none" /\ r.waitingAckFor = t
          /\ r.controlSndBuf = a.controlSndBuf
      <4> HIDE DEF waiting
      <4> QED BY <1>2, RaiseFields DEF Flags
    <3>2. /\ m \in Arq
          /\ m.flags = a.flags \cup {"stopLocalRead", "closeWriteSent", "localWriterBroken", "localWriteClosed"}
          /\ m.offers = a.offers /\ m.fed = a.fed
          /\ m.sndBuf = a.sndBuf /\ m.rxChan = a.rxChan /\ m.rcvNxt = a.rcvNxt
          /\ m.writing = a.writing /\ m.wrote = a.wrote /\ m.io = a.io
          /\ m.deferred = "none" /\ m.waitingAckFor = t
          /\ m.controlSndBuf = a.controlSndBuf /\ m.rcvBuf = {}
      <4>1. m = [r EXCEPT !.rcvBuf = {}]
        BY <2>2 DEF m, r
      <4> HIDE DEF r
      <4> QED BY <3>1, <4>1 DEF Arq
    <3>3. Unmixed => Excused(a)
      BY <2>2 DEF MayEmit
    <3> HIDE DEF r, waiting
    <3>4. Good(s, m)
      BY <2>2, <3>2, <3>3 DEF Good, Counted, Gave, Marked, Committed, Tracked, Excused, Sent, Is, Any
    <3>5. Leads(a, m)
      BY <1>6, <3>2 DEF Leads, Stopped, Done, Gave, Is, Any
    <3>6. Is(m, "localWriterBroken")
      BY <3>2 DEF Is
    <3>7. Fine(s, m, SendControl(m, t))
      BY <1>0, <2>2, <3>4, <3>6, SendControlFine
    <3> QED BY <2>0, <3>4, <3>5, <3>7, FineOn DEF Fine
  <2>3. CASE t = "RST"
    <3> DEFINE r == Raise(waiting, {"rstSent", "stateReset"})
    <3>1. /\ r \in Arq
          /\ r.flags = a.flags \cup {"stopLocalRead", "rstSent", "stateReset"}
          /\ r.offers = a.offers /\ r.fed = a.fed
          /\ r.rxChan = a.rxChan /\ r.rcvNxt = a.rcvNxt
          /\ r.writing = a.writing /\ r.wrote = a.wrote /\ r.io = a.io
          /\ r.deferred = "none" /\ r.waitingAckFor = t
      <4> HIDE DEF waiting
      <4> QED BY <1>2, RaiseFields DEF Flags
    <3>2. /\ m \in Arq
          /\ m.flags = a.flags \cup {"stopLocalRead", "rstSent", "stateReset"}
          /\ m.offers = a.offers /\ m.fed = a.fed
          /\ m.sndBuf = {} /\ m.rxChan = a.rxChan /\ m.rcvNxt = a.rcvNxt
          /\ m.writing = a.writing /\ m.wrote = a.wrote /\ m.io = a.io
          /\ m.deferred = "none" /\ m.waitingAckFor = t
          /\ m.controlSndBuf = {} /\ m.rcvBuf = {}
      <4>1. m = [r EXCEPT !.sndBuf = {}, !.rcvBuf = {}, !.controlSndBuf = {}]
        BY <2>3 DEF m, r
      <4> HIDE DEF r
      <4> QED BY <3>1, <4>1 DEF Arq
    <3> HIDE DEF r, waiting
    <3>4. Good(s, m)
      BY <2>3, <3>2 DEF Good, Counted, Gave, Marked, Committed, Tracked, Excused, Sent, Is, Any
    <3>5. Leads(a, m)
      BY <1>6, <3>2 DEF Leads, Stopped, Done, Gave, Is, Any
    <3>6. Is(m, "rstSent")
      BY <3>2 DEF Is
    <3>7. Fine(s, m, SendControl(m, t))
      BY <1>0, <2>3, <3>4, <3>6, SendControlFine
    <3> QED BY <2>0, <3>4, <3>5, <3>7, FineOn DEF Fine
  <2> QED BY <1>0, <2>1, <2>2, <2>3 DEF Terminal
<1> QED BY <1>4, <1>5, <1>6

LEMMA SettleFine ==
  ASSUME NEW s \in Side, NEW a, Good(s, a)
  PROVE  Fine(s, a, SettleTerminalDrain(s, a))
<1>1. CASE a.deferred = "none" \/ Is(a, "closed") \/ a.sndBuf # {}
  BY <1>1, FineItself DEF SettleTerminalDrain
<1>2. CASE ~(a.deferred = "none" \/ Is(a, "closed") \/ a.sndBuf # {})
  <2>1. a.deferred \in {"CLOSE_READ", "RST"}
    BY <1>2 DEF Good, Arq
  <2>2. MayEmit(s, a, a.deferred)
    BY <1>2, <2>1 DEF MayEmit, Terminal, Good, Committed
  <2> QED BY <1>2, <2>2, EmitFine DEF SettleTerminalDrain
<1> QED BY <1>1, <1>2

LEMMA DeferFine ==
  ASSUME NEW s \in Side, NEW a, Good(s, a), NEW t \in {"CLOSE_READ", "RST"},
         t = "CLOSE_READ" => (Whole(s) => a.fed = a.offers)
  PROVE  Fine(s, a, DeferTerminal(s, a, t))
<1>1. CASE Is(a, "closed")
  BY <1>1, FineItself DEF DeferTerminal
<1>2. CASE ~Is(a, "closed")
  <2> DEFINE r == Raise(a, {"stopLocalRead"})
             b == [r EXCEPT !.deferred = t]
  <2>1. /\ r \in Arq /\ r.flags = a.flags \cup {"stopLocalRead"}
        /\ r.offers = a.offers /\ r.fed = a.fed /\ r.sndBuf = a.sndBuf
        /\ r.rcvBuf = a.rcvBuf /\ r.controlSndBuf = a.controlSndBuf
        /\ r.rxChan = a.rxChan /\ r.rcvNxt = a.rcvNxt /\ r.waitingAckFor = a.waitingAckFor
        /\ r.writing = a.writing /\ r.wrote = a.wrote /\ r.io = a.io
    BY RaiseFields DEF Good, Flags
  <2>2. /\ b \in Arq /\ b.flags = a.flags \cup {"stopLocalRead"}
        /\ b.offers = a.offers /\ b.fed = a.fed /\ b.sndBuf = a.sndBuf
        /\ b.rcvBuf = a.rcvBuf /\ b.controlSndBuf = a.controlSndBuf
        /\ b.rxChan = a.rxChan /\ b.rcvNxt = a.rcvNxt /\ b.waitingAckFor = a.waitingAckFor
        /\ b.writing = a.writing /\ b.wrote = a.wrote /\ b.io = a.io /\ b.deferred = t
    <3> HIDE DEF r
    <3> QED BY <2>1 DEF Arq
  <2> HIDE DEF b
  <2>3. Good(s, b)
    BY <2>2 DEF Good, Counted, Gave, Marked, Committed, Tracked, Excused, Sent, Is, Any
  <2>4. Leads(a, b)
    BY <2>2 DEF Leads, Stopped, Done, Gave, Is, Any
  <2>5. DeferTerminal(s, a, t) = SettleTerminalDrain(s, b)
    BY <1>2 DEF DeferTerminal, b
  <2> QED BY <2>3, <2>4, <2>5, SettleFine, FineOn DEF Fine
<1> QED BY <1>1, <1>2

LEMMA CloseFine ==
  ASSUME NEW s \in Side, NEW a, Good(s, a), NEW t \in Terminal, NEW late \in BOOLEAN,
         t = "CLOSE_READ" => (Whole(s) => a.fed = a.offers) /\ (late \/ a.sndBuf = {}),
         t = "CLOSE_WRITE" => (Unmixed => Excused(a))
  PROVE  Fine(s, a, Close(s, a, t, late))
<1>1. CASE t = "CLOSE_READ" /\ late
  BY <1>1, DeferFine DEF Close
<1>2. CASE t # "RST" /\ ~(t = "CLOSE_READ" /\ late)
  <2>1. MayEmit(s, a, t)
    BY <1>2 DEF MayEmit
  <2> QED BY <1>2, <2>1, EmitFine DEF Close
<1>3. CASE t = "RST"
  <2> DEFINE skip == \/ Is(a, "closed") \/ Resetting(a)
                     \/ a.waitingAckFor = "RST" \/ a.deferred = "RST"
             r == Raise(a, {"stateReset"})
             b == [r EXCEPT !.deferred = "none"]
  <2>1. CASE skip
    BY <1>3, <2>1, FineItself DEF Close
  <2>2. CASE ~skip
    <3>1. /\ r \in Arq /\ r.flags = a.flags \cup {"stateReset"}
          /\ r.offers = a.offers /\ r.fed = a.fed /\ r.sndBuf = a.sndBuf
          /\ r.rcvBuf = a.rcvBuf /\ r.controlSndBuf = a.controlSndBuf
          /\ r.rxChan = a.rxChan /\ r.rcvNxt = a.rcvNxt /\ r.waitingAckFor = a.waitingAckFor
          /\ r.writing = a.writing /\ r.wrote = a.wrote /\ r.io = a.io
      BY RaiseFields DEF Good, Flags
    <3>2. /\ b \in Arq /\ b.flags = a.flags \cup {"stateReset"}
          /\ b.offers = a.offers /\ b.fed = a.fed /\ b.sndBuf = a.sndBuf
          /\ b.rcvBuf = a.rcvBuf /\ b.controlSndBuf = a.controlSndBuf
          /\ b.rxChan = a.rxChan /\ b.rcvNxt = a.rcvNxt /\ b.waitingAckFor = a.waitingAckFor
          /\ b.writing = a.writing /\ b.wrote = a.wrote /\ b.io = a.io /\ b.deferred = "none"
      <4> HIDE DEF r
      <4> QED BY <3>1 DEF Arq
    <3> DEFINE m == IF late /\ b.sndBuf # {} THEN DeferTerminal(s, b, t) ELSE EmitTerminal(s, b, t)
    <3>0. Close(s, a, t, late) = m
      BY <1>3, <2>2 DEF Close
    <3> HIDE DEF b
    <3>3. Good(s, b)
      BY <3>2 DEF Good, Counted, Gave, Marked, Committed, Tracked, Excused, Sent, Is, Any
    <3>4. Leads(a, b)
      BY <3>2 DEF Leads, Stopped, Done, Gave, Is, Any
    <3>5. MayEmit(s, b, t)
      BY <1>3 DEF MayEmit
    <3>6. Fine(s, b, m)
      BY <1>3, <3>3, <3>5, EmitFine, DeferFine
    <3> QED BY <3>0, <3>3, <3>4, <3>6, FineOn DEF Fine
  <2> QED BY <2>1, <2>2
<1> QED BY <1>1, <1>2, <1>3

LEMMA CloseWriteFine ==
  ASSUME NEW s \in Side, NEW a, Good(s, a)
  PROVE  Fine(s, a, CloseWriteIfNeeded(s, a))
<1>1. CASE NeedCloseWrite(a)
  <2>1. Unmixed => Excused(a)
    BY <1>1 DEF NeedCloseWrite, Good, Committed
  <2>2. Fine(s, a, Close(s, a, "CLOSE_WRITE", FALSE))
    BY <2>1, CloseFine DEF Terminal
  <2> QED BY <1>1, <2>2 DEF CloseWriteIfNeeded
<1>2. CASE ~NeedCloseWrite(a)
  BY <1>2, FineItself DEF CloseWriteIfNeeded
<1> QED BY <1>1, <1>2

\* Only the client closes its sending side because its writer broke, and then either it
\* has nothing more to send, or the assumption does not hold.
LEMMA MaybeInitiateFine ==
  ASSUME NEW s \in Side, NEW a, Good(s, a)
  PROVE  Fine(s, a, MaybeInitiateClientCloseRead(s, a))
<1> DEFINE go == /\ s = "client" /\ Is(a, "localWriterBroken")
                 /\ ~Any(a, {"closed", "rstSent", "rstReceived", "closeReadSent", "closeReadReceived"})
           late == a.sndBuf # {} \/ a.writing # 0
<1>1. CASE go
  <2>1. Whole(s) => a.fed = a.offers
    BY <1>1 DEF Whole, Good, Committed, Excused, Any, Is
  <2>2. late \in BOOLEAN /\ (late \/ a.sndBuf = {})
    OBVIOUS
  <2>3. MaybeInitiateClientCloseRead(s, a) = Close(s, a, "CLOSE_READ", late)
    BY <1>1 DEF MaybeInitiateClientCloseRead
  <2> HIDE DEF late
  <2> QED BY <2>1, <2>2, <2>3, CloseFine DEF Terminal
<1>2. CASE ~go
  BY <1>2, FineItself DEF MaybeInitiateClientCloseRead
<1> QED BY <1>1, <1>2

LEMMA ControlAckFine ==
  ASSUME NEW s \in Side, NEW a, Good(s, a), NEW t \in Terminal
  PROVE  Fine(s, a, ReceiveControlAck(s, a, t))
<1> DEFINE b == [a EXCEPT !.controlSndBuf = @ \ {t}]
           m == ReceiveControlAck(s, a, t)
<1>1. CASE ~Tracked(a, t)
  BY <1>1, FineItself DEF ReceiveControlAck, Tracked
<1>2. CASE Tracked(a, t)
  <2>0. a \in Arq
    BY DEF Good
  <2>1. /\ b \in Arq /\ b.flags = a.flags
        /\ b.offers = a.offers /\ b.fed = a.fed /\ b.sndBuf = a.sndBuf
        /\ b.rcvBuf = a.rcvBuf /\ b.controlSndBuf = a.controlSndBuf \ {t}
        /\ b.rxChan = a.rxChan /\ b.rcvNxt = a.rcvNxt /\ b.waitingAckFor = a.waitingAckFor
        /\ b.writing = a.writing /\ b.wrote = a.wrote /\ b.io = a.io /\ b.deferred = a.deferred
    BY <2>0 DEF Arq
  <2>2. m = CASE t = "CLOSE_READ"  ->
                   TryFinalizeRemoteEOF(s, ClearWaitingAck(Raise(b, {"closeReadAcked"}), t))
              [] t = "CLOSE_WRITE" ->
                   TryFinalizeRemoteEOF(s, MaybeInitiateClientCloseRead(s, ClearWaitingAck(
                     Raise(b, {"closeWriteAcked", "localWriterBroken", "localWriteClosed"}), t)))
              [] t = "RST"         -> FinalizeClose(Raise(b, {"stateReset"}))
    BY <1>2 DEF ReceiveControlAck, Tracked
  <2> HIDE DEF b, m
  \* What the acknowledgement marks.
  <2>3. ASSUME NEW F \in SUBSET Flags, NEW r, r = Raise(b, F),
               F \cap {"closeReadReceived", "closeReadSent", "closed", "rstSent", "rstReceived",
                       "closeWriteSent"} = {},
               "localWriteClosed" \in F \/ "localWriterBroken" \in F => Is(a, "localWriterBroken")
        PROVE  Fine(s, a, r)
    <3>1. /\ r \in Arq /\ r.flags = a.flags \cup F
          /\ r.offers = a.offers /\ r.fed = a.fed /\ r.sndBuf = a.sndBuf
          /\ r.rcvBuf = a.rcvBuf /\ r.controlSndBuf = a.controlSndBuf \ {t}
          /\ r.rxChan = a.rxChan /\ r.rcvNxt = a.rcvNxt /\ r.waitingAckFor = a.waitingAckFor
          /\ r.writing = a.writing /\ r.wrote = a.wrote /\ r.io = a.io /\ r.deferred = a.deferred
      BY <2>1, <2>3, RaiseFields
    <3>2. Good(s, r)
      BY <2>3, <3>1 DEF Good, Counted, Gave, Marked, Committed, Tracked, Excused, Sent, Is, Any
    <3>3. Leads(a, r)
      BY <2>3, <3>1 DEF Leads, Stopped, Done, Gave, Is, Any
    <3> QED BY <3>2, <3>3 DEF Fine
  <2>4. ASSUME NEW r, Good(s, r)
        PROVE  Fine(s, r, ClearWaitingAck(r, t))
    <3>1. CASE r.waitingAckFor = t
      <4> DEFINE c == [r EXCEPT !.waitingAckFor = "none"]
      <4>1. /\ c \in Arq /\ c.flags = r.flags
            /\ c.offers = r.offers /\ c.fed = r.fed /\ c.sndBuf = r.sndBuf
            /\ c.rcvBuf = r.rcvBuf /\ c.controlSndBuf = r.controlSndBuf
            /\ c.rxChan = r.rxChan /\ c.rcvNxt = r.rcvNxt /\ c.waitingAckFor = "none"
            /\ c.writing = r.writing /\ c.wrote = r.wrote /\ c.io = r.io /\ c.deferred = r.deferred
        BY <2>4 DEF Good, Arq
      <4> HIDE DEF c
      <4> QED BY <2>4, <3>1, <4>1, BookFine DEF ClearWaitingAck, c
    <3>2. CASE r.waitingAckFor # t
      BY <2>4, <3>2, FineItself DEF ClearWaitingAck
    <3> QED BY <3>1, <3>2
  <2>5. CASE t = "CLOSE_READ"
    <3> DEFINE r == Raise(b, {"closeReadAcked"})
    <3>1. Fine(s, a, r)
      BY <2>3 DEF Flags
    <3>2. m = TryFinalizeRemoteEOF(s, ClearWaitingAck(r, t))
      BY <2>2, <2>5
    <3> HIDE DEF r
    <3>3. Fine(s, r, ClearWaitingAck(r, t))
      BY <2>4, <3>1 DEF Fine
    <3>4. Fine(s, ClearWaitingAck(r, t), m)
      BY <3>2, <3>3, TryFinalizeFine DEF Fine
    <3> QED BY <3>1, <3>3, <3>4, FineOn DEF m
  <2>6. CASE t = "CLOSE_WRITE"
    <3> DEFINE r == Raise(b, {"closeWriteAcked", "localWriterBroken", "localWriteClosed"})
               c == ClearWaitingAck(r, t)
               d == MaybeInitiateClientCloseRead(s, c)
    <3>0. Is(a, "localWriterBroken")
      BY <1>2, <2>6 DEF Good, Marked
    <3>1. Fine(s, a, r)
      BY <2>3, <3>0 DEF Flags
    <3>2. m = TryFinalizeRemoteEOF(s, d)
      BY <2>2, <2>6
    <3> HIDE DEF r
    <3>3. Fine(s, r, c)
      BY <2>4, <3>1 DEF Fine
    <3> HIDE DEF c
    <3>4. Fine(s, c, d)
      BY <3>3, MaybeInitiateFine DEF Fine
    <3> HIDE DEF d
    <3>5. Fine(s, d, m)
      BY <3>2, <3>4, TryFinalizeFine DEF Fine
    <3> QED BY <3>1, <3>3, <3>4, <3>5, FineOn DEF m
  <2>7. CASE t = "RST"
    <3> DEFINE r == Raise(b, {"stateReset"})
    <3>0. Is(a, "rstSent")
      BY <1>2, <2>7 DEF Good, Marked
    <3>1. Fine(s, a, r)
      BY <2>3 DEF Flags
    <3>2. m = FinalizeClose(r)
      BY <2>2, <2>7
    <3> HIDE DEF r
    <3>3. Good(s, r) /\ Gave(r)
      BY <3>0, <3>1 DEF Fine, Leads, Gave, Any, Is
    <3>4. Fine(s, r, m)
      BY <3>2, <3>3, FinalizeCloseFine
    <3> QED BY <3>1, <3>4, FineOn DEF m
  <2> QED BY <2>5, <2>6, <2>7 DEF Terminal, m
<1> QED BY <1>1, <1>2

LEMMA PeerResetFine ==
  ASSUME NEW s \in Side, NEW a, Good(s, a), ~Is(a, "closed")
  PROVE  Fine(s, a, PeerReset(a))
<1> DEFINE r == Raise(a, {"rstReceived", "stopLocalRead", "stateReset"})
           b == [r EXCEPT !.sndBuf = {}, !.controlSndBuf = {}]
<1>1. /\ r \in Arq /\ r.flags = a.flags \cup {"rstReceived", "stopLocalRead", "stateReset"}
      /\ r.offers = a.offers /\ r.fed = a.fed
      /\ r.rcvBuf = a.rcvBuf /\ r.deferred = a.deferred
      /\ r.rxChan = a.rxChan /\ r.rcvNxt = a.rcvNxt /\ r.waitingAckFor = a.waitingAckFor
      /\ r.writing = a.writing /\ r.wrote = a.wrote /\ r.io = a.io
  BY RaiseFields DEF Good, Flags
<1>2. /\ b \in Arq /\ b.flags = a.flags \cup {"rstReceived", "stopLocalRead", "stateReset"}
      /\ b.offers = a.offers /\ b.fed = a.fed /\ b.sndBuf = {} /\ b.controlSndBuf = {}
      /\ b.rcvBuf = a.rcvBuf /\ b.deferred = a.deferred
      /\ b.rxChan = a.rxChan /\ b.rcvNxt = a.rcvNxt /\ b.waitingAckFor = a.waitingAckFor
      /\ b.writing = a.writing /\ b.wrote = a.wrote /\ b.io = a.io
  <2> HIDE DEF r
  <2> QED BY <1>1 DEF Arq
<1>3. PeerReset(a) = FinalizeClose(b)
  BY DEF PeerReset
<1> HIDE DEF b
<1>4. Good(s, b)
  BY <1>2 DEF Good, Counted, Gave, Marked, Committed, Tracked, Excused, Sent, Is, Any
<1>5. Leads(a, b) /\ Gave(b)
  BY <1>2 DEF Leads, Stopped, Done, Gave, Is, Any
<1> QED BY <1>3, <1>4, <1>5, FinalizeCloseFine, FineOn DEF Fine

-----------------------------------------------------------------------------
(* The two directions. *)

LEMMA PeerFacts ==
  ASSUME NEW s \in Side
  PROVE  Peer(s) \in Side /\ Peer(s) # s /\ Peer(Peer(s)) = s
BY DEF Side, Peer

LEMMA CoveredIs ==
  ASSUME NEW s, NEW a, a.fed \in Nat
  PROVE  Covered(s, a) \subseteq Sent(a) /\ 1 .. a.fed - 1 \subseteq Covered(s, a)
BY DEF Covered, Sent

\* Methods of the sender.
LEMMA SenderMoves ==
  ASSUME NEW s, NEW a, NEW b, NEW d, NEW k, NEW c, NEW a2,
         Good(s, a), Link(s, a, b, d, k, c), Leads(a, a2)
  PROVE  Link(s, a2, b, d, k, c)
<1>1. Bounded(a2, b, d, k) /\ Acknowledged(b, k)
  BY DEF Link, Leads, Bounded, Sent
<1>2. Kept(a2, b)
  BY DEF Link, Leads, Kept, Sent, Stopped, Any
<1>3. Announced(a2, b, c)
  BY DEF Link, Leads, Announced, Is
<1>4. Delivered(s, a2, b)
  <2>1. Sent(a2) = Sent(a) /\ a2.fed = a.fed /\ Covered(s, a2) \subseteq Sent(a)
    BY CoveredIs DEF Leads, Sent, Good, Arq
  <2>2. Is(a, "closeReadSent") => Covered(s, a2) \subseteq Covered(s, a)
    <3> SUFFICES ASSUME Is(a, "closeReadSent") PROVE Covered(s, a2) \subseteq Covered(s, a)
      OBVIOUS
    <3>1. a2.io = "read" => a.io = "read"
      BY DEF Leads, Good, Committed
    <3> QED BY <2>1, <3>1 DEF Covered
  <2>3. CASE Is(a, "closeReadSent")
    BY <2>2, <2>3 DEF Link, Delivered
  <2>4. CASE ~Is(a, "closeReadSent")
    <3>1. ~Is(b, "closeReadReceived")
      BY <2>4 DEF Link, Announced
    <3>2. Is(a2, "closeReadSent") => Done(b) \/ Sent(a) \subseteq Stored(b)
      BY <2>4 DEF Link, Leads, Kept
    <3> QED BY <2>1, <3>1, <3>2 DEF Link, Delivered
  <2> QED BY <2>3, <2>4
<1> QED BY <1>1, <1>2, <1>3, <1>4 DEF Link

\* Methods of the receiver.  A stream that is closed in good order has delivered
\* everything: CLOSE_READ says that nothing is missing, and nothing is left to write.
LEMMA ReceiverMoves ==
  ASSUME NEW s \in Side, NEW p \in Side, NEW a, NEW b, NEW d, NEW k, NEW c, NEW b2,
         Good(s, a), Good(p, b), Link(s, a, b, d, k, c), Leads(b, b2)
  PROVE  Link(s, a, b2, d, k, c)
<1>0. /\ Done(b) => Done(b2)
      /\ Done(b2) \/ Stored(b2) = Stored(b)
  BY DEF Leads, Done, Gave, Any, Is, Stored
<1>1. Bounded(a, b2, d, k) /\ Acknowledged(b2, k)
  BY <1>0 DEF Link, Leads, Bounded, Acknowledged
<1>2. Kept(a, b2)
  BY <1>0 DEF Link, Kept
<1>3. Announced(a, b2, c)
  BY DEF Link, Leads, Announced
<1>4. Is(a, "closeReadSent") => Done(b2) \/ Covered(s, a) \subseteq Stored(b2)
  BY <1>0 DEF Link, Delivered
<1>5. ASSUME Is(b2, "closed"), ~Gave(b2)
      PROVE  Is(b2, "closeReadReceived") /\ Covered(s, a) \subseteq 1 .. b2.wrote
  <2>1. ~Gave(b)
    BY <1>5 DEF Leads, Gave, Any
  <2>2. CASE Is(b, "closed")
    BY <2>1, <2>2 DEF Link, Delivered, Leads, Is
  <2>3. CASE ~Is(b, "closed")
    <3>1. Is(b, "closeReadReceived") /\ b.rcvBuf = {} /\ b.writing = 0
      BY <1>5, <2>3 DEF Leads
    <3>2. Is(b2, "closeReadReceived")
      BY <3>1 DEF Leads, Is
    <3>3. Covered(s, a) \subseteq 1 .. b.wrote
      <4>1. Covered(s, a) \subseteq Stored(b)
        BY <2>1, <2>3, <3>1 DEF Link, Announced, Delivered, Done
      <4>2. /\ b.rcvNxt \in Nat /\ b.rcvNxt # 0 /\ b.writing \in Nat /\ b.wrote \in Nat
            /\ b.wrote + b.writing = b.rcvNxt - 1
        BY <2>1 DEF Good, Counted, Arq, Gave, Any, Is
      <4>3. b.wrote = b.rcvNxt - 1 /\ Stored(b) = 1 .. b.rcvNxt - 1
        BY <3>1, <4>2 DEF Stored
      <4> QED BY <4>1, <4>3
    <3> QED BY <3>2, <3>3 DEF Leads
  <2> QED BY <2>2, <2>3
<1> QED BY <1>1, <1>2, <1>3, <1>4, <1>5 DEF Link, Delivered

\* Packets on the path.
LEMMA PathMoves ==
  ASSUME NEW s, NEW a, NEW b, NEW d, NEW k, NEW c, NEW d2, NEW k2, NEW c2,
         Link(s, a, b, d, k, c),
         d2 \subseteq Sent(a), k2 \subseteq Sent(a), Acknowledged(b, k2),
         [type |-> "CLOSE_READ", ack |-> FALSE] \in c2 =>
           Is(a, "closeReadSent") \/ [type |-> "CLOSE_READ", ack |-> FALSE] \in c,
         [type |-> "CLOSE_WRITE", ack |-> FALSE] \in c2 =>
           Is(a, "localWriterBroken") \/ [type |-> "CLOSE_WRITE", ack |-> FALSE] \in c
  PROVE  Link(s, a, b, d2, k2, c2)
BY DEF Link, Bounded, Announced

\* What a receiver does not see.
LEMMA SameReceiver ==
  ASSUME NEW s, NEW a, NEW b, NEW d, NEW k, NEW c, NEW b2, Link(s, a, b, d, k, c),
         b2.flags = b.flags, b2.rxChan = b.rxChan, b2.rcvBuf = b.rcvBuf,
         b2.rcvNxt = b.rcvNxt, b2.wrote = b.wrote
  PROVE  Link(s, a, b2, d, k, c)
BY DEF Link, Bounded, Acknowledged, Kept, Announced, Delivered, Done, Gave, Any, Is, Stored

\* And a sender.
LEMMA SameSender ==
  ASSUME NEW s, NEW a, NEW b, NEW d, NEW k, NEW c, NEW a2, Link(s, a, b, d, k, c),
         a2.fed = a.fed, a2.io = a.io, a.flags \subseteq a2.flags,
         Is(a2, "closeReadSent") => Is(a, "closeReadSent"),
         a2.sndBuf = a.sndBuf
  PROVE  Link(s, a2, b, d, k, c)
BY DEF Link, Bounded, Acknowledged, Kept, Announced, Delivered, Covered, Stopped, Any, Is, Sent

-----------------------------------------------------------------------------
(* What a step of s from record o may do to it, as far as the applications  *)
(* see it: an end that is over reads and writes nothing, and one that is    *)
(* complete does not fail.                                                  *)
Moved(o, m) ==
  /\ m.fed = o.fed \/ (m.fed = o.fed + 1 /\ ~Is(o, "closed"))
  /\ m.wrote = o.wrote \/ (m.wrote >= o.wrote /\ ~Is(o, "closed"))
  /\ o.flags \subseteq m.flags
  /\ Is(o, "closed") /\ ~Gave(o) => ~Gave(m)

LEMMA MovedOn ==
  ASSUME NEW o, NEW a, NEW t, Moved(o, a), t.fed = a.fed, t.wrote = a.wrote,
         a.flags \subseteq t.flags, Is(a, "closed") /\ ~Gave(a) => ~Gave(t)
  PROVE  Moved(o, t)
BY DEF Moved, Is

LEMMA MovedSame ==
  ASSUME NEW o, NEW a, NEW t, Moved(o, a), t.fed = a.fed, t.wrote = a.wrote, t.flags = a.flags
  PROVE  Moved(o, t)
BY MovedOn DEF Gave, Any

(* Record t of s is in order, with D, K and C on the path. *)

Holds(s, t, D, K, C) ==
  /\ t.offers = arq[s].offers /\ Moved(arq[s], t)
  /\ Good(s, t)
  /\ Link(s, t, arq[Peer(s)], D[Peer(s)], K[s], C[Peer(s)])
  /\ Link(Peer(s), arq[Peer(s)], t, D[s], K[Peer(s)], C[s])

LEMMA HoldsNow ==
  ASSUME Inv, NEW s \in Side
  PROVE  Holds(s, arq[s], data, acks, ctl)
BY PeerFacts DEF Holds, Inv, Linked, Moved

LEMMA HoldsOn ==
  ASSUME Inv, NEW s \in Side, NEW t, NEW m, NEW D, NEW K, NEW C,
         Holds(s, t, D, K, C), Fine(s, t, m)
  PROVE  Holds(s, m, D, K, C)
<1>1. Peer(s) \in Side /\ Good(Peer(s), arq[Peer(s)])
  BY PeerFacts DEF Inv
<1>2. Good(s, t) /\ Good(s, m) /\ Leads(t, m)
  BY DEF Holds, Fine
<1>3. Link(s, m, arq[Peer(s)], D[Peer(s)], K[s], C[Peer(s)])
  BY <1>2, SenderMoves DEF Holds
<1>4. Link(Peer(s), arq[Peer(s)], m, D[s], K[Peer(s)], C[s])
  BY <1>1, <1>2, ReceiverMoves DEF Holds
<1>5. m.offers = arq[s].offers
  BY <1>2 DEF Holds, Leads
<1>6. Moved(arq[s], m)
  BY <1>2, MovedOn DEF Holds, Leads
<1> QED BY <1>2, <1>3, <1>4, <1>5, <1>6 DEF Holds

\* What an action of s keeps, and what it does to the record of s.
Stepped(s) ==
  Inv' /\ Moved(arq[s], arq'[s]) /\ arq'[s].offers = arq[s].offers /\ arq'[Peer(s)] = arq[Peer(s)]

LEMMA HoldsThen ==
  ASSUME Inv, NEW s \in Side, NEW m, arq' = [arq EXCEPT ![s] = m],
         data' \in [Side -> SUBSET Nat], acks' \in [Side -> SUBSET Nat],
         ctl' \in [Side -> SUBSET Control],
         Holds(s, m, data', acks', ctl')
  PROVE  Stepped(s)
<1> DEFINE p == Peer(s)
<1>0. p \in Side /\ p # s /\ Peer(p) = s /\ \A x \in Side : x = s \/ x = p
  BY PeerFacts DEF Side
<1> HIDE DEF p
<1>1. arq \in [Side -> Arq] /\ m \in Arq
  BY DEF Inv, Types, Holds, Good
<1>2. arq'[s] = m /\ arq'[p] = arq[p] /\ arq' \in [Side -> Arq]
  BY <1>0, <1>1
<1>3. \A x \in Side : arq'[x].offers = arq[x].offers
  BY <1>0, <1>2 DEF Holds
<1>4. Types'
  <2>1. [x \in Side |-> arq'[x].offers] = [x \in Side |-> arq[x].offers]
    BY <1>3
  <2> QED BY <1>2, <2>1 DEF Types, Inv
<1>5. Good(s, arq'[s]) /\ Good(p, arq'[p])
  BY <1>0, <1>2 DEF Inv, Holds
<1>6. Linked(s)'
  BY <1>0, <1>2 DEF Holds, Linked, p
<1>7. Linked(p)'
  BY <1>0, <1>2 DEF Holds, Linked, p
<1>8. Inv'
  BY <1>0, <1>4, <1>5, <1>6, <1>7 DEF Inv
<1>9. Moved(arq[s], arq'[s])
  BY <1>2 DEF Holds
<1> QED BY <1>2, <1>3, <1>8, <1>9 DEF Stepped, p

\* A step that no packet takes part in.
LEMMA LocalStep ==
  ASSUME Inv, NEW s \in Side, NEW m, Become(s, m), UNCHANGED <<data, acks, ctl>>,
         Holds(s, m, data, acks, ctl)
  PROVE  Stepped(s)
<1>1. /\ data' \in [Side -> SUBSET Nat] /\ acks' \in [Side -> SUBSET Nat]
      /\ ctl' \in [Side -> SUBSET Control]
  BY DEF Inv, Types
<1>2. Holds(s, m, data', acks', ctl')
  BY DEF Holds
<1> QED BY <1>1, <1>2, HoldsThen DEF Become

-----------------------------------------------------------------------------
(* One lemma per action. *)

LEMMA AtRest ==
  ASSUME Inv, NEW s \in Side
  PROVE  /\ arq[s] \in Arq /\ Good(s, arq[s])
         /\ Peer(s) \in Side /\ Peer(s) # s /\ Peer(Peer(s)) = s
         /\ arq[Peer(s)] \in Arq /\ Good(Peer(s), arq[Peer(s)])
BY PeerFacts DEF Inv, Good

\* The loops move.
LEMMA IoMoves ==
  ASSUME NEW s \in Side, NEW a, Good(s, a), NEW x \in {"check", "read", "done"},
         x = "read" => ~Is(a, "stopLocalRead")
  PROVE  Fine(s, a, [a EXCEPT !.io = x])
<1> DEFINE b == [a EXCEPT !.io = x]
<1>1. /\ b \in Arq /\ b.flags = a.flags /\ b.offers = a.offers /\ b.fed = a.fed
      /\ b.sndBuf = a.sndBuf /\ b.rxChan = a.rxChan /\ b.rcvBuf = a.rcvBuf /\ b.rcvNxt = a.rcvNxt
      /\ b.writing = a.writing /\ b.wrote = a.wrote /\ b.io = x
      /\ b.deferred = a.deferred /\ b.waitingAckFor = a.waitingAckFor
      /\ b.controlSndBuf = a.controlSndBuf
  BY DEF Good, Arq
<1> HIDE DEF b
<1>2. Fine(s, a, b)
  BY <1>1, BookFine
<1> QED BY <1>2 DEF b

LEMMA WriterMoves ==
  ASSUME NEW s \in Side, NEW a, Good(s, a), NEW x \in {"wait", "scan", "empty", "done"},
         NEW f \in BOOLEAN
  PROVE  /\ Fine(s, a, [a EXCEPT !.writer = x])
         /\ Fine(s, a, [a EXCEPT !.writer = x, !.flush = f])
<1> DEFINE b == [a EXCEPT !.writer = x]
           e == [a EXCEPT !.writer = x, !.flush = f]
<1>1. /\ b \in Arq /\ b.flags = a.flags /\ b.offers = a.offers /\ b.fed = a.fed
      /\ b.sndBuf = a.sndBuf /\ b.rxChan = a.rxChan /\ b.rcvBuf = a.rcvBuf /\ b.rcvNxt = a.rcvNxt
      /\ b.writing = a.writing /\ b.wrote = a.wrote /\ b.io = a.io
      /\ b.deferred = a.deferred /\ b.waitingAckFor = a.waitingAckFor
      /\ b.controlSndBuf = a.controlSndBuf
  BY DEF Good, Arq
<1>2. /\ e \in Arq /\ e.flags = a.flags /\ e.offers = a.offers /\ e.fed = a.fed
      /\ e.sndBuf = a.sndBuf /\ e.rxChan = a.rxChan /\ e.rcvBuf = a.rcvBuf /\ e.rcvNxt = a.rcvNxt
      /\ e.writing = a.writing /\ e.wrote = a.wrote /\ e.io = a.io
      /\ e.deferred = a.deferred /\ e.waitingAckFor = a.waitingAckFor
      /\ e.controlSndBuf = a.controlSndBuf
  BY DEF Good, Arq
<1> HIDE DEF b, e
<1>3. Fine(s, a, b) /\ Fine(s, a, e)
  BY <1>1, <1>2, BookFine
<1> QED BY <1>3 DEF b, e

\* One more chunk is read: only before CLOSE_READ, or from a client whose writer broke.
LEMMA FeedHolds ==
  ASSUME Inv, NEW s \in Side, NEW a, a = arq[s], a.fed < a.offers,
         a.io = "read", ~Is(a, "closed"), NEW x \in {"check", "done"}
  PROVE  Holds(s, [Feed(a) EXCEPT !.io = x], data, acks, ctl)
<1> DEFINE t == [Feed(a) EXCEPT !.io = x]
<1>0. Holds(s, a, data, acks, ctl) /\ a \in Arq /\ a.fed \in Nat
  BY HoldsNow DEF Holds, Good, Arq
<1>1. /\ t \in Arq /\ t.fed = a.fed + 1 /\ t.sndBuf = a.sndBuf \cup {a.fed + 1}
      /\ t.flags = a.flags /\ t.offers = a.offers
      /\ t.rxChan = a.rxChan /\ t.rcvBuf = a.rcvBuf /\ t.rcvNxt = a.rcvNxt
      /\ t.writing = a.writing /\ t.wrote = a.wrote /\ t.io = x
      /\ t.deferred = a.deferred /\ t.waitingAckFor = a.waitingAckFor
      /\ t.controlSndBuf = a.controlSndBuf
  <2>1. PICK n \in Nat : n = a.fed + 1
    BY <1>0
  <2>2. PICK S \in SUBSET Nat : S = a.sndBuf \cup {n}
    BY <1>0, <2>1 DEF Arq
  <2>3. t = [a EXCEPT !.fed = n, !.sndBuf = S, !.io = x]
    BY <1>0, <2>1, <2>2 DEF Feed, Arq
  <2> HIDE DEF t
  <2>4. /\ t \in Arq /\ t.fed = n /\ t.sndBuf = S
        /\ t.flags = a.flags /\ t.offers = a.offers
        /\ t.rxChan = a.rxChan /\ t.rcvBuf = a.rcvBuf /\ t.rcvNxt = a.rcvNxt
        /\ t.writing = a.writing /\ t.wrote = a.wrote /\ t.io = x
        /\ t.deferred = a.deferred /\ t.waitingAckFor = a.waitingAckFor
        /\ t.controlSndBuf = a.controlSndBuf
    BY <1>0, <2>3 DEF Arq
  <2> QED BY <2>1, <2>2, <2>4
<1> HIDE DEF t
<1>2. Sent(t) = Sent(a) \cup {a.fed + 1}
  BY <1>0, <1>1 DEF Sent
<1>3. Whole(s) => ~Is(a, "closeReadSent") /\ a.deferred # "CLOSE_READ"
  BY <1>0 DEF Holds, Good, Committed
<1>4. Good(s, t)
  <2>1. Counted(t)
    BY <1>0, <1>1, <1>2 DEF Holds, Good, Counted, Gave, Any, Is, Arq
  <2>2. Marked(t)
    BY <1>0, <1>1 DEF Holds, Good, Marked, Tracked, Is
  <2>3. Committed(s, t)
    BY <1>0, <1>1, <1>3 DEF Holds, Good, Committed, Excused, Is, Any
  <2> QED BY <1>1, <2>1, <2>2, <2>3 DEF Good
<1> DEFINE p == Peer(s)
           b == arq[p]
<1>5. Link(s, t, b, data[p], acks[s], ctl[p])
  <2>0. Link(s, a, b, data[p], acks[s], ctl[p])
    BY <1>0 DEF Holds
  <2> HIDE DEF b, p
  <2>1. Bounded(t, b, data[p], acks[s])
    <3>1. Bounded(a, b, data[p], acks[s])
      BY <2>0 DEF Link
    <3>2. b.rcvNxt \in Nat
      BY AtRest DEF b, p, Arq
    <3> QED BY <1>0, <1>1, <1>2, <3>1, <3>2 DEF Bounded
  <2>2. Acknowledged(b, acks[s])
    BY <2>0 DEF Link
  <2>3. Kept(t, b)
    BY <1>1, <1>2, <2>0 DEF Link, Kept, Stopped, Any
  <2>4. Announced(t, b, ctl[p])
    BY <1>1, <2>0 DEF Link, Announced, Is
  <2>5. Delivered(s, t, b)
    <3>1. Is(t, "closeReadSent") => Covered(s, t) \subseteq Covered(s, a)
      BY <1>0, <1>1, <1>3 DEF Covered, Sent, Is
    <3>2. Is(t, "closeReadSent") <=> Is(a, "closeReadSent")
      BY <1>1 DEF Is
    <3>3. Is(b, "closeReadReceived") => Is(a, "closeReadSent")
      BY <2>0 DEF Link, Announced
    <3> QED BY <2>0, <3>1, <3>2, <3>3 DEF Link, Delivered
  <2> QED BY <2>1, <2>2, <2>3, <2>4, <2>5 DEF Link
<1>6. Link(p, b, t, data[s], acks[p], ctl[s])
  BY <1>0, <1>1, SameReceiver DEF Holds
<1>7. Moved(arq[s], t)
  BY <1>1 DEF Moved, Gave, Any
<1> QED BY <1>0, <1>1, <1>4, <1>5, <1>6, <1>7 DEF Holds, t

LEMMA LastReadsHold ==
  ASSUME Inv, NEW s \in Side, arq[s].io = "read", ~Is(arq[s], "closed"), NEW x \in LastReads(s)
  PROVE  Holds(s, x, data, acks, ctl) /\ arq[s].fed \in Nat /\ x.fed \in Nat
<1> DEFINE o == arq[s]
           a == [o EXCEPT !.io = "done"]
<1>1. /\ Holds(s, o, data, acks, ctl) /\ o \in Arq /\ Good(s, o) /\ o.io = "read"
      /\ ~Is(o, "closed")
  BY AtRest, HoldsNow
<1>2. x = a \/ (x = Feed(a) /\ a.fed < a.offers)
  BY DEF LastReads
<1> HIDE DEF o
<1>3. Holds(s, a, data, acks, ctl)
  BY <1>1, IoMoves, HoldsOn
<1>4. ASSUME x = Feed(a) /\ a.fed < a.offers
      PROVE  Holds(s, x, data, acks, ctl)
  <2>1. a.fed = o.fed /\ a.offers = o.offers /\ Feed(a) = [Feed(o) EXCEPT !.io = "done"]
    BY <1>1 DEF Feed, Arq
  <2>2. Holds(s, [Feed(o) EXCEPT !.io = "done"], data, acks, ctl)
    BY <1>1, <1>4, <2>1, FeedHolds DEF o
  <2> QED BY <1>4, <2>1, <2>2
<1>5. Holds(s, x, data, acks, ctl)
  BY <1>2, <1>3, <1>4
<1> QED BY <1>1, <1>5 DEF Holds, Good, Arq, o

LEMMA IoCheckStep ==
  ASSUME Inv, NEW s \in Side, IoCheck(s) PROVE Stepped(s)
<1> DEFINE a == arq[s]
           x == IF Any(a, {"stopLocalRead", "closed"}) THEN "done" ELSE "read"
           m == [a EXCEPT !.io = x]
<1>1. Holds(s, a, data, acks, ctl) /\ Good(s, a)
  BY AtRest, HoldsNow
<1>2. Become(s, m) /\ UNCHANGED <<data, acks, ctl>>
  BY DEF IoCheck
<1> HIDE DEF a
<1>3. x \in {"check", "read", "done"} /\ (x = "read" => ~Is(a, "stopLocalRead"))
  BY DEF Any, Is
<1> HIDE DEF x
<1>4. Fine(s, a, m)
  BY <1>1, <1>3, IoMoves
<1> HIDE DEF m
<1>5. Holds(s, m, data, acks, ctl)
  BY <1>1, <1>4, HoldsOn
<1> QED BY <1>2, <1>5, LocalStep

LEMMA IoTimeoutStep ==
  ASSUME Inv, NEW s \in Side, IoTimeout(s) PROVE Stepped(s)
<1>1. Holds(s, [arq[s] EXCEPT !.io = "check"], data, acks, ctl)
  BY AtRest, HoldsNow, IoMoves, HoldsOn
<1> QED BY <1>1, LocalStep DEF IoTimeout

LEMMA IoDataStep ==
  ASSUME Inv, NEW s \in Side, IoData(s) PROVE Stepped(s)
<1>1. Holds(s, [Feed(arq[s]) EXCEPT !.io = "check"], data, acks, ctl)
  BY HoldsNow, FeedHolds DEF IoData
<1> QED BY <1>1, LocalStep DEF IoData

LEMMA IoEOFStep ==
  ASSUME Inv, NEW s \in Side, IoEOF(s) PROVE Stepped(s)
<1>1. PICK x \in LastReads(s) : x.fed = x.offers /\ Become(s, Close(s, x, "CLOSE_READ", TRUE))
  BY DEF IoEOF
<1>2. Holds(s, x, data, acks, ctl)
  BY LastReadsHold DEF IoEOF
<1>3. Fine(s, x, Close(s, x, "CLOSE_READ", TRUE))
  BY <1>1, <1>2, CloseFine DEF Holds, Terminal
<1>4. Holds(s, Close(s, x, "CLOSE_READ", TRUE), data, acks, ctl)
  BY <1>2, <1>3, HoldsOn
<1> QED BY <1>1, <1>4, LocalStep DEF IoEOF

LEMMA IoErrorStep ==
  ASSUME Inv, NEW s \in Side, IoError(s) PROVE Stepped(s)
<1>1. PICK x \in LastReads(s) : \/ Become(s, Close(s, x, "RST", x.fed # arq[s].fed))
                                \/ Become(s, x)
  BY DEF IoError
<1>2. Holds(s, x, data, acks, ctl)
  BY LastReadsHold DEF IoError
<1> DEFINE late == x.fed # arq[s].fed
<1>3. late \in BOOLEAN
  OBVIOUS
<1>4. Become(s, Close(s, x, "RST", late)) \/ Become(s, x)
  BY <1>1
<1> HIDE DEF late
<1>5. Fine(s, x, Close(s, x, "RST", late))
  BY <1>2, <1>3, CloseFine DEF Holds, Terminal
<1>6. Holds(s, Close(s, x, "RST", late), data, acks, ctl)
  BY <1>2, <1>5, HoldsOn
<1> QED BY <1>2, <1>4, <1>6, LocalStep DEF IoError

\* What is accepted and not processed is what the peer sent.
LEMMA RxHolds ==
  ASSUME Inv, NEW s \in Side, NEW a, Holds(s, a, data, acks, ctl),
         NEW X \in SUBSET Nat, X \subseteq Sent(arq[Peer(s)])
  PROVE  Holds(s, [a EXCEPT !.rxChan = X], data, acks, ctl)
<1> DEFINE t == [a EXCEPT !.rxChan = X]
<1>1. /\ t \in Arq /\ t.flags = a.flags /\ t.offers = a.offers /\ t.fed = a.fed
      /\ t.sndBuf = a.sndBuf /\ t.rxChan = X /\ t.rcvBuf = a.rcvBuf /\ t.rcvNxt = a.rcvNxt
      /\ t.writing = a.writing /\ t.wrote = a.wrote /\ t.io = a.io
      /\ t.deferred = a.deferred /\ t.waitingAckFor = a.waitingAckFor
      /\ t.controlSndBuf = a.controlSndBuf
  BY DEF Holds, Good, Arq
<1> HIDE DEF t
<1>2. Good(s, t)
  BY <1>1 DEF Holds, Good, Counted, Gave, Marked, Committed, Tracked, Excused, Sent, Is, Any
<1>3. Link(s, t, arq[Peer(s)], data[Peer(s)], acks[s], ctl[Peer(s)])
  BY <1>1, SameSender DEF Holds, Is
<1>4. Link(Peer(s), arq[Peer(s)], t, data[s], acks[Peer(s)], ctl[s])
  BY <1>1 DEF Holds, Link, Bounded, Acknowledged, Kept, Announced, Delivered,
              Done, Gave, Any, Is, Stored
<1>5. Holds(s, t, data, acks, ctl)
  BY <1>1, <1>2, <1>3, <1>4, MovedSame DEF Holds
<1> QED BY <1>5 DEF t

LEMMA RxDrainStep ==
  ASSUME Inv, NEW s \in Side, RxDrain(s) PROVE Stepped(s)
<1>1. Holds(s, [arq[s] EXCEPT !.rxChan = {}], data, acks, ctl)
  BY HoldsNow, RxHolds
<1> QED BY <1>1, LocalStep DEF RxDrain

\* The path changes, within what was sent, acknowledged and announced.
LEMMA HoldsPath ==
  ASSUME Inv, NEW s \in Side, NEW t, Holds(s, t, data, acks, ctl), NEW D, NEW K, NEW C,
         D[Peer(s)] \subseteq Sent(t), D[s] \subseteq data[s],
         K[s] \subseteq acks[s],
         K[Peer(s)] \subseteq Sent(arq[Peer(s)]), Acknowledged(t, K[Peer(s)]),
         [type |-> "CLOSE_READ", ack |-> FALSE] \in C[Peer(s)] =>
           Is(t, "closeReadSent") \/ [type |-> "CLOSE_READ", ack |-> FALSE] \in ctl[Peer(s)],
         [type |-> "CLOSE_WRITE", ack |-> FALSE] \in C[Peer(s)] =>
           Is(t, "localWriterBroken") \/ [type |-> "CLOSE_WRITE", ack |-> FALSE] \in ctl[Peer(s)],
         C[s] \subseteq ctl[s]
  PROVE  Holds(s, t, D, K, C)
<1> DEFINE p == Peer(s)
           b == arq[p]
<1>1. Link(s, t, b, data[p], acks[s], ctl[p]) /\ Link(p, b, t, data[s], acks[p], ctl[s])
  BY DEF Holds
<1>2. K[s] \subseteq Sent(t) /\ Acknowledged(b, K[s]) /\ D[s] \subseteq Sent(b)
  BY <1>1 DEF Link, Bounded, Acknowledged
<1> HIDE DEF b
<1>3. Link(s, t, b, D[p], K[s], C[p])
  <2> HIDE DEF p
  <2> QED BY <1>1, <1>2, PathMoves DEF p
<1>4. Link(p, b, t, D[s], K[p], C[s])
  <2>1. K[p] \subseteq Sent(b)
    BY DEF b
  <2> HIDE DEF p
  <2> QED BY <1>1, <1>2, <2>1, PathMoves DEF p
<1> QED BY <1>3, <1>4 DEF Holds, b

LEMMA PathFacts ==
  ASSUME Inv, NEW s \in Side, NEW a, Holds(s, a, data, acks, ctl)
  PROVE  /\ data \in [Side -> SUBSET Nat] /\ acks \in [Side -> SUBSET Nat]
         /\ ctl \in [Side -> SUBSET Control]
         /\ data[Peer(s)] \subseteq Sent(a) /\ data[s] \subseteq Sent(arq[Peer(s)])
         /\ acks[s] \subseteq Sent(a) /\ acks[Peer(s)] \subseteq Sent(arq[Peer(s)])
         /\ Acknowledged(a, acks[Peer(s)]) /\ Acknowledged(arq[Peer(s)], acks[s])
         /\ a.rxChan \subseteq Sent(arq[Peer(s)]) /\ a.rcvBuf \subseteq Sent(arq[Peer(s)])
         /\ a.sndBuf \subseteq Sent(a)
BY DEF Inv, Types, Holds, Good, Counted, Link, Bounded

\* A packet that arrived is still on the path, or it is not.
LEMMA ArrivedFacts ==
  ASSUME NEW S, NEW N \in [Side -> SUBSET S], NEW N1, NEW s \in Side, NEW x,
         N1 = IF LateCopies THEN N ELSE [N EXCEPT ![s] = @ \ {x}]
  PROVE  N1 \in [Side -> SUBSET S] /\ N1[s] \subseteq N[s] /\ N1[Peer(s)] = N[Peer(s)]
BY PeerFacts

LEMMA SendDataStep ==
  ASSUME Inv, NEW s \in Side, NEW c, SendData(s, c) PROVE Stepped(s)
<1> DEFINE a == arq[s]
<1>1. Holds(s, a, data, acks, ctl)
  BY HoldsNow
<1>2. c \in Nat
  BY AtRest DEF SendData, Arq
<1>3. /\ data' \in [Side -> SUBSET Nat] /\ data'[s] = data[s]
      /\ data'[Peer(s)] = data[Peer(s)] \cup {c}
  BY <1>1, <1>2, PathFacts, PeerFacts DEF SendData
<1>4. arq' = [arq EXCEPT ![s] = a] /\ acks' = acks /\ ctl' = ctl
  BY DEF SendData, Inv, Types
<1>5. c \in Sent(a)
  BY <1>1, PathFacts DEF SendData
<1> HIDE DEF a
<1>6. Holds(s, a, data', acks', ctl')
  BY <1>1, <1>3, <1>4, <1>5, PathFacts, HoldsPath
<1> QED BY <1>1, <1>3, <1>4, <1>6, PathFacts, HoldsThen

LEMMA SendTerminalStep ==
  ASSUME Inv, NEW s \in Side, NEW t, SendTerminal(s, t) PROVE Stepped(s)
<1> DEFINE a == arq[s]
           pk == [type |-> t, ack |-> FALSE]
<1>1. Holds(s, a, data, acks, ctl)
  BY HoldsNow
<1>2. t \in Terminal /\ pk \in Control
  BY AtRest DEF SendTerminal, Arq, Control
<1>3. /\ ctl' \in [Side -> SUBSET Control] /\ ctl'[s] = ctl[s]
      /\ ctl'[Peer(s)] = ctl[Peer(s)] \cup {pk}
  BY <1>1, <1>2, PathFacts, PeerFacts DEF SendTerminal
<1>4. arq' = [arq EXCEPT ![s] = a] /\ acks' = acks /\ data' = data
  BY DEF SendTerminal, Inv, Types
<1>5. /\ t = "CLOSE_READ" => Is(a, "closeReadSent")
      /\ t = "CLOSE_WRITE" => Is(a, "localWriterBroken")
  BY AtRest DEF SendTerminal, Good, Marked, Tracked
<1> HIDE DEF a
<1>6. /\ [type |-> "CLOSE_READ", ack |-> FALSE] = pk => t = "CLOSE_READ"
      /\ [type |-> "CLOSE_WRITE", ack |-> FALSE] = pk => t = "CLOSE_WRITE"
  OBVIOUS
<1> HIDE DEF pk
<1>7. Holds(s, a, data', acks', ctl')
  BY <1>1, <1>3, <1>4, <1>5, <1>6, PathFacts, HoldsPath
<1> QED BY <1>1, <1>3, <1>4, <1>7, PathFacts, HoldsThen

LEMMA ReceiveDataStep ==
  ASSUME Inv, NEW s \in Side, NEW c, ReceiveData(s, c) PROVE Stepped(s)
<1> DEFINE a == arq[s]
           p == Peer(s)
           pk == [type |-> "RST", ack |-> FALSE]
<1>1. Holds(s, a, data, acks, ctl)
  BY HoldsNow
<1>2. /\ data' \in [Side -> SUBSET Nat] /\ data'[s] \subseteq data[s] /\ data'[p] = data[p]
  <2>1. data \in [Side -> SUBSET Nat]
    BY DEF Inv, Types
  <2>2. data' = IF LateCopies THEN data ELSE [data EXCEPT ![s] = @ \ {c}]
    BY DEF ReceiveData, Arrived
  <2> QED BY <2>1, <2>2, ArrivedFacts
<1>3. acks' = acks
  BY DEF ReceiveData
<1>4. CASE Refuses(s)
  <2>1. /\ ctl' \in [Side -> SUBSET Control] /\ ctl'[s] = ctl[s] /\ ctl'[p] = ctl[p] \cup {pk}
    <3>1. ctl' = [ctl EXCEPT ![p] = @ \cup {pk}]
      BY <1>4 DEF ReceiveData
    <3>2. pk \in Control
      BY DEF Control, Terminal
    <3> HIDE DEF pk
    <3> QED BY <1>1, <3>1, <3>2, PathFacts, PeerFacts
  <2>2. arq' = [arq EXCEPT ![s] = a]
    BY <1>4 DEF ReceiveData, Inv, Types
  <2>3. /\ [type |-> "CLOSE_READ", ack |-> FALSE] # pk
        /\ [type |-> "CLOSE_WRITE", ack |-> FALSE] # pk
    OBVIOUS
  <2> HIDE DEF a, pk
  <2>4. Holds(s, a, data', acks', ctl')
    BY <1>1, <1>2, <1>3, <2>1, <2>3, PathFacts, HoldsPath
  <2> QED BY <1>1, <1>2, <1>3, <2>1, <2>2, <2>4, PathFacts, HoldsThen
<1>5. CASE ~Refuses(s)
  <2> DEFINE X == a.rxChan \cup {c}
             m == IF Resetting(a) THEN a
                  ELSE IF Is(a, "localWriterBroken") THEN CloseWriteIfNeeded(s, a)
                  ELSE [a EXCEPT !.rxChan = X]
  <2>1. ctl' = ctl /\ arq' = [arq EXCEPT ![s] = m]
    BY <1>5 DEF ReceiveData, Become
  <2>2. X \in SUBSET Nat /\ X \subseteq Sent(arq[Peer(s)])
    <3>1. c \in data[s]
      BY DEF ReceiveData
    <3>2. a.rxChan \subseteq Sent(arq[Peer(s)]) /\ data[s] \subseteq Sent(arq[Peer(s)])
      BY <1>1, PathFacts
    <3>3. a.rxChan \subseteq Nat /\ c \in Nat
      BY <3>1, AtRest DEF Arq, Inv, Types
    <3> HIDE DEF a
    <3> QED BY <3>1, <3>2, <3>3
  <2>3. Fine(s, a, CloseWriteIfNeeded(s, a))
    BY AtRest, CloseWriteFine
  <2> HIDE DEF X, a
  <2>4. Holds(s, [a EXCEPT !.rxChan = X], data, acks, ctl)
    BY <1>1, <2>2, RxHolds
  <2>5. Holds(s, m, data, acks, ctl)
    BY <1>1, <2>3, <2>4, HoldsOn
  <2> HIDE DEF m
  <2>6. Holds(s, m, data', acks', ctl')
    BY <1>2, <1>3, <2>1, <2>5, PathFacts, HoldsPath
  <2> QED BY <1>1, <1>2, <1>3, <2>1, <2>6, PathFacts, HoldsThen
<1> QED BY <1>4, <1>5

LEMMA ProcessReceivedDataStep ==
  ASSUME Inv, NEW s \in Side, NEW c, ProcessReceivedData(s, c) PROVE Stepped(s)
<1> DEFINE X == arq[s].rxChan \ {c}
           a == [arq[s] EXCEPT !.rxChan = X]
           p == Peer(s)
<1>1. Holds(s, arq[s], data, acks, ctl)
  BY HoldsNow
<1>2. X \in SUBSET Nat /\ X \subseteq Sent(arq[p]) /\ c \in Sent(arq[p])
  BY <1>1, PathFacts DEF ProcessReceivedData, Sent
<1>3. Holds(s, a, data, acks, ctl)
  <2> HIDE DEF X
  <2> QED BY <1>1, <1>2, RxHolds
<1>4. data' = data /\ ctl' = ctl
  BY DEF ProcessReceivedData
<1> DEFINE over == Any(a, {"localWriterBroken", "closeWriteSent", "closeWriteAcked"})
<1>5. CASE over
  <2>1. arq' = [arq EXCEPT ![s] = CloseWriteIfNeeded(s, a)] /\ acks' = acks
    BY <1>5 DEF ProcessReceivedData, Become
  <2> HIDE DEF a
  <2>2. Holds(s, CloseWriteIfNeeded(s, a), data, acks, ctl)
    BY <1>3, CloseWriteFine, HoldsOn DEF Holds
  <2> QED BY <1>1, <1>4, <2>1, <2>2, PathFacts, HoldsThen
<1>6. CASE ~over
  <2> DEFINE t == [a EXCEPT !.rcvBuf = @ \cup {c}, !.flush = TRUE]
             m == IF c < a.rcvNxt THEN a ELSE t
  <2>1. arq' = [arq EXCEPT ![s] = m] /\ acks' = [acks EXCEPT ![p] = @ \cup {c}]
    BY <1>6 DEF ProcessReceivedData, Become
  <2> HIDE DEF a
  <2>2. a \in Arq /\ Good(s, a) /\ c \in Nat /\ c # 0
    BY <1>2, <1>3 DEF Holds, Good, Sent
  <2>3. /\ t \in Arq /\ t.flags = a.flags /\ t.offers = a.offers /\ t.fed = a.fed
        /\ t.sndBuf = a.sndBuf /\ t.rxChan = a.rxChan /\ t.rcvBuf = a.rcvBuf \cup {c}
        /\ t.rcvNxt = a.rcvNxt /\ t.writing = a.writing /\ t.wrote = a.wrote /\ t.io = a.io
        /\ t.deferred = a.deferred /\ t.waitingAckFor = a.waitingAckFor
        /\ t.controlSndBuf = a.controlSndBuf
    BY <2>2 DEF Arq
  <2> HIDE DEF t
  <2>4. Stored(t) = Stored(a) \cup {c}
    BY <2>3 DEF Stored
  <2>5. Good(s, t)
    BY <1>3, <2>3 DEF Holds, Good, Counted, Gave, Marked, Committed, Tracked, Excused, Sent, Is, Any
  <2>6. Link(s, t, arq[p], data[p], acks[s], ctl[p])
    BY <1>3, <2>3, SameSender DEF Holds, Is
  <2>7. Link(p, arq[p], t, data[s], acks[p], ctl[s])
    <3> DEFINE b == arq[p]
    <3>0. Link(p, b, a, data[s], acks[p], ctl[s]) /\ c \in Sent(b)
      BY <1>2, <1>3 DEF Holds
    <3> HIDE DEF b, p
    <3>1. Done(t) <=> Done(a)
      BY <2>3 DEF Done, Gave, Any, Is
    <3>2. Bounded(b, t, data[s], acks[p])
      BY <3>0, <2>3 DEF Link, Bounded
    <3>3. Acknowledged(t, acks[p]) /\ Kept(b, t)
      BY <3>0, <3>1, <2>4 DEF Link, Acknowledged, Kept
    <3>4. Announced(b, t, ctl[s])
      BY <3>0, <2>3 DEF Link, Announced, Is
    <3>5. Delivered(p, b, t)
      <4>1. /\ Stored(a) \subseteq Stored(t) /\ t.wrote = a.wrote
            /\ Gave(t) <=> Gave(a)
            /\ Is(t, "closed") <=> Is(a, "closed")
            /\ Is(t, "closeReadReceived") <=> Is(a, "closeReadReceived")
        BY <2>3, <2>4 DEF Gave, Any, Is
      <4>2. Delivered(p, b, a)
        BY <3>0 DEF Link
      <4> QED BY <3>1, <4>1, <4>2 DEF Delivered
    <3> QED BY <3>2, <3>3, <3>4, <3>5 DEF Link, b
  <2>8. Holds(s, t, data, acks, ctl)
    BY <1>3, <2>3, <2>5, <2>6, <2>7, MovedSame DEF Holds
  <2>9. Holds(s, m, data, acks, ctl)
    BY <1>3, <2>8
  <2>10. c \in Stored(m)
    <3>1. CASE c < a.rcvNxt
      BY <2>2, <3>1 DEF Stored, Arq
    <3>2. CASE ~(c < a.rcvNxt)
      BY <2>4, <3>2
    <3> QED BY <3>1, <3>2
  <2> HIDE DEF m
  <2>11. /\ acks' \in [Side -> SUBSET Nat] /\ acks'[s] = acks[s] /\ acks'[p] = acks[p] \cup {c}
    BY <1>1, <2>1, <2>2, PathFacts, PeerFacts
  <2>12. Acknowledged(m, acks'[p]) /\ acks'[p] \subseteq Sent(arq[p])
    BY <1>2, <2>9, <2>10, <2>11, PathFacts DEF Acknowledged
  <2>13. Holds(s, m, data', acks', ctl')
    BY <1>4, <2>9, <2>11, <2>12, PathFacts, HoldsPath
  <2> QED BY <1>1, <1>4, <2>1, <2>11, <2>13, PathFacts, HoldsThen
<1> QED BY <1>5, <1>6

\* An acknowledged chunk is stored, or the peer has given up.
LEMMA ReceiveAckStep ==
  ASSUME Inv, NEW s \in Side, NEW c, ReceiveAck(s, c) PROVE Stepped(s)
<1> DEFINE o == arq[s]
           p == Peer(s)
           a == [o EXCEPT !.sndBuf = @ \ {c}]
           b == IF Is(a, "closeReadReceived") THEN TryFinalizeRemoteEOF(s, a) ELSE a
           m == IF c \in o.sndBuf THEN SettleTerminalDrain(s, b) ELSE o
<1>1. Holds(s, o, data, acks, ctl) /\ o \in Arq
  BY HoldsNow, AtRest
<1>2. /\ acks' \in [Side -> SUBSET Nat] /\ acks'[s] \subseteq acks[s] /\ acks'[p] = acks[p]
  <2>1. acks \in [Side -> SUBSET Nat]
    BY DEF Inv, Types
  <2>2. acks' = IF LateCopies THEN acks ELSE [acks EXCEPT ![s] = @ \ {c}]
    BY DEF ReceiveAck, Arrived
  <2> QED BY <2>1, <2>2, ArrivedFacts
<1>3. c \in acks[s] /\ data' = data /\ ctl' = ctl /\ arq' = [arq EXCEPT ![s] = m]
  BY DEF ReceiveAck, Become
<1> HIDE DEF o
<1>4. /\ a \in Arq /\ a.flags = o.flags /\ a.offers = o.offers /\ a.fed = o.fed
      /\ a.sndBuf = o.sndBuf \ {c} /\ a.rxChan = o.rxChan /\ a.rcvBuf = o.rcvBuf
      /\ a.rcvNxt = o.rcvNxt /\ a.writing = o.writing /\ a.wrote = o.wrote /\ a.io = o.io
      /\ a.deferred = o.deferred /\ a.waitingAckFor = o.waitingAckFor
      /\ a.controlSndBuf = o.controlSndBuf
  BY <1>1 DEF Arq
<1> HIDE DEF a
<1>5. Good(s, a)
  BY <1>1, <1>4 DEF Holds, Good, Counted, Gave, Marked, Committed, Tracked, Excused, Sent, Is, Any
<1>6. Link(s, a, arq[p], data[p], acks[s], ctl[p])
  <2> DEFINE q == arq[p]
  <2>0. Link(s, o, q, data[p], acks[s], ctl[p])
    BY <1>1 DEF Holds
  <2> HIDE DEF q, p
  <2>1. Kept(a, q)
    <3>1. Done(q) \/ c \in Stored(q)
      BY <1>3, <2>0 DEF Link, Acknowledged
    <3>2. Kept(o, q) /\ Sent(a) = Sent(o) /\ (Stopped(o) => Stopped(a))
      BY <1>4, <2>0 DEF Link, Sent, Stopped, Any
    <3> QED BY <1>4, <3>1, <3>2 DEF Kept
  <2>2. /\ Bounded(a, q, data[p], acks[s]) /\ Acknowledged(q, acks[s]) /\ Announced(a, q, ctl[p])
        /\ Delivered(s, a, q)
    BY <1>4, <2>0 DEF Link, Bounded, Announced, Delivered, Covered, Sent, Is
  <2> QED BY <2>1, <2>2 DEF Link, q
<1>7. Link(p, arq[p], a, data[s], acks[p], ctl[s])
  BY <1>1, <1>4, SameReceiver DEF Holds
<1>8. Holds(s, a, data, acks, ctl)
  BY <1>1, <1>4, <1>5, <1>6, <1>7, MovedSame DEF Holds
<1>9. Fine(s, a, b)
  BY <1>5, TryFinalizeFine, FineItself
<1>10. Holds(s, b, data, acks, ctl)
  BY <1>8, <1>9, HoldsOn
<1> HIDE DEF b
<1>11. Holds(s, m, data, acks, ctl)
  BY <1>1, <1>10, SettleFine, HoldsOn DEF Holds
<1> HIDE DEF m
<1>12. Holds(s, m, data', acks', ctl')
  BY <1>2, <1>3, <1>11, PathFacts, HoldsPath
<1> QED BY <1>1, <1>2, <1>3, <1>12, PathFacts, HoldsThen

-----------------------------------------------------------------------------
(* writeLoop. *)

LEMMA WriterWakeStep ==
  ASSUME Inv, NEW s \in Side, WriterWake(s) PROVE Stepped(s)
<1> DEFINE a == arq[s]
           x == IF Is(a, "closed") THEN "done" ELSE "scan"
           f == a.flush /\ a.rcvNxt \in a.rcvBuf
<1>1. Become(s, [a EXCEPT !.writer = x, !.flush = f])
  BY DEF WriterWake
<1>2. x \in {"wait", "scan", "empty", "done"} /\ f \in BOOLEAN
  OBVIOUS
<1> HIDE DEF x, f
<1>3. Holds(s, [a EXCEPT !.writer = x, !.flush = f], data, acks, ctl)
  BY <1>2, AtRest, HoldsNow, WriterMoves, HoldsOn
<1> QED BY <1>1, <1>3, LocalStep DEF WriterWake

\* A set of numbers has a least one.
LEMMA LeastOf ==
  ASSUME NEW D, D \subseteq Nat, D # {}
  PROVE  \E d \in D : \A e \in D : d <= e
<1> DEFINE R == StrictSubsetOrdering(Nat)
           T == {0 .. d - 1 : d \in D}
<1>1. \A d \in Nat : 0 .. d - 1 \in FiniteSubsetsOf(Nat)
  BY FS_Interval DEF FiniteSubsetsOf
<1>2. T \subseteq FiniteSubsetsOf(Nat) /\ T # {}
  BY <1>1
<1>3. \E x \in T : \A y \in T : ~ (<<y, x>> \in R)
  <2> HIDE DEF R, T
  <2>1. IsWellFoundedOn(R, FiniteSubsetsOf(Nat))
    BY FS_StrictSubsetOrderingWellFounded DEF R
  <2> QED
    BY <1>2, <2>1, WFMin
<1>4. PICK d \in D : \A e \in D : ~ (<<0 .. e - 1, 0 .. d - 1>> \in R)
  BY <1>3
<1>5. ASSUME NEW e \in D, e < d PROVE FALSE
  <2>1. 0 .. e - 1 \subseteq 0 .. d - 1 /\ e \in 0 .. d - 1 /\ e \notin 0 .. e - 1
    BY <1>5
  <2>2. 0 .. e - 1 \in SUBSET Nat /\ 0 .. d - 1 \in SUBSET Nat
    BY <1>5
  <2>3. <<0 .. e - 1, 0 .. d - 1>> \in R
    BY <2>1, <2>2 DEF StrictSubsetOrdering
  <2> QED
    BY <1>4, <2>3
<1> QED
  BY <1>5

\* What writeLoop takes are the next chunks, without a gap.
LEMMA ScanTakes ==
  ASSUME NEW R, IsFiniteSet(R), NEW x \in Nat, NEW ready,
         ready = {n \in 1 .. Cardinality(R) : \A i \in 0 .. n - 1 : x + i \in R}
  PROVE  Cardinality(ready) \in Nat /\ \A i \in 0 .. Cardinality(ready) - 1 : x + i \in R
<1> DEFINE N == Cardinality(R)
<1>0. N \in Nat
  BY FS_CardinalityType
<1> HIDE DEF N
<1>1. ready = {n \in 1 .. N : \A i \in 0 .. n - 1 : x + i \in R}
  BY DEF N
<1>2. PICK m \in 0 .. N : ready = 1 .. m
  <2>1. CASE \A k \in 1 .. N : k \in ready
    <3>1. ready = 1 .. N
      BY <1>1, <2>1
    <3> QED BY <1>0, <3>1
  <2>2. CASE \E k \in 1 .. N : k \notin ready
    <3>1. PICK j \in 1 .. N : x + (j - 1) \notin R /\ \A i \in 0 .. j - 2 : x + i \in R
      <4> DEFINE Gaps == {i \in 0 .. N - 1 : x + i \notin R}
      <4>1. PICK k \in 1 .. N : k \notin ready
        BY <2>2
      <4>2. PICK i \in 0 .. k - 1 : x + i \notin R
        BY <1>1, <4>1
      <4>3. i \in Gaps
        BY <1>0, <4>1, <4>2
      <4>4. PICK g \in Gaps : \A h \in Gaps : g <= h
        <5>1. Gaps # {}
          BY <4>3
        <5>2. Gaps \subseteq 0 .. N - 1 /\ 0 .. N - 1 \subseteq Nat
          BY <1>0
        <5> HIDE DEF Gaps
        <5> QED BY <5>1, <5>2, LeastOf
      <4>5. \A h \in 0 .. g - 1 : x + h \in R
        BY <1>0, <4>4
      <4>6. g + 1 \in 1 .. N /\ x + ((g + 1) - 1) \notin R /\ \A h \in 0 .. (g + 1) - 2 : x + h \in R
        BY <1>0, <4>4, <4>5
      <4> QED BY <4>6
    <3>2. \A n \in 1 .. N : n \in ready <=> n <= j - 1
      <4>0. j \in Nat /\ j >= 1 /\ j <= N
        BY <1>0, <3>1
      <4> TAKE n \in 1 .. N
      <4>1. n \in Nat /\ (n \in ready <=> \A i \in 0 .. n - 1 : x + i \in R)
        <5>1. n \in Nat
          BY <1>0
        <5>2. n \in 1 .. N
          OBVIOUS
        <5>3. \A k \in 1 .. N : k \in ready <=> \A i \in 0 .. k - 1 : x + i \in R
          BY <1>1
        <5> QED BY <5>1, <5>2, <5>3
      <4>2. ASSUME n <= j - 1 PROVE n \in ready
        <5>1. \A i \in 0 .. n - 1 : i \in 0 .. j - 2
          BY <4>0, <4>1, <4>2
        <5> QED BY <3>1, <4>1, <5>1
      <4>3. ASSUME ~(n <= j - 1) PROVE n \notin ready
        <5>1. j - 1 \in 0 .. n - 1
          BY <4>0, <4>1, <4>3
        <5> QED BY <3>1, <4>1, <5>1
      <4> QED BY <4>2, <4>3
    <3>3. ready = 1 .. j - 1
      <4>1. ready \subseteq 1 .. N
        BY <1>1
      <4>2. \A n : n \in 1 .. j - 1 <=> n \in 1 .. N /\ n <= j - 1
        BY <1>0, <3>1
      <4> QED BY <3>2, <4>1, <4>2
    <3>4. j - 1 \in 0 .. N
      BY <1>0, <3>1
    <3> QED BY <3>3, <3>4
  <2> QED BY <2>1, <2>2
<1>3. Cardinality(ready) = m
  <2>1. m \in Nat /\ 1 \in Int /\ m \in Int
    BY <1>0
  <2>2. Cardinality(1 .. m) = IF 1 > m THEN 0 ELSE m - 1 + 1
    BY <2>1, FS_Interval
  <2>3. Cardinality(1 .. m) = m
    BY <2>1, <2>2
  <2> QED BY <1>2, <2>3
<1>4. \A i \in 0 .. m - 1 : x + i \in R
  <2>1. CASE m = 0
    BY <2>1
  <2>2. CASE m # 0
    <3>1. m \in ready
      BY <1>0, <1>2, <2>2
    <3> QED BY <1>1, <3>1
  <2> QED BY <2>1, <2>2
<1>5. m \in Nat
  BY <1>0
<1> QED BY <1>3, <1>4, <1>5

LEMMA WriterScanStep ==
  ASSUME Inv, NEW s \in Side, WriterScan(s) PROVE Stepped(s)
<1> DEFINE a == arq[s]
           p == Peer(s)
           ready == {n \in 1 .. Cardinality(a.rcvBuf) : \A i \in 0 .. n - 1 : a.rcvNxt + i \in a.rcvBuf}
           n == Cardinality(ready)
           x == IF n = 0 THEN "empty" ELSE "scan"
           t == [a EXCEPT !.writer = x, !.writing = n, !.rcvNxt = @ + n,
                          !.rcvBuf = @ \ (a.rcvNxt .. a.rcvNxt + n - 1)]
<1>1. Holds(s, a, data, acks, ctl) /\ a \in Arq /\ Good(s, a)
  BY HoldsNow, AtRest
<1>2. CASE Is(a, "closed")
  <2>1. Become(s, [a EXCEPT !.writer = "done"])
    BY <1>2 DEF WriterScan
  <2>2. Holds(s, [a EXCEPT !.writer = "done"], data, acks, ctl)
    BY <1>1, WriterMoves, HoldsOn
  <2> QED BY <2>1, <2>2, LocalStep DEF WriterScan
<1>3. CASE ~Is(a, "closed")
  <2>1. Become(s, t) /\ a.writing = 0
    BY <1>3 DEF WriterScan
  <2>2. arq[p] \in Arq /\ arq[p].fed \in Nat /\ a.rcvNxt \in Nat /\ a.rcvBuf \subseteq Sent(arq[p])
    BY <1>1, AtRest, PathFacts DEF Arq
  <2>3. IsFiniteSet(a.rcvBuf)
    <3>1. IsFiniteSet(1 .. arq[p].fed)
      BY <2>2, FS_Interval
    <3> QED BY <2>2, <3>1, FS_Subset DEF Sent
  <2>4. n \in Nat /\ \A i \in 0 .. n - 1 : a.rcvNxt + i \in a.rcvBuf
    <3> HIDE DEF a
    <3>1. ready = {k \in 1 .. Cardinality(a.rcvBuf) : \A i \in 0 .. k - 1 : a.rcvNxt + i \in a.rcvBuf}
      OBVIOUS
    <3> HIDE DEF ready
    <3> QED BY <2>2, <2>3, <3>1, ScanTakes
  <2> HIDE DEF n, ready, a
  <2>5. PICK R \in SUBSET Nat : R = a.rcvBuf \ (a.rcvNxt .. a.rcvNxt + n - 1)
    BY <1>1 DEF Arq
  <2>6. PICK y \in Nat : y = a.rcvNxt + n
    BY <2>2, <2>4
  <2>7. t = [a EXCEPT !.writer = x, !.writing = n, !.rcvNxt = y, !.rcvBuf = R]
    BY <2>5, <2>6
  <2>8. /\ t \in Arq /\ t.flags = a.flags /\ t.offers = a.offers /\ t.fed = a.fed
        /\ t.sndBuf = a.sndBuf /\ t.rxChan = a.rxChan /\ t.rcvBuf = R
        /\ t.rcvNxt = y /\ t.writing = n /\ t.wrote = a.wrote /\ t.io = a.io
        /\ t.deferred = a.deferred /\ t.waitingAckFor = a.waitingAckFor
        /\ t.controlSndBuf = a.controlSndBuf
    <3>1. x \in {"wait", "scan", "empty", "done"}
      OBVIOUS
    <3> HIDE DEF t, x
    <3> QED BY <1>1, <2>4, <2>7, <3>1 DEF Arq
  <2> HIDE DEF t
  \* What was stored is stored or in hand, and the numbers go up to a chunk that was sent.
  <2>9. Stored(a) \subseteq Stored(t)
    <3>1. a.rcvNxt # 0 /\ a.rcvBuf \subseteq Nat
      BY <1>1 DEF Good, Counted, Arq
    <3>2. \A e \in 1 .. a.rcvNxt - 1 : e \in 1 .. y - 1
      BY <2>2, <2>4, <2>6
    <3>3. \A e \in a.rcvNxt .. a.rcvNxt + n - 1 : e \in 1 .. y - 1
      BY <2>2, <2>4, <2>6, <3>1
    <3> QED BY <2>5, <2>8, <3>2, <3>3 DEF Stored
  <2>10. t.rcvNxt - 1 <= arq[p].fed
    <3>1. a.rcvNxt - 1 <= arq[p].fed
      BY <1>1 DEF Holds, Link, Bounded, p
    <3>2. CASE n = 0
      BY <2>2, <2>6, <2>8, <3>1, <3>2
    <3>3. CASE n # 0
      <4>1. a.rcvNxt + (n - 1) \in Sent(arq[p])
        BY <2>2, <2>4, <3>3
      <4> QED BY <2>2, <2>4, <2>6, <2>8, <4>1 DEF Sent
    <3> QED BY <3>2, <3>3
  <2>11. Good(s, t)
    <3>1. Counted(t)
      <4>1. /\ a.wrote \in Nat /\ a.rcvNxt # 0 /\ a.wrote + 0 <= a.rcvNxt - 1
            /\ ~Is(a, "localWriterBroken") => a.wrote + 0 = a.rcvNxt - 1
        BY <1>1, <2>1 DEF Good, Counted, Arq
      <4>2. /\ Is(t, "localWriterBroken") <=> Is(a, "localWriterBroken")
            /\ ~Is(t, "closed")
        BY <1>3, <2>8 DEF Is
      <4>3. /\ t.rcvNxt # 0 /\ t.wrote + t.writing <= t.rcvNxt - 1
            /\ ~Is(t, "localWriterBroken") => t.wrote + t.writing = t.rcvNxt - 1
        BY <2>2, <2>4, <2>6, <2>8, <4>1, <4>2
      <4> QED BY <1>1, <2>8, <4>2, <4>3 DEF Good, Counted, Sent
    <3>2. Marked(t) /\ Committed(s, t)
      BY <1>1, <2>8 DEF Good, Marked, Committed, Tracked, Excused, Is, Any
    <3> QED BY <2>8, <3>1, <3>2 DEF Good
  <2>12. Link(s, t, arq[p], data[p], acks[s], ctl[p])
    BY <1>1, <2>8, SameSender DEF Holds, Is
  <2>13. Link(p, arq[p], t, data[s], acks[p], ctl[s])
    <3> DEFINE b == arq[p]
    <3>0. Link(p, b, a, data[s], acks[p], ctl[s])
      BY <1>1 DEF Holds
    <3>1. /\ Done(t) <=> Done(a)
          /\ Gave(t) <=> Gave(a)
          /\ Is(t, "closed") <=> Is(a, "closed")
          /\ Is(t, "closeReadReceived") <=> Is(a, "closeReadReceived")
      BY <2>8 DEF Done, Gave, Any, Is
    <3>2. Bounded(b, t, data[s], acks[p])
      BY <2>5, <2>8, <2>10, <3>0 DEF Link, Bounded
    <3> HIDE DEF b, p
    <3>3. Acknowledged(t, acks[p]) /\ Kept(b, t)
      BY <2>9, <3>0, <3>1 DEF Link, Acknowledged, Kept
    <3>4. Announced(b, t, ctl[s])
      BY <3>0, <3>1 DEF Link, Announced
    <3>5. Delivered(p, b, t)
      BY <2>8, <2>9, <3>0, <3>1 DEF Link, Delivered
    <3> QED BY <3>2, <3>3, <3>4, <3>5 DEF Link, b
  <2>14. Holds(s, t, data, acks, ctl)
    BY <1>1, <2>8, <2>11, <2>12, <2>13, MovedSame DEF Holds
  <2> QED BY <2>1, <2>14, LocalStep DEF WriterScan, t, a
<1> QED BY <1>2, <1>3

LEMMA WriterIdleStep ==
  ASSUME Inv, NEW s \in Side, WriterIdle(s) PROVE Stepped(s)
<1> DEFINE a == arq[s]
           r == Raise(a, {"localWriteClosed"})
           b == IF Is(a, "closeReadReceived") /\ a.rxChan = {} /\ ~Is(a, "closed") THEN r ELSE a
           m == TryFinalizeRemoteEOF(s, b)
<1>1. Holds(s, a, data, acks, ctl) /\ a \in Arq /\ Good(s, a)
  BY HoldsNow, AtRest
<1>2. Become(s, [m EXCEPT !.writer = "wait"])
  BY DEF WriterIdle
<1> HIDE DEF a
<1>3. ASSUME Is(a, "closeReadReceived") PROVE Fine(s, a, r)
  <2>1. /\ r \in Arq /\ r.flags = a.flags \cup {"localWriteClosed"}
        /\ r.offers = a.offers /\ r.fed = a.fed /\ r.sndBuf = a.sndBuf
        /\ r.rcvBuf = a.rcvBuf /\ r.controlSndBuf = a.controlSndBuf /\ r.deferred = a.deferred
        /\ r.rxChan = a.rxChan /\ r.rcvNxt = a.rcvNxt /\ r.waitingAckFor = a.waitingAckFor
        /\ r.writing = a.writing /\ r.wrote = a.wrote /\ r.io = a.io
    BY <1>1, RaiseFields DEF Flags
  <2> HIDE DEF r
  <2>2. Good(s, r)
    BY <1>1, <1>3, <2>1 DEF Good, Counted, Gave, Marked, Committed, Tracked, Excused, Sent, Is, Any
  <2>3. Leads(a, r)
    BY <2>1 DEF Leads, Stopped, Done, Gave, Is, Any
  <2> QED BY <2>2, <2>3 DEF Fine
<1>4. Fine(s, a, b)
  BY <1>1, <1>3, FineItself
<1> HIDE DEF b
<1>5. Fine(s, b, m)
  BY <1>4, TryFinalizeFine DEF Fine
<1> HIDE DEF m
<1>6. Fine(s, m, [m EXCEPT !.writer = "wait"])
  BY <1>5, WriterMoves DEF Fine
<1>7. Holds(s, [m EXCEPT !.writer = "wait"], data, acks, ctl)
  BY <1>1, <1>4, <1>5, <1>6, FineOn, HoldsOn
<1> QED BY <1>2, <1>7, LocalStep DEF WriterIdle

LEMMA WriterWriteStep ==
  ASSUME Inv, NEW s \in Side, WriterWrite(s) PROVE Stepped(s)
<1> DEFINE a == arq[s]
           p == Peer(s)
           t == [a EXCEPT !.wrote = @ + a.writing, !.writing = 0]
<1>1. Holds(s, a, data, acks, ctl) /\ a \in Arq /\ Good(s, a)
  BY HoldsNow, AtRest
<1>2. Become(s, TryFinalizeRemoteEOF(s, t)) /\ ~Is(a, "closed")
  BY DEF WriterWrite, Any, Is
<1> HIDE DEF a
<1>3. PICK y \in Nat : y = a.wrote + a.writing
  BY <1>1 DEF Arq
<1>4. /\ t \in Arq /\ t.flags = a.flags /\ t.offers = a.offers /\ t.fed = a.fed
      /\ t.sndBuf = a.sndBuf /\ t.rxChan = a.rxChan /\ t.rcvBuf = a.rcvBuf
      /\ t.rcvNxt = a.rcvNxt /\ t.writing = 0 /\ t.wrote = y /\ t.io = a.io
      /\ t.deferred = a.deferred /\ t.waitingAckFor = a.waitingAckFor
      /\ t.controlSndBuf = a.controlSndBuf
  <2>1. t = [a EXCEPT !.wrote = y, !.writing = 0]
    BY <1>3
  <2> HIDE DEF t
  <2> QED BY <1>1, <2>1 DEF Arq
<1> HIDE DEF t
<1>5. Good(s, t)
  <2>1. Counted(t)
    BY <1>1, <1>3, <1>4 DEF Good, Counted, Sent, Is, Arq
  <2>2. Marked(t) /\ Committed(s, t)
    BY <1>1, <1>4 DEF Good, Marked, Committed, Tracked, Excused, Is, Any
  <2> QED BY <1>4, <2>1, <2>2 DEF Good
<1>6. Link(s, t, arq[p], data[p], acks[s], ctl[p])
  BY <1>1, <1>4, SameSender DEF Holds, Is
<1>7. Link(p, arq[p], t, data[s], acks[p], ctl[s])
  BY <1>1, <1>2, <1>4 DEF Holds, Link, Bounded, Acknowledged, Kept, Announced, Delivered,
                          Done, Gave, Any, Is, Stored
<1>8. Holds(s, t, data, acks, ctl)
  <2>1. Moved(a, t)
    <3>1. a.wrote \in Nat /\ a.writing \in Nat
      BY <1>1 DEF Arq
    <3>2. y >= a.wrote
      BY <1>3, <3>1
    <3> QED BY <1>2, <1>4, <3>2 DEF Moved, Gave, Any
  <2> QED BY <1>1, <1>4, <1>5, <1>6, <1>7, <2>1 DEF Holds, a
<1>9. Holds(s, TryFinalizeRemoteEOF(s, t), data, acks, ctl)
  BY <1>5, <1>8, TryFinalizeFine, HoldsOn
<1> QED BY <1>2, <1>9, LocalStep DEF WriterWrite

\* A writer breaks by the peer's end of data, or by an error of an application that is
\* sent something: then it sends nothing itself.
LEMMA WriterFailStep ==
  ASSUME Inv, NEW s \in Side, WriterFail(s) PROVE Stepped(s)
<1> DEFINE a == arq[s]
           p == Peer(s)
           q == arq[p]
           t == MarkLocalWriterBroken(a)
           m == Close(s, t, "CLOSE_WRITE", FALSE)
<1>1. /\ Holds(s, a, data, acks, ctl) /\ a \in Arq /\ Good(s, a) /\ q \in Arq /\ Good(p, q)
      /\ p \in Side /\ p # s
  BY HoldsNow, AtRest
<1>2. /\ Become(s, [m EXCEPT !.writer = "done"]) /\ a.writing > 0
      /\ AppErrors \/ Is(a, "closed") \/ Is(a, "localWriteClosed")
  BY DEF WriterFail, Any, Is
<1>3. Unmixed => Excused(a)
  <2>1. CASE AppErrors /\ Unmixed /\ ~Is(a, "localWriterBroken")
    <3>1. \E x \in Side : arq[x].offers = 0
      <4>1. PICK x \in Side : [z \in Side |-> arq[z].offers][x] = 0
        BY <2>1 DEF Unmixed, Inv, Types
      <4> QED BY <4>1
    <3>2. q.offers # 0
      <4>1. a.rcvNxt - 1 <= q.fed
        BY <1>1 DEF Holds, Link, Bounded
      <4>2. a.wrote + a.writing = a.rcvNxt - 1
        BY <1>1, <2>1 DEF Good, Counted
      <4>3. q.fed <= q.offers
        BY <1>1 DEF Good, Counted
      <4>4. /\ a.rcvNxt \in Nat /\ a.wrote \in Nat /\ a.writing \in Nat
            /\ q.fed \in Nat /\ q.offers \in Nat
        BY <1>1 DEF Arq
      <4> HIDE DEF a, q, p
      <4> QED BY <1>2, <4>1, <4>2, <4>3, <4>4
    <3>3. a.offers = 0
      BY <1>1, <3>1, <3>2 DEF Side
    <3>4. a.fed = a.offers
      BY <1>1, <3>3 DEF Good, Counted, Arq
    <3> QED BY <3>4 DEF Excused
  <2>2. CASE Unmixed /\ Is(a, "localWriterBroken")
    BY <1>1, <2>2 DEF Good, Committed
  <2>3. CASE Unmixed /\ ~Is(a, "localWriterBroken") /\ (Is(a, "closed") \/ Is(a, "localWriteClosed"))
    BY <1>1, <2>3 DEF Good, Marked, Excused, Any, Is
  <2> QED BY <1>2, <2>1, <2>2, <2>3
<1> HIDE DEF a, q
<1>4. /\ t \in Arq /\ t.flags = a.flags \cup {"localWriterBroken"}
      /\ t.offers = a.offers /\ t.fed = a.fed
      /\ t.sndBuf = a.sndBuf /\ t.rxChan = a.rxChan /\ t.rcvBuf = {}
      /\ t.rcvNxt = a.rcvNxt /\ t.writing = 0 /\ t.wrote = a.wrote /\ t.io = a.io
      /\ t.deferred = a.deferred /\ t.waitingAckFor = a.waitingAckFor
      /\ t.controlSndBuf = a.controlSndBuf
  <2> DEFINE r == Raise(a, {"localWriterBroken"})
  <2>1. /\ r \in Arq /\ r.flags = a.flags \cup {"localWriterBroken"}
        /\ r.offers = a.offers /\ r.fed = a.fed /\ r.sndBuf = a.sndBuf
        /\ r.controlSndBuf = a.controlSndBuf /\ r.deferred = a.deferred
        /\ r.rxChan = a.rxChan /\ r.rcvNxt = a.rcvNxt /\ r.waitingAckFor = a.waitingAckFor
        /\ r.wrote = a.wrote /\ r.io = a.io
    BY <1>1, RaiseFields DEF Flags
  <2>2. t = [r EXCEPT !.writing = 0, !.rcvBuf = {}]
    BY DEF MarkLocalWriterBroken
  <2> HIDE DEF r, t
  <2> QED BY <2>1, <2>2 DEF Arq
<1> HIDE DEF t
<1>5. Good(s, t)
  <2>1. Counted(t)
    <3>1. /\ a.wrote \in Nat /\ a.writing \in Nat /\ a.rcvNxt \in Nat
          /\ a.wrote + a.writing <= a.rcvNxt - 1
      BY <1>1 DEF Good, Counted, Arq
    <3>2. t.wrote + t.writing <= t.rcvNxt - 1
      BY <1>4, <3>1
    <3>3. Is(t, "localWriterBroken")
      BY <1>4 DEF Is
    <3> QED BY <1>1, <1>4, <3>2, <3>3 DEF Good, Counted, Sent
  <2>2. Marked(t) /\ Committed(s, t)
    BY <1>1, <1>3, <1>4 DEF Good, Marked, Committed, Tracked, Excused, Is, Any
  <2> QED BY <1>4, <2>1, <2>2 DEF Good
<1>6. Link(s, t, arq[p], data[p], acks[s], ctl[p])
  BY <1>1, <1>4, SameSender DEF Holds, Is
<1>7. Link(p, arq[p], t, data[s], acks[p], ctl[s])
  BY <1>1, <1>4 DEF Holds, Link, Bounded, Acknowledged, Kept, Announced, Delivered,
                    Done, Gave, Any, Is
<1>8. Holds(s, t, data, acks, ctl)
  <2>1. ~Is(a, "closed") \/ Gave(a)
    BY <1>1, <1>2 DEF Good, Counted
  <2>2. Moved(a, t)
    BY <1>4, <2>1 DEF Moved
  <2> QED BY <1>1, <1>4, <1>5, <1>6, <1>7, <2>2 DEF Holds, a
<1>9. Unmixed => Excused(t)
  BY <1>3, <1>4 DEF Excused, Any
<1>10. Fine(s, t, m)
  BY <1>5, <1>9, CloseFine DEF Terminal
<1> HIDE DEF m
<1>11. Fine(s, m, [m EXCEPT !.writer = "done"])
  BY <1>10, WriterMoves DEF Fine
<1>12. Holds(s, [m EXCEPT !.writer = "done"], data, acks, ctl)
  BY <1>8, <1>10, <1>11, FineOn, HoldsOn
<1> QED BY <1>2, <1>12, LocalStep DEF WriterFail

-----------------------------------------------------------------------------
(* The handlers of terminal packets, and the timers. *)

\* CLOSE_READ arrives: the peer has sent it.
LEMMA CloseReadHolds ==
  ASSUME Inv, NEW s \in Side, [type |-> "CLOSE_READ", ack |-> FALSE] \in ctl[s]
  PROVE  Holds(s, MarkCloseReadReceived(s, arq[s]), data, acks, ctl)
<1> DEFINE a == arq[s]
           p == Peer(s)
           r == Raise(a, {"closeReadReceived"})
           t == [r EXCEPT !.flush = TRUE]
<1>1. Holds(s, a, data, acks, ctl) /\ a \in Arq /\ Good(s, a)
  BY HoldsNow, AtRest
<1>2. MarkCloseReadReceived(s, a) = TryFinalizeRemoteEOF(s, t)
  BY DEF MarkCloseReadReceived
<1> HIDE DEF a
<1>3. /\ t \in Arq /\ t.flags = a.flags \cup {"closeReadReceived"}
      /\ t.offers = a.offers /\ t.fed = a.fed /\ t.sndBuf = a.sndBuf
      /\ t.rcvBuf = a.rcvBuf /\ t.controlSndBuf = a.controlSndBuf /\ t.deferred = a.deferred
      /\ t.rxChan = a.rxChan /\ t.rcvNxt = a.rcvNxt /\ t.waitingAckFor = a.waitingAckFor
      /\ t.writing = a.writing /\ t.wrote = a.wrote /\ t.io = a.io
  <2>1. /\ r \in Arq /\ r.flags = a.flags \cup {"closeReadReceived"}
        /\ r.offers = a.offers /\ r.fed = a.fed /\ r.sndBuf = a.sndBuf
        /\ r.rcvBuf = a.rcvBuf /\ r.controlSndBuf = a.controlSndBuf /\ r.deferred = a.deferred
        /\ r.rxChan = a.rxChan /\ r.rcvNxt = a.rcvNxt /\ r.waitingAckFor = a.waitingAckFor
        /\ r.writing = a.writing /\ r.wrote = a.wrote /\ r.io = a.io
    BY <1>1, RaiseFields DEF Flags
  <2> HIDE DEF r
  <2> QED BY <2>1 DEF Arq
<1> HIDE DEF t
<1>4. Good(s, t)
  BY <1>1, <1>3 DEF Good, Counted, Gave, Marked, Committed, Tracked, Excused, Sent, Is, Any
<1>5. Link(s, t, arq[p], data[p], acks[s], ctl[p])
  BY <1>1, <1>3, SameSender DEF Holds, Is
<1>6. Link(p, arq[p], t, data[s], acks[p], ctl[s])
  <2> DEFINE b == arq[p]
  <2>0. Link(p, b, a, data[s], acks[p], ctl[s])
    BY <1>1 DEF Holds
  <2>1. /\ Done(t) <=> Done(a)
        /\ Gave(t) <=> Gave(a)
        /\ Is(t, "closed") <=> Is(a, "closed")
        /\ Is(t, "closeReadReceived")
        /\ Stored(t) = Stored(a)
    BY <1>3 DEF Done, Gave, Any, Is, Stored
  <2> HIDE DEF b, p
  <2>2. Bounded(b, t, data[s], acks[p])
    BY <1>3, <2>0 DEF Link, Bounded
  <2>3. Acknowledged(t, acks[p]) /\ Kept(b, t)
    BY <2>0, <2>1 DEF Link, Acknowledged, Kept
  <2>4. Announced(b, t, ctl[s])
    BY <2>0 DEF Link, Announced
  <2>5. Delivered(p, b, t)
    BY <1>3, <2>0, <2>1 DEF Link, Delivered
  <2> QED BY <2>2, <2>3, <2>4, <2>5 DEF Link, b
<1>7. Holds(s, t, data, acks, ctl)
  <2>1. Gave(t) => Gave(a)
    BY <1>3 DEF Gave, Any
  <2> QED BY <1>1, <1>3, <1>4, <1>5, <1>6, <2>1, MovedOn DEF Holds
<1>8. Holds(s, TryFinalizeRemoteEOF(s, t), data, acks, ctl)
  BY <1>4, <1>7, TryFinalizeFine, HoldsOn
<1> QED BY <1>2, <1>8 DEF a

\* CLOSE_WRITE arrives: the peer's writer broke, and what is unacknowledged is not needed.
LEMMA CloseWriteHolds ==
  ASSUME Inv, NEW s \in Side, [type |-> "CLOSE_WRITE", ack |-> FALSE] \in ctl[s]
  PROVE  Holds(s, MarkCloseWriteReceived(s, arq[s]), data, acks, ctl)
<1> DEFINE a == arq[s]
           p == Peer(s)
           q == arq[p]
           r == Raise(a, {"closeWriteReceived", "stopLocalRead"})
           t == [r EXCEPT !.sndBuf = {}]
           m == SettleTerminalDrain(s, t)
<1>1. Holds(s, a, data, acks, ctl) /\ a \in Arq /\ Good(s, a)
  BY HoldsNow, AtRest
<1>2. MarkCloseWriteReceived(s, a) = TryFinalizeRemoteEOF(s, m)
  BY DEF MarkCloseWriteReceived
<1>3. Done(q)
  <2>1. Link(p, q, a, data[s], acks[p], ctl[s])
    BY <1>1 DEF Holds
  <2> HIDE DEF q, a
  <2> QED BY <2>1 DEF Link, Announced, Done, Gave, Any, Is
<1> HIDE DEF a
<1>4. /\ t \in Arq /\ t.flags = a.flags \cup {"closeWriteReceived", "stopLocalRead"}
      /\ t.offers = a.offers /\ t.fed = a.fed /\ t.sndBuf = {}
      /\ t.rcvBuf = a.rcvBuf /\ t.controlSndBuf = a.controlSndBuf /\ t.deferred = a.deferred
      /\ t.rxChan = a.rxChan /\ t.rcvNxt = a.rcvNxt /\ t.waitingAckFor = a.waitingAckFor
      /\ t.writing = a.writing /\ t.wrote = a.wrote /\ t.io = a.io
  <2>1. /\ r \in Arq /\ r.flags = a.flags \cup {"closeWriteReceived", "stopLocalRead"}
        /\ r.offers = a.offers /\ r.fed = a.fed
        /\ r.rcvBuf = a.rcvBuf /\ r.controlSndBuf = a.controlSndBuf /\ r.deferred = a.deferred
        /\ r.rxChan = a.rxChan /\ r.rcvNxt = a.rcvNxt /\ r.waitingAckFor = a.waitingAckFor
        /\ r.writing = a.writing /\ r.wrote = a.wrote /\ r.io = a.io
    BY <1>1, RaiseFields DEF Flags
  <2> HIDE DEF r
  <2> QED BY <2>1 DEF Arq
<1> HIDE DEF t
<1>5. Good(s, t)
  BY <1>1, <1>4 DEF Good, Counted, Gave, Marked, Committed, Tracked, Excused, Sent, Is, Any
<1>6. Link(s, t, q, data[p], acks[s], ctl[p])
  <2>0. Link(s, a, q, data[p], acks[s], ctl[p])
    BY <1>1 DEF Holds
  <2> HIDE DEF q, p
  <2> QED BY <1>3, <1>4, <2>0
          DEF Link, Bounded, Acknowledged, Kept, Announced, Delivered, Covered, Sent, Is
<1>7. Link(p, q, t, data[s], acks[p], ctl[s])
  <2>0. Link(p, q, a, data[s], acks[p], ctl[s])
    BY <1>1 DEF Holds
  <2> HIDE DEF q, p
  <2> QED BY <1>4, <2>0
          DEF Link, Bounded, Acknowledged, Kept, Announced, Delivered, Done, Gave, Any, Is, Stored
<1>8. Holds(s, t, data, acks, ctl)
  <2>1. Gave(t) => Gave(a)
    BY <1>4 DEF Gave, Any
  <2> QED BY <1>1, <1>4, <1>5, <1>6, <1>7, <2>1, MovedOn DEF Holds
<1>9. Fine(s, t, m)
  BY <1>5, SettleFine
<1> HIDE DEF m
<1>10. Fine(s, m, TryFinalizeRemoteEOF(s, m))
  BY <1>9, TryFinalizeFine DEF Fine
<1>11. Holds(s, TryFinalizeRemoteEOF(s, m), data, acks, ctl)
  BY <1>8, <1>9, <1>10, FineOn, HoldsOn
<1> QED BY <1>2, <1>11 DEF a

\* Every terminal packet is acknowledged, and an acknowledgement announces nothing.
LEMMA ReceiveTerminalStep ==
  ASSUME Inv, NEW s \in Side, NEW pk, ReceiveTerminal(s, pk) PROVE Stepped(s)
<1> DEFINE a == arq[s]
           p == Peer(s)
           m == IF pk.ack THEN ReceiveControlAck(s, a, pk.type)
                ELSE IF Is(a, "closed") THEN a
                ELSE CASE pk.type = "CLOSE_READ"  -> MarkCloseReadReceived(s, a)
                       [] pk.type = "CLOSE_WRITE" -> MarkCloseWriteReceived(s, a)
                       [] pk.type = "RST"         -> PeerReset(a)
           ackOf == [pk EXCEPT !.ack = TRUE]
<1>1. Holds(s, a, data, acks, ctl) /\ a \in Arq /\ Good(s, a)
  BY HoldsNow, AtRest
<1>2. arq' = [arq EXCEPT ![s] = m] /\ data' = data /\ acks' = acks
  BY DEF ReceiveTerminal, Become
<1>3. pk \in ctl[s] /\ pk \in Control /\ ctl \in [Side -> SUBSET Control]
  BY DEF ReceiveTerminal, Inv, Types
<1>4. /\ pk.type \in Terminal /\ pk.ack \in BOOLEAN
      /\ pk = [type |-> pk.type, ack |-> pk.ack]
      /\ ackOf \in Control /\ ackOf.ack = TRUE
  BY <1>3 DEF Control
<1> HIDE DEF ackOf
<1>5. /\ ctl' \in [Side -> SUBSET Control] /\ ctl'[s] \subseteq ctl[s]
      /\ ctl'[p] \subseteq ctl[p] \cup {ackOf}
  <2>1. ctl' = [ctl EXCEPT ![s] = IF LateCopies THEN @ ELSE @ \ {pk},
                           ![p] = IF pk.ack THEN @ ELSE @ \cup {ackOf}]
    BY DEF ReceiveTerminal, ackOf
  <2> QED BY <1>3, <1>4, <2>1, PeerFacts
<1>6. Holds(s, m, data, acks, ctl)
  <2>1. CASE pk.ack
    <3>1. Fine(s, a, ReceiveControlAck(s, a, pk.type))
      BY <1>1, <1>4, ControlAckFine
    <3> QED BY <1>1, <2>1, <3>1, HoldsOn
  <2>2. CASE ~pk.ack /\ Is(a, "closed")
    BY <1>1, <2>2
  <2>3. CASE ~pk.ack /\ ~Is(a, "closed") /\ pk.type = "CLOSE_READ"
    <3>1. [type |-> "CLOSE_READ", ack |-> FALSE] \in ctl[s]
      BY <1>3, <1>4, <2>3
    <3> QED BY <2>3, <3>1, CloseReadHolds
  <2>4. CASE ~pk.ack /\ ~Is(a, "closed") /\ pk.type = "CLOSE_WRITE"
    <3>1. [type |-> "CLOSE_WRITE", ack |-> FALSE] \in ctl[s]
      BY <1>3, <1>4, <2>4
    <3>2. m = MarkCloseWriteReceived(s, a)
      BY <2>4
    <3> HIDE DEF m
    <3> QED BY <3>1, <3>2, CloseWriteHolds
  <2>5. CASE ~pk.ack /\ ~Is(a, "closed") /\ pk.type = "RST"
    <3>1. m = PeerReset(a)
      BY <2>5
    <3> HIDE DEF m
    <3> QED BY <1>1, <2>5, <3>1, PeerResetFine, HoldsOn
  <2> QED BY <1>4, <2>1, <2>2, <2>3, <2>4, <2>5 DEF Terminal
<1>7. /\ [type |-> "CLOSE_READ", ack |-> FALSE] # ackOf
      /\ [type |-> "CLOSE_WRITE", ack |-> FALSE] # ackOf
  BY <1>4
<1> HIDE DEF m, a
<1>8. Holds(s, m, data', acks', ctl')
  BY <1>2, <1>5, <1>6, <1>7, PathFacts, HoldsPath
<1> QED BY <1>1, <1>2, <1>5, <1>8, PathFacts, HoldsThen

LEMMA GraceElapsedStep ==
  ASSUME Inv, NEW s \in Side, GraceElapsed(s) PROVE Stepped(s)
<1> DEFINE a == arq[s]
           m == Close(s, a, "CLOSE_WRITE", FALSE)
<1>1. Excused(a)
  BY DEF GraceElapsed, Excused, Any
<1>2. Fine(s, a, m)
  BY <1>1, AtRest, CloseFine DEF Terminal
<1>3. Holds(s, m, data, acks, ctl)
  BY <1>2, HoldsNow, HoldsOn
<1> QED BY <1>3, LocalStep DEF GraceElapsed

LEMMA DeadlinePassedStep ==
  ASSUME Inv, NEW s \in Side, DeadlinePassed(s) PROVE Stepped(s)
<1> DEFINE a == arq[s]
           u == [a EXCEPT !.deferred = "none"]
<1>1. Holds(s, a, data, acks, ctl) /\ a \in Arq /\ Good(s, a)
  BY HoldsNow, AtRest
<1>2. ASSUME NEW b, Fine(s, a, b)
      PROVE  Holds(s, Close(s, b, "RST", FALSE), data, acks, ctl)
  <2>1. Fine(s, b, Close(s, b, "RST", FALSE))
    BY <1>2, CloseFine DEF Fine, Terminal
  <2> QED BY <1>1, <1>2, <2>1, FineOn, HoldsOn
<1>3. ASSUME NEW b, Fine(s, a, b), Tracked(a, "RST")
      PROVE  Holds(s, FinalizeClose(b), data, acks, ctl)
  <2>1. Gave(b) /\ Good(s, b)
    BY <1>1, <1>3 DEF Good, Marked, Fine, Leads, Gave, Any, Is
  <2>2. Fine(s, b, FinalizeClose(b))
    BY <2>1, FinalizeCloseFine
  <2> QED BY <1>1, <1>3, <2>2, FineOn, HoldsOn
<1>4. Fine(s, a, a) /\ Fine(s, a, u)
  <2>1. /\ u \in Arq /\ u.flags = a.flags /\ u.offers = a.offers /\ u.fed = a.fed
        /\ u.sndBuf = a.sndBuf /\ u.rxChan = a.rxChan /\ u.rcvBuf = a.rcvBuf /\ u.rcvNxt = a.rcvNxt
        /\ u.writing = a.writing /\ u.wrote = a.wrote /\ u.io = a.io
        /\ u.deferred = "none" /\ u.waitingAckFor = a.waitingAckFor
        /\ u.controlSndBuf = a.controlSndBuf
    BY <1>1 DEF Arq
  <2> HIDE DEF u, a
  <2> QED BY <1>1, <2>1, BookFine, FineItself
<1>5. ASSUME NEW t \in a.controlSndBuf
      PROVE  Fine(s, a, [a EXCEPT !.controlSndBuf = @ \ {t}])
  <2> DEFINE b == [a EXCEPT !.controlSndBuf = @ \ {t}]
  <2>1. /\ b \in Arq /\ b.flags = a.flags /\ b.offers = a.offers /\ b.fed = a.fed
        /\ b.sndBuf = a.sndBuf /\ b.rxChan = a.rxChan /\ b.rcvBuf = a.rcvBuf /\ b.rcvNxt = a.rcvNxt
        /\ b.writing = a.writing /\ b.wrote = a.wrote /\ b.io = a.io
        /\ b.deferred = a.deferred /\ b.waitingAckFor = a.waitingAckFor
        /\ b.controlSndBuf = a.controlSndBuf \ {t}
    BY <1>1 DEF Arq
  <2> HIDE DEF b, a
  <2>2. Fine(s, a, b)
    BY <1>1, <2>1, BookFine
  <2> QED BY <2>2 DEF b, a
<1>6. PICK m : Become(s, m) /\ Holds(s, m, data, acks, ctl)
  <2>1. CASE Become(s, Close(s, u, "RST", FALSE))
    <3> HIDE DEF u
    <3> QED BY <1>2, <1>4, <2>1
  <2>2. CASE Become(s, Close(s, a, "RST", FALSE))
    BY <1>2, <1>4, <2>2
  <2>3. CASE a.waitingAckFor = "RST" /\ Become(s, FinalizeClose(a))
    BY <1>3, <1>4, <2>3 DEF Tracked
  <2>4. CASE \E t \in a.controlSndBuf :
               LET b == [a EXCEPT !.controlSndBuf = @ \ {t}]
               IN Become(s, IF t = "RST" THEN FinalizeClose(b) ELSE Close(s, b, "RST", FALSE))
    <3>1. PICK t \in a.controlSndBuf :
               LET b == [a EXCEPT !.controlSndBuf = @ \ {t}]
               IN Become(s, IF t = "RST" THEN FinalizeClose(b) ELSE Close(s, b, "RST", FALSE))
      BY <2>4
    <3> DEFINE b == [a EXCEPT !.controlSndBuf = @ \ {t}]
    <3>2. Fine(s, a, b)
      BY <1>5
    <3>3. Become(s, IF t = "RST" THEN FinalizeClose(b) ELSE Close(s, b, "RST", FALSE))
      BY <3>1
    <3> HIDE DEF b
    <3> QED BY <1>2, <1>3, <3>2, <3>3 DEF Tracked
  <2> QED BY <2>1, <2>2, <2>3, <2>4 DEF DeadlinePassed
<1> QED BY <1>6, LocalStep DEF DeadlinePassed

-----------------------------------------------------------------------------
(* The invariant, and what follows from it. *)

LEMMA InitInv == Init => Inv
<1> SUFFICES ASSUME Init PROVE Inv
  OBVIOUS
<1>1. PICK load \in Workloads : arq = [s \in Side |-> NewARQ(load[s])]
  BY DEF Init
<1>2. load \in [Side -> Nat]
  BY CloseAssumption
<1>3. ASSUME NEW n \in Nat
      PROVE  LET a == NewARQ(n) IN
             /\ a \in Arq /\ a.flags = {} /\ a.offers = n /\ a.fed = 0 /\ a.sndBuf = {}
             /\ a.rxChan = {} /\ a.rcvBuf = {} /\ a.rcvNxt = 1 /\ a.writing = 0 /\ a.wrote = 0
             /\ a.deferred = "none" /\ a.waitingAckFor = "none" /\ a.controlSndBuf = {}
  BY DEF NewARQ, Arq
<1>4. ASSUME NEW s \in Side
      PROVE  /\ arq[s] \in Arq /\ arq[s].flags = {} /\ arq[s].offers = load[s] /\ arq[s].fed = 0
             /\ arq[s].sndBuf = {} /\ arq[s].rxChan = {} /\ arq[s].rcvBuf = {}
             /\ arq[s].rcvNxt = 1 /\ arq[s].writing = 0 /\ arq[s].wrote = 0
             /\ arq[s].deferred = "none" /\ arq[s].waitingAckFor = "none"
             /\ arq[s].controlSndBuf = {}
             /\ data[s] = {} /\ acks[s] = {} /\ ctl[s] = {}
  <2>1. load[s] \in Nat /\ arq[s] = NewARQ(load[s])
    BY <1>1, <1>2
  <2> QED BY <2>1, <1>3 DEF Init
<1>5. Types
  <2>1. arq \in [Side -> Arq]
    BY <1>1, <1>4
  <2>2. [s \in Side |-> arq[s].offers] = load
    BY <1>2, <1>4
  <2> QED BY <2>1, <2>2, <1>1 DEF Types, Init
<1>6. ASSUME NEW s \in Side PROVE Good(s, arq[s])
  <2>1. load[s] \in Nat
    BY <1>2
  <2> DEFINE a == arq[s]
  <2>2. /\ a \in Arq /\ a.flags = {} /\ a.offers \in Nat /\ a.fed = 0
        /\ a.sndBuf = {} /\ a.rcvNxt = 1 /\ a.writing = 0 /\ a.wrote = 0
        /\ a.deferred = "none" /\ a.waitingAckFor = "none" /\ a.controlSndBuf = {}
    BY <1>4, <2>1
  <2> HIDE DEF a
  <2>3. Good(s, a)
    BY <2>2 DEF Good, Counted, Gave, Marked, Committed, Tracked, Excused, Sent, Is, Any
  <2> QED BY <2>3 DEF a
<1>7. ASSUME NEW s \in Side PROVE Linked(s)
  <2> DEFINE a == arq[s]
             b == arq[Peer(s)]
             d == data[Peer(s)]
             k == acks[s]
             c == ctl[Peer(s)]
  <2>1. /\ a.fed = 0 /\ a.flags = {}
        /\ b.flags = {} /\ b.rxChan = {} /\ b.rcvBuf = {} /\ b.rcvNxt = 1
        /\ d = {} /\ k = {} /\ c = {}
    BY <1>4, PeerFacts
  <2> HIDE DEF a, b, d, k, c
  <2>2. Sent(a) = {}
    BY <2>1 DEF Sent
  <2>3. Link(s, a, b, d, k, c)
    BY <2>1, <2>2 DEF Link, Bounded, Acknowledged, Kept, Announced, Delivered, Is
  <2> QED BY <2>3 DEF Linked, a, b, d, k, c
<1> QED BY <1>5, <1>6, <1>7 DEF Inv

LEMMA NextSteps ==
  ASSUME Inv, Next
  PROVE  \E s \in Side : Stepped(s)
<1> PICK s \in Side :
      \/ IoLoop(s) \/ IoError(s)
      \/ \E c \in arq[s].sndBuf : SendData(s, c)
      \/ \E c \in data[s] : ReceiveData(s, c)
      \/ \E c \in arq[s].rxChan : ProcessReceivedData(s, c)
      \/ RxDrain(s)
      \/ \E c \in acks[s] : ReceiveAck(s, c)
      \/ WriteLoop(s)
      \/ \E t \in arq[s].controlSndBuf : SendTerminal(s, t)
      \/ \E p \in ctl[s] : ReceiveTerminal(s, p)
      \/ GraceElapsed(s) \/ DeadlinePassed(s)
  BY DEF Next
<1>1. CASE IoLoop(s) \/ IoError(s)
  BY <1>1, IoCheckStep, IoDataStep, IoTimeoutStep, IoEOFStep, IoErrorStep DEF IoLoop
<1>2. CASE \E c \in arq[s].sndBuf : SendData(s, c)
  BY <1>2, SendDataStep
<1>3. CASE \E c \in data[s] : ReceiveData(s, c)
  BY <1>3, ReceiveDataStep
<1>4. CASE \E c \in arq[s].rxChan : ProcessReceivedData(s, c)
  BY <1>4, ProcessReceivedDataStep
<1>5. CASE RxDrain(s)
  BY <1>5, RxDrainStep
<1>6. CASE \E c \in acks[s] : ReceiveAck(s, c)
  BY <1>6, ReceiveAckStep
<1>7. CASE WriteLoop(s)
  BY <1>7, WriterWakeStep, WriterScanStep, WriterIdleStep, WriterWriteStep, WriterFailStep
     DEF WriteLoop
<1>8. CASE \E t \in arq[s].controlSndBuf : SendTerminal(s, t)
  BY <1>8, SendTerminalStep
<1>9. CASE \E p \in ctl[s] : ReceiveTerminal(s, p)
  BY <1>9, ReceiveTerminalStep
<1>10. CASE GraceElapsed(s)
  BY <1>10, GraceElapsedStep
<1>11. CASE DeadlinePassed(s)
  BY <1>11, DeadlinePassedStep
<1> QED BY <1>1, <1>2, <1>3, <1>4, <1>5, <1>6, <1>7, <1>8, <1>9, <1>10, <1>11

LEMMA NextInv == Inv /\ [Next]_vars => Inv'
<1> SUFFICES ASSUME Inv, [Next]_vars PROVE Inv'
  OBVIOUS
<1>1. CASE UNCHANGED vars
  BY <1>1 DEF vars, Inv, Types, Linked
<1>2. CASE Next
  BY <1>2, NextSteps DEF Stepped
<1> QED BY <1>1, <1>2

\* The inductive invariant holds whatever fails, is lost, late or repeated.
THEOREM Invariance == Spec => []Inv
BY InitInv, NextInv, PTL DEF Spec

LEMMA InvTypeOK == Inv => TypeOK
<1> SUFFICES ASSUME Inv PROVE TypeOK
  OBVIOUS
<1>1. ASSUME NEW s \in Side
      PROVE  /\ data[s] \subseteq 1 .. arq[Peer(s)].offers
             /\ acks[s] \subseteq 1 .. arq[s].offers
             /\ ctl[s] \subseteq Control
  <2> DEFINE p == Peer(s)
  <2>1. ASSUME NEW x \in Side PROVE Sent(arq[x]) \subseteq 1 .. arq[x].offers
    BY AtRest DEF Good, Counted, Arq, Sent
  <2>2. Holds(s, arq[s], data, acks, ctl) /\ p \in Side
    BY HoldsNow, PeerFacts
  <2>3. data[s] \subseteq Sent(arq[p]) /\ acks[s] \subseteq Sent(arq[s]) /\ ctl[s] \subseteq Control
    BY <2>2, PathFacts
  <2> QED BY <2>1, <2>2, <2>3
<1> QED BY <1>1 DEF TypeOK, Inv, Types

\* What a receiver that has not given up knows of what CLOSE_READ covers.
LEMMA Received ==
  ASSUME Inv, NEW s \in Side, ~GivenUp(s)
  PROVE  LET a == arq[Peer(s)]
             b == arq[s]
         IN /\ a.fed \in Nat /\ b.wrote \in Nat /\ b.wrote <= a.fed
            /\ Is(b, "closed") =>
                 /\ Covered(Peer(s), a) \subseteq 1 .. b.wrote
                 /\ Whole(Peer(s)) => a.fed = a.offers
            /\ Is(b, "closeReadReceived") /\ ~Is(b, "closed") =>
                 Covered(Peer(s), a) \subseteq Stored(b)
<1> DEFINE b == arq[s]
           p == Peer(s)
           a == arq[p]
<1>1. /\ Link(p, a, b, data[s], acks[p], ctl[s])
      /\ Good(s, b) /\ Good(p, a)
  BY HoldsNow, AtRest DEF Holds
<1>2. ~Gave(b)
  BY DEF GivenUp, Gave
<1> HIDE DEF a, b, p
<1>3. a.fed \in Nat /\ b.wrote \in Nat /\ b.wrote <= a.fed
  <2>1. /\ a.fed \in Nat /\ b.wrote \in Nat /\ b.writing \in Nat /\ b.rcvNxt \in Nat
        /\ b.wrote + b.writing = b.rcvNxt - 1
    BY <1>1, <1>2 DEF Good, Counted, Arq, Gave, Any, Is
  <2>2. b.rcvNxt - 1 <= a.fed
    BY <1>1 DEF Link, Bounded
  <2> QED BY <2>1, <2>2
<1>4. Is(b, "closeReadReceived") => Is(a, "closeReadSent")
  BY <1>1 DEF Link, Announced
<1>5. Is(b, "closed") => Is(b, "closeReadReceived") /\ Covered(p, a) \subseteq 1 .. b.wrote
  BY <1>1, <1>2 DEF Link, Delivered
<1>6. Whole(p) /\ Is(a, "closeReadSent") => a.fed = a.offers
  BY <1>1 DEF Good, Committed
<1>7. Is(b, "closeReadReceived") /\ ~Is(b, "closed") => Covered(p, a) \subseteq Stored(b)
  BY <1>1, <1>2, <1>4 DEF Link, Delivered, Done
<1> QED BY <1>3, <1>4, <1>5, <1>6, <1>7 DEF a, b, p

\* From a sender whose CLOSE_READ covers everything that is all its application sent.
LEMMA ReceivedWhole ==
  ASSUME Inv, NEW s \in Side, Whole(Peer(s)), ~GivenUp(s)
  PROVE  /\ Is(arq[s], "closed") => arq[s].wrote = arq[Peer(s)].offers
         /\ Is(arq[s], "closeReadReceived") /\ ~Is(arq[s], "closed")
              => 1 .. arq[Peer(s)].fed \subseteq 1 .. arq[s].rcvNxt - 1 \cup arq[s].rcvBuf
<1> DEFINE p == Peer(s)
           a == arq[p]
           b == arq[s]
<1>1. /\ a.fed \in Nat /\ b.wrote \in Nat /\ b.wrote <= a.fed
      /\ Is(b, "closed") => Covered(p, a) \subseteq 1 .. b.wrote /\ a.fed = a.offers
      /\ Is(b, "closeReadReceived") /\ ~Is(b, "closed") => Covered(p, a) \subseteq Stored(b)
  BY Received
<1>2. Covered(p, a) = Sent(a)
  BY DEF Covered
<1> HIDE DEF p, a, b
<1>3. ASSUME Is(b, "closed") PROVE b.wrote = a.offers
  <2>1. a.fed # 0 => a.fed \in Sent(a)
    BY <1>1 DEF Sent
  <2> QED BY <1>1, <1>2, <1>3, <2>1
<1> QED BY <1>1, <1>2, <1>3 DEF Sent, Stored, p, a, b

\* A stream that ends by the close handshake has delivered everything, for any numbers of
\* chunks and any losses, copies, failures and timeouts (tryFinalizeRemoteEOF,
\* settleTerminalDrain), unless both applications send and one of them fails.
THEOREM EndsComplete ==
  ASSUME Unmixed
  PROVE  Spec => []CompleteAtClose
<1>1. Inv => CompleteAtClose
  BY InvTypeOK, ReceivedWhole DEF CompleteAtClose, Whole
<1> QED BY <1>1, Invariance, PTL

\* And whoever has the peer's CLOSE_READ has all the data, unless it gave them up
\* (deferTerminalPacket, processReceivedData).
THEOREM EOFIsLast ==
  ASSUME Unmixed
  PROVE  Spec => []EOFAfterData
<1>1. Inv => EOFAfterData
  BY ReceivedWhole DEF EOFAfterData, Whole
<1> QED BY <1>1, Invariance, PTL

\* The client has both without that exception, since only a client sends CLOSE_READ while
\* it may still read (maybeInitiateClientCloseRead): everything that the server's
\* application sent is written when the client's end closes in good order, even if both
\* send and fail.
DownloadComplete ==
  ~GivenUp("client") =>
    /\ Is(arq["client"], "closed") => arq["client"].wrote = arq["server"].offers
    /\ Is(arq["client"], "closeReadReceived") /\ ~Is(arq["client"], "closed")
         => 1 .. arq["server"].fed \subseteq 1 .. arq["client"].rcvNxt - 1 \cup arq["client"].rcvBuf

THEOREM DownloadsEndComplete == Spec => []DownloadComplete
<1>1. "client" \in Side /\ Peer("client") = "server" /\ Whole("server")
  BY DEF Side, Peer, Whole
<1>2. Inv => DownloadComplete
  <2> SUFFICES ASSUME Inv, ~GivenUp("client") PROVE DownloadComplete
    BY DEF DownloadComplete
  <2> QED BY <1>1, ReceivedWhole DEF DownloadComplete
<1> QED BY <1>2, Invariance, PTL

\* And the server misses one chunk at most: of what the client read, its application gets
\* everything but the chunk of the read that was under way when CLOSE_READ was sent
\* (ioLoop looks at stopLocalRead before each read, and a client whose writer broke sends
\* CLOSE_READ during one).
UploadLosesOne ==
  ~GivenUp("server") =>
    /\ Is(arq["server"], "closed") => arq["client"].fed <= arq["server"].wrote + 1
    /\ Is(arq["server"], "closeReadReceived") /\ ~Is(arq["server"], "closed")
         => 1 .. arq["client"].fed - 1
              \subseteq 1 .. arq["server"].rcvNxt - 1 \cup arq["server"].rcvBuf

THEOREM UploadsLoseOne == Spec => []UploadLosesOne
<1>1. "server" \in Side /\ Peer("server") = "client"
  BY DEF Side, Peer
<1>2. Inv => UploadLosesOne
  <2> SUFFICES ASSUME Inv, ~GivenUp("server") PROVE UploadLosesOne
    BY DEF UploadLosesOne
  <2> DEFINE a == arq["client"]
             b == arq["server"]
  <2>1. /\ a.fed \in Nat /\ b.wrote \in Nat
        /\ Is(b, "closed") => Covered("client", a) \subseteq 1 .. b.wrote
        /\ Is(b, "closeReadReceived") /\ ~Is(b, "closed") => Covered("client", a) \subseteq Stored(b)
    BY <1>1, Received
  <2>2. 1 .. a.fed - 1 \subseteq Covered("client", a)
    BY <2>1, CoveredIs
  <2> HIDE DEF a, b
  <2>3. ASSUME Is(b, "closed") PROVE a.fed <= b.wrote + 1
    <3>1. 1 .. a.fed - 1 \subseteq 1 .. b.wrote
      BY <2>1, <2>2, <2>3
    <3>2. CASE a.fed <= 1
      BY <2>1, <3>2
    <3>3. CASE a.fed > 1
      <4>1. a.fed - 1 \in 1 .. a.fed - 1
        BY <2>1, <3>3
      <4>2. a.fed - 1 \in 1 .. b.wrote
        BY <3>1, <4>1
      <4> QED BY <2>1, <4>2
    <3> QED BY <2>1, <3>2, <3>3
  <2> QED BY <2>1, <2>2, <2>3 DEF UploadLosesOne, Stored, a, b
<1> QED BY <1>2, Invariance, PTL

-----------------------------------------------------------------------------
(* The two ends as the applications see them: how much was read and written *)
(* at each, and whether it is over.                                         *)

EndOf(a) ==
  [offers |-> a.offers, read |-> a.fed, written |-> a.wrote,
   state |-> IF Gave(a) THEN "failed" ELSE IF Is(a, "closed") THEN "complete" ELSE "open"]

Ends == INSTANCE StreamEnds WITH ends <- [s \in Side |-> EndOf(arq[s])]

\* What a step needs to know of the two records before and after it.
EndsAgree ==
  \A s \in Side :
    /\ arq[s] \in Arq
    /\ arq[s].fed <= arq[s].offers /\ arq[s].wrote <= arq[Peer(s)].fed
    /\ Is(arq[s], "closed") /\ ~Gave(arq[s]) => arq[s].wrote = arq[Peer(s)].offers

LEMMA InvEndsAgree ==
  ASSUME Unmixed PROVE Inv => EndsAgree
<1> SUFFICES ASSUME Inv, NEW s \in Side
             PROVE  /\ arq[s] \in Arq
                    /\ arq[s].fed <= arq[s].offers /\ arq[s].wrote <= arq[Peer(s)].fed
                    /\ Is(arq[s], "closed") /\ ~Gave(arq[s]) => arq[s].wrote = arq[Peer(s)].offers
  BY DEF EndsAgree
<1> DEFINE b == arq[s]
           p == Peer(s)
           a == arq[p]
<1>1. /\ Link(p, a, b, data[s], acks[p], ctl[s])
      /\ b \in Arq /\ a \in Arq /\ Good(s, b)
  BY HoldsNow, AtRest DEF Holds
<1>2. Is(b, "closed") /\ ~Gave(b) => b.wrote = a.offers
  BY ReceivedWhole DEF GivenUp, Gave, Whole
<1> HIDE DEF a, b, p
<1>3. b.wrote + b.writing <= b.rcvNxt - 1 /\ b.rcvNxt - 1 <= a.fed /\ b.fed <= b.offers
  BY <1>1 DEF Good, Counted, Link, Bounded
<1>4. b.wrote <= a.fed
  <2>1. b.wrote \in Nat /\ b.writing \in Nat /\ b.rcvNxt \in Nat /\ a.fed \in Nat
    BY <1>1 DEF Arq
  <2> QED BY <1>3, <2>1
<1> QED BY <1>1, <1>2, <1>3, <1>4 DEF a, b, p

LEMMA EndFields ==
  ASSUME NEW a \in Arq
  PROVE  /\ EndOf(a) \in Ends!End
         /\ EndOf(a).offers = a.offers /\ EndOf(a).read = a.fed /\ EndOf(a).written = a.wrote
         /\ EndOf(a).state = IF Gave(a) THEN "failed"
                             ELSE IF Is(a, "closed") THEN "complete" ELSE "open"
<1>1. a.offers \in Nat /\ a.fed \in Nat /\ a.wrote \in Nat
  BY DEF Arq
<1> QED BY <1>1 DEF EndOf, Ends!End

LEMMA EndsInit == Init => Ends!Init
<1> SUFFICES ASSUME Init PROVE Ends!Init
  OBVIOUS
<1> DEFINE e == [s \in Side |-> EndOf(arq[s])]
<1>1. \A s \in Side : /\ e[s] \in Ends!End
                      /\ e[s].read = 0 /\ e[s].written = 0 /\ e[s].state = "open"
  <2> SUFFICES ASSUME NEW s \in Side
               PROVE  /\ EndOf(arq[s]) \in Ends!End
                      /\ EndOf(arq[s]).read = 0 /\ EndOf(arq[s]).written = 0
                      /\ EndOf(arq[s]).state = "open"
    OBVIOUS
  <2>1. arq[s] \in Arq
    BY InitInv, AtRest
  <2>2. arq[s].fed = 0 /\ arq[s].wrote = 0 /\ arq[s].flags = {}
    BY DEF Init, NewARQ
  <2> QED BY <2>1, <2>2, EndFields DEF Gave, Any, Is
<1> HIDE DEF e
<1>2. e \in [Ends!Side -> Ends!End]
  <2>1. Ends!Side = Side /\ e = [s \in Side |-> e[s]]
    BY DEF Ends!Side, Side, e
  <2> QED BY <1>1, <2>1
<1> QED BY <1>1, <1>2 DEF Ends!Init, Ends!Side, Side, e

\* A step of one side advances its end, and the other one's stays.
LEMMA EndsNext ==
  ASSUME Inv, EndsAgree, EndsAgree', Next
  PROVE  Ends!Next
<1> PICK s \in Side : Stepped(s)
  BY NextSteps
<1> DEFINE p == Peer(s)
           a == arq[s]
           b == arq'[s]
           q == arq[p]
<1>1. /\ a \in Arq /\ b \in Arq /\ q \in Arq /\ Moved(a, b) /\ b.offers = a.offers
      /\ arq'[p] = q /\ p \in Side /\ p # s /\ Side = {s, p}
      /\ b.fed <= b.offers /\ b.wrote <= q.fed
      /\ Is(b, "closed") /\ ~Gave(b) => b.wrote = q.offers
  BY PeerFacts DEF EndsAgree, Stepped, Side
<1> HIDE DEF a, b, q
<1>2. Ends!Advances(EndOf(a), EndOf(b), EndOf(q))
  <2>1. /\ a.fed \in Nat /\ b.fed \in Nat /\ a.wrote \in Nat /\ b.wrote \in Nat /\ q.fed \in Nat
        /\ a.offers \in Nat
    BY <1>1 DEF Arq
  <2>2. b.fed \in a.fed .. a.fed + 1 /\ b.fed <= a.offers /\ b.wrote \in a.wrote .. q.fed
    BY <1>1, <2>1 DEF Moved
  <2>3. Gave(a) => Gave(b)
    BY <1>1 DEF Moved, Gave, Any
  <2>4. ASSUME Is(a, "closed"), ~Gave(a) PROVE EndOf(b) = EndOf(a)
    <3>1. b.fed = a.fed /\ b.wrote = a.wrote /\ Is(b, "closed") /\ ~Gave(b)
      BY <1>1, <2>4 DEF Moved, Is
    <3> QED BY <1>1, <2>4, <3>1 DEF EndOf
  <2> QED BY <1>1, <2>2, <2>3, <2>4, EndFields DEF Ends!Advances
<1> DEFINE e == [x \in Side |-> EndOf(arq[x])]
<1>3. /\ e[s] = EndOf(a) /\ e[p] = EndOf(q) /\ e'[s] = EndOf(b) /\ e'[p] = EndOf(q)
      /\ e' \in [Side -> Ends!End]
  <2>1. \A x \in Side : e[x] = EndOf(arq[x]) /\ e'[x] = EndOf(arq'[x])
    OBVIOUS
  <2>2. e' = [x \in Side |-> e'[x]]
    OBVIOUS
  <2> HIDE DEF e
  <2>3. e[s] = EndOf(a) /\ e[p] = EndOf(q) /\ e'[s] = EndOf(b) /\ e'[p] = EndOf(q)
    BY <1>1, <2>1 DEF a, b, q
  <2>4. \A x \in Side : e'[x] \in Ends!End
    BY <1>1, <2>3, EndFields
  <2> QED BY <2>2, <2>3, <2>4
<1>4. Ends!Side = Side /\ Ends!Peer(s) = p
  BY DEF Ends!Side, Side, Ends!Peer, Peer
<1>5. /\ e' \in [Ends!Side -> Ends!End]
      /\ Ends!Advances(e[s], e'[s], e[Ends!Peer(s)])
      /\ e'[Ends!Peer(s)] = e[Ends!Peer(s)]
  BY <1>2, <1>3, <1>4
<1> QED BY <1>4, <1>5 DEF Ends!Next

\* What the two applications see of a stream is a behaviour of StreamEnds, whatever is
\* lost, copied, late or given up.  A close in good order is final: no late packet or
\* write turns it into a failure, and nothing is read after it (finalizeClose,
\* ReceiveControlAck, ioLoop, writeLoop).
THEOREM EndsRefined ==
  ASSUME Unmixed
  PROVE  Spec => Ends!Spec
<1>1. Inv => EndsAgree
  BY InvEndsAgree
<1>2. Inv /\ EndsAgree /\ EndsAgree' /\ [Next]_vars => [Ends!Next]_[s \in Side |-> EndOf(arq[s])]
  BY EndsNext DEF vars
<1> QED BY <1>1, <1>2, EndsInit, Invariance, PTL DEF Spec, Ends!Spec

=============================================================================
