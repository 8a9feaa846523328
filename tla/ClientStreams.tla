--------------------------- MODULE ClientStreams ---------------------------
(***************************************************************************)
(* client: the streams of the proxy listener.  A goroutine per accepted    *)
(* connection reads the request, takes a stream id and creates the stream; *)
(* processors handle what the server answers; the cleanup worker and the   *)
(* stop of the runtime take streams apart, and so does the ARQ itself.     *)
(*                                                                         *)
(* A stream object is an instance.  Of its ARQ only this is kept: it is    *)
(* open, ending (a reset or a close is on its way) or closed; the owner is *)
(* told of the end after it.  An id is not handed out again while a        *)
(* goroutine still works on it: between the two lie 65535 other ids, or    *)
(* the start of another session.                                           *)
(***************************************************************************)
EXTENDS Integers, Sequences, FiniteSets

CONSTANTS
  Sid,          \* stream ids, 1 .. n
  Accepted,     \* goroutines of accepted connections
  Processor,    \* goroutines that handle inbound packets
  MaxInst, MaxPackets    \* bounds of a run

ASSUME SidAssumption == IsFiniteSet(Sid) /\ Sid = 1 .. Cardinality(Sid)

VARIABLES
  protocol,     \* "SOCKS5" or "TCP"
  runtime,      \* "up", "closing" or "down"
  table,        \* active_streams: the instance of each id, 0 for none
  lastId,       \* last_stream_id
  inst,         \* inst[n]: the stream objects ever created
  recent,       \* recentlyClosedStreams
  orphans,      \* orphanQueue: what is answered without a stream
  accepted, processor, sweep,    \* where the goroutines are
  doomed,       \* instances that are out of the table and about to be closed
  packets

vars == <<protocol, runtime, table, lastId, inst, recent, orphans, accepted, processor, sweep, doomed, packets>>
records == <<recent, orphans>>

Resting == [at |-> "idle", sid |-> 0, inst |-> 0, ok |-> FALSE]
Fresh(s) == [sid |-> s, arq |-> "open", owner |-> "alive", conn |-> "open", status |-> "PENDING",
             terminal |-> FALSE, ready |-> FALSE, replies |-> <<>>]
Over == {"DRAINING", "CLOSING", "TIME_WAIT", "CLOSED"}

Init ==
  /\ protocol \in {"SOCKS5", "TCP"} /\ runtime = "up" /\ table = [s \in Sid |-> 0] /\ lastId = 0
  /\ inst = <<>> /\ recent = {} /\ orphans = {} /\ doomed = {} /\ packets = 0
  /\ accepted = [a \in Accepted |-> Resting] /\ processor = [p \in Processor |-> Resting]
  /\ sweep = [left |-> {}, inst |-> 0, saw |-> "", remove |-> {}]

Update(n, f) == inst' = [inst EXCEPT ![n] = f]
SetStatus(n, s) == Update(n, [inst[n] EXCEPT !.status = s])

\* finalizeClose: the ARQ and its connection are closed; OnARQClosed is still to come.
Closed(i) == IF i.arq = "closed" THEN i ELSE [i EXCEPT !.arq = "closed", !.conn = "closed", !.owner = "owed"]
ResettingNever(i) == i
\* Close with SendRST
Resetting(i) == IF i.arq = "open" THEN [i EXCEPT !.arq = "ending"] ELSE i

-----------------------------------------------------------------------------
(* HandleSOCKS5, HandleTCPConnect *)

Goto(a, at) == accepted' = [accepted EXCEPT ![a].at = at]

\* The listener is stopped with the runtime; what it accepted before goes on.
Request(a, next) ==
  /\ runtime = "up" /\ accepted[a].at = "idle" /\ Len(inst) < MaxInst /\ Goto(a, next)
  /\ UNCHANGED <<protocol, runtime, table, lastId, inst, records, processor, sweep, doomed, packets>>

\* A request that is refused is answered, closed, and leaves no trace.
Socks5Request(a) == protocol = "SOCKS5" /\ (Request(a, "id") \/ Request(a, "relay"))
Socks4Request(a) == protocol = "SOCKS5" /\ Request(a, "id")
TcpRequest(a)    == protocol = "TCP" /\ Request(a, "id")

\* A UDP association lasts as long as its connection.
RelayEnds(a) ==
  /\ accepted[a].at = "relay" /\ Goto(a, "idle")
  /\ UNCHANGED <<protocol, runtime, table, lastId, inst, records, processor, sweep, doomed, packets>>

Free(s)   == table[s] = 0
\* The first free id in turn; 0 when all are taken.
FirstFree ==
  LET order == [k \in 1 .. Cardinality(Sid) |-> ((lastId + k - 1) % Cardinality(Sid)) + 1]
      free == {k \in DOMAIN order : Free(order[k])}
  IN IF free = {} THEN 0 ELSE order[CHOOSE k \in free : \A j \in free : k <= j]

WorkedOn == {accepted[a].sid : a \in Accepted} \cup {processor[p].sid : p \in Processor} \cup sweep.remove

\* get_new_stream_id
NewId(a) ==
  /\ accepted[a].at = "id" /\ FirstFree \notin WorkedOn \ {0}
  /\ accepted' = [accepted EXCEPT ![a] = IF FirstFree = 0 THEN Resting
                                         ELSE [@ EXCEPT !.at = "new", !.sid = FirstFree]]
  /\ lastId' = IF FirstFree = 0 THEN lastId ELSE FirstFree
  /\ UNCHANGED <<protocol, runtime, table, inst, records, processor, sweep, doomed, packets>>

\* new_stream: the stream is in the table before it has its status.
NewStream(a) ==
  /\ accepted[a].at = "new" /\ Len(inst) < MaxInst
  /\ inst' = Append(inst, Fresh(accepted[a].sid))
  /\ table' = [table EXCEPT ![accepted[a].sid] = Len(inst) + 1]
  /\ accepted' = [accepted EXCEPT ![a].at = "status", ![a].inst = Len(inst) + 1]
  /\ UNCHANGED <<protocol, runtime, lastId, records, processor, sweep, doomed, packets>>

Connecting(a) ==
  /\ accepted[a].at = "status" /\ SetStatus(accepted[a].inst, "CONNECTING")
  /\ accepted' = [accepted EXCEPT ![a] = Resting]
  /\ UNCHANGED <<protocol, runtime, table, lastId, records, processor, sweep, doomed, packets>>

-----------------------------------------------------------------------------
(* preprocessInboundPacket for a stream that is not there *)

Orphan(type, s) ==
  CASE type = "DATA" -> {<<"RST", s>>}
    [] type = "RST_ACK" -> {}
    [] type = "RST" -> {<<"RST_ACK", s>>}
    [] s \in recent -> {<<"ACK", s>>}
    [] OTHER -> {<<"RST", s>>}

Enqueue(answers) == orphans' = orphans \cup answers
Remember(s)      == recent' = recent \cup {s}

Missing(p, s, type) ==
  /\ runtime = "up" /\ processor[p].at = "idle" /\ packets < MaxPackets /\ table[s] = 0
  /\ Enqueue(Orphan(type, s))
  /\ IF type = "RST_ACK" /\ s \notin recent THEN Remember(s) ELSE UNCHANGED recent
  /\ packets' = packets + 1
  /\ UNCHANGED <<protocol, runtime, table, lastId, inst, accepted, processor, sweep, doomed>>

-----------------------------------------------------------------------------
(* The handlers of a processor, step by step. *)

Step(p, at)  == processor' = [processor EXCEPT ![p].at = at]
Return(p)    == processor' = [processor EXCEPT ![p] = Resting]
Held(p)      == processor[p].inst
Keep         == UNCHANGED <<protocol, runtime, table, lastId, records, accepted, sweep, doomed, packets>>

Types == IF protocol = "TCP" THEN {"connected", "failed", "rst"} ELSE {"socksConnected", "socksFailed", "rst"}

\* The handler looks the stream up and holds on to it.  The server answers a
\* SYN, which is sent last.
Receive(p, s, type) ==
  /\ \A a \in Accepted : accepted[a].inst # table[s]
  /\ runtime = "up" /\ processor[p].at = "idle" /\ packets < MaxPackets /\ table[s] # 0 /\ packets' = packets + 1
  /\ processor' = [processor EXCEPT ![p] = [at |-> IF type \in {"socksConnected", "socksFailed"} THEN "lock" ELSE type,
                                            sid |-> s, inst |-> table[s], ok |-> type \in {"connected", "socksConnected"}]]
  /\ UNCHANGED <<protocol, runtime, table, lastId, inst, records, accepted, sweep, doomed>>

\* socksResultMu
LockedBy(n, q) == Held(q) = n /\ processor[q].at \in {"write", "result", "cancel"}
Unlocked(n)    == ~\E q \in Processor : LockedBy(n, q)

\* HandleSocksConnected, HandleSocksFailure: what the status allows
MayAnswer(i, ok) == i.status \notin Over /\ i.status # "SOCKS_FAILED" /\ ~(ok /\ i.status = "ACTIVE")
LockIgnoresResult(p) ==
  LET i == inst[Held(p)] IN
  /\ processor[p].at = "lock" /\ Unlocked(Held(p))
  /\ IF i.status = "CANCELLED" THEN Step(p, "late")
     ELSE IF i.status \in Over THEN Return(p) ELSE Step(p, "write")
  /\ UNCHANGED inst /\ Keep
Lock(p) ==
  LET i == inst[Held(p)] IN
  /\ processor[p].at = "lock" /\ Unlocked(Held(p))
  /\ IF i.status = "CANCELLED" THEN Step(p, "late")
     ELSE IF MayAnswer(i, processor[p].ok) THEN Step(p, "write") ELSE Return(p)
  /\ UNCHANGED inst /\ Keep

\* writeSocksConnectResultLocked: a closed connection makes the result late, and
\* an application that went away makes the write fail.
Write(p) ==
  LET i == inst[Held(p)]  refused == i.status \in Over \cup {"CANCELLED"} \/ i.terminal \/ i.conn = "closed" IN
  /\ processor[p].at = "write"
  /\ \/ refused /\ Step(p, "late") /\ UNCHANGED inst
     \/ ~refused /\ Step(p, "result") /\ Update(Held(p), [i EXCEPT !.replies = Append(@, processor[p].ok)])
     \/ ~refused /\ Step(p, "unwritten") /\ UNCHANGED inst
  /\ Keep

SetResult(p) ==
  /\ processor[p].at = "result"
  /\ SetStatus(Held(p), IF processor[p].ok THEN "ACTIVE" ELSE "SOCKS_FAILED")
  /\ Step(p, IF processor[p].ok THEN "ready" ELSE "force") /\ Keep

\* getStreamARQ looks the id up again
Again(p) == table[processor[p].sid]

Ready(p) ==
  /\ processor[p].at = "ready" /\ Return(p)
  /\ IF Again(p) = 0 THEN UNCHANGED inst ELSE Update(Again(p), [inst[Again(p)] EXCEPT !.ready = TRUE])
  /\ Keep

Late(p) ==
  /\ processor[p].at = "late" /\ Return(p)
  /\ IF Again(p) = 0 THEN UNCHANGED inst ELSE Update(Again(p), Resetting(inst[Again(p)]))
  /\ Keep

ForceClose(p) ==
  /\ processor[p].at = "force" /\ Return(p)
  /\ IF Again(p) = 0 THEN UNCHANGED inst ELSE Update(Again(p), Closed(inst[Again(p)]))
  /\ Keep

\* handlePendingSOCKSLocalClose: under the lock, then the reset
Unwritten(p) ==
  LET n == Again(p) IN
  /\ processor[p].at = "unwritten" /\ ~(n # 0 /\ ~Unlocked(n))
  /\ IF n # 0 /\ inst[n].status = "CONNECTING"
     THEN /\ Update(n, [inst[n] EXCEPT !.status = "CANCELLED", !.conn = "closed", !.terminal = TRUE])
          /\ Step(p, "late")
     ELSE Return(p) /\ UNCHANGED inst
  /\ Keep

\* handleStreamConnected, handleStreamConnectFail: no lock
StreamResult(p) ==
  LET i == inst[Held(p)] IN
  /\ processor[p].at \in {"connected", "failed"}
  /\ IF i.status \in Over \/ (i.status = "ACTIVE" /\ processor[p].ok) THEN Return(p) /\ UNCHANGED inst
     ELSE IF i.status = "CANCELLED" \/ i.terminal THEN Return(p) /\ Update(Held(p), Resetting(i))
     ELSE IF processor[p].ok THEN Step(p, "active") /\ Update(Held(p), [i EXCEPT !.ready = TRUE])
     ELSE Step(p, "fail") /\ Update(Held(p), [i EXCEPT !.terminal = TRUE])
  /\ Keep

StreamActive(p) ==
  /\ processor[p].at = "active" /\ SetStatus(Held(p), "ACTIVE") /\ Return(p) /\ Keep

StreamFail(p) ==
  /\ processor[p].at = "fail"
  /\ Update(Held(p), Closed([inst[Held(p)] EXCEPT !.status = "TIME_WAIT"])) /\ Return(p) /\ Keep

\* HandleStreamPacket for PACKET_STREAM_RST: close, mark, look at the status, set it.
Rst(p) ==
  /\ processor[p].at = "rst" /\ Update(Held(p), Closed(inst[Held(p)])) /\ Step(p, "rstMark") /\ Keep
RstMark(p) ==
  /\ processor[p].at = "rstMark" /\ Update(Held(p), [inst[Held(p)] EXCEPT !.terminal = TRUE])
  /\ IF inst[Held(p)].status = "CANCELLED" THEN Return(p) ELSE Step(p, "rstSet")
  /\ Keep
RstSet(p) == processor[p].at = "rstSet" /\ SetStatus(Held(p), "TIME_WAIT") /\ Return(p) /\ Keep

\* consumeInboundStreamAck: the acknowledgement of a reset or a close
CloseAck(p, s) ==
  LET n == table[s] IN
  /\ runtime = "up" /\ processor[p].at = "idle" /\ packets < MaxPackets /\ n # 0 /\ packets' = packets + 1
  /\ inst[n].arq = "closed" \/ (inst[n].arq = "ending" /\ inst[n].status = "CANCELLED")
  /\ Update(n, [inst[n] EXCEPT !.terminal = TRUE, !.status = IF @ = "CANCELLED" THEN @ ELSE "TIME_WAIT"])
  /\ Remember(s) \/ UNCHANGED recent
  /\ UNCHANGED <<protocol, runtime, table, lastId, orphans, accepted, processor, sweep, doomed>>

-----------------------------------------------------------------------------
(* The end of a stream *)

Rest == UNCHANGED <<protocol, runtime, lastId, orphans, accepted, processor, packets>>

\* The ARQ ends: either side closes, or it reaches an inactivity or retry limit.
ArqEnds(n) ==
  /\ inst[n].arq # "closed"
  /\ \/ inst[n].arq = "open" /\ Update(n, [inst[n] EXCEPT !.arq = "ending"])
     \/ Update(n, Closed(inst[n]))
  /\ UNCHANGED <<table, recent, sweep, doomed>> /\ Rest

\* OnARQClosed: finalizeAfterARQClose runs once.  It deletes its own entry only.
FinalizeAny(n) ==
  /\ inst[n].owner = "owed"
  /\ Update(n, [inst[n] EXCEPT !.owner = "done", !.status = "CLOSED"])
  /\ table' = [table EXCEPT ![inst[n].sid] = 0]
  /\ Remember(inst[n].sid) \/ UNCHANGED recent
  /\ UNCHANGED <<sweep, doomed>> /\ Rest
Finalize(n) ==
  /\ inst[n].owner = "owed"
  /\ Update(n, [inst[n] EXCEPT !.owner = "done", !.status = "CLOSED"])
  /\ table' = [table EXCEPT ![inst[n].sid] = IF @ = n THEN 0 ELSE @]
  /\ Remember(inst[n].sid) \/ UNCHANGED recent
  /\ UNCHANGED <<sweep, doomed>> /\ Rest

\* Stream_client.Close
CloseDoomed(n) ==
  /\ n \in doomed /\ doomed' = doomed \ {n} /\ Update(n, Closed(inst[n]))
  /\ UNCHANGED <<table, recent, sweep>> /\ Rest

Expire(s) ==
  /\ s \in recent /\ recent' = recent \ {s} /\ UNCHANGED <<table, inst, sweep, doomed>> /\ Rest

-----------------------------------------------------------------------------
(* asyncStreamCleanupWorker *)

SweepIdle == sweep.left = {} /\ sweep.inst = 0 /\ sweep.remove = {}

SweepStart ==
  /\ runtime = "up" /\ SweepIdle /\ \E s \in Sid : table[s] # 0
  /\ sweep' = [sweep EXCEPT !.left = {table[s] : s \in Sid} \ {0}]
  /\ UNCHANGED <<table, inst, recent, doomed>> /\ Rest

\* The status that the state of the ARQ asks for; a cancelled stream keeps its own.
SweepLook(n) ==
  /\ sweep.inst = 0 /\ n \in sweep.left
  /\ \E st \in {"", "DRAINING", "CLOSING", "TIME_WAIT"} :
       /\ st # "" => inst[n].arq # "open" /\ inst[n].status # "CANCELLED"
       /\ sweep' = [sweep EXCEPT !.left = @ \ {n}, !.inst = n, !.saw = st]
  /\ UNCHANGED <<table, inst, recent, doomed>> /\ Rest

\* The retention is over when the model likes.
SweepJudge ==
  LET n == sweep.inst
      i == IF sweep.saw = "" THEN inst[n] ELSE [inst[n] EXCEPT !.status = sweep.saw]
      gone == i.arq = "closed"
      marked == IF gone THEN [i EXCEPT !.terminal = TRUE, !.status = IF @ = "CANCELLED" THEN @ ELSE "TIME_WAIT"] ELSE i
      due == marked.terminal /\ (gone \/ marked.status = "CANCELLED")
  IN /\ n # 0 /\ Update(n, marked)
     /\ \E r \in {{}, {i.sid}} :
          /\ r # {} => due
          /\ sweep' = [sweep EXCEPT !.inst = 0, !.saw = "", !.remove = @ \cup r]
     /\ UNCHANGED <<table, recent, doomed>> /\ Rest

\* removeStream: by id
SweepRemove(s) ==
  /\ sweep.left = {} /\ sweep.inst = 0 /\ s \in sweep.remove
  /\ sweep' = [sweep EXCEPT !.remove = @ \ {s}]
  /\ table' = [table EXCEPT ![s] = 0] /\ doomed' = doomed \cup ({table[s]} \ {0})
  /\ UNCHANGED <<inst, recent>> /\ Rest

-----------------------------------------------------------------------------
(* StopAsyncRuntime: the workers end, then CloseAllStreams *)

WorkersEnded == SweepIdle /\ doomed = {} /\ \A p \in Processor : processor[p].at = "idle"

CloseAll ==
  /\ runtime = "up" /\ WorkersEnded
  /\ runtime' = "closing" /\ doomed' = {table[s] : s \in Sid} \ {0} /\ table' = [s \in Sid |-> 0]
  /\ UNCHANGED <<protocol, lastId, inst, records, accepted, processor, sweep, packets>>

AllClosed ==
  /\ runtime = "closing" /\ doomed = {} /\ runtime' = "down" /\ recent' = {} /\ orphans' = {} /\ lastId' = 0
  /\ UNCHANGED <<protocol, table, inst, accepted, processor, sweep, doomed, packets>>

\* StartAsyncRuntime stops what there is first.
Start ==
  /\ runtime = "down" /\ runtime' = "up"
  /\ doomed' = {table[s] : s \in Sid} \ {0} /\ table' = [s \in Sid |-> 0]
  /\ UNCHANGED <<protocol, lastId, inst, records, accepted, processor, sweep, packets>>

Accepting(a)  == Socks5Request(a) \/ Socks4Request(a) \/ TcpRequest(a) \/ RelayEnds(a) \/ NewId(a) \/ NewStream(a) \/ Connecting(a)
Processing(p) ==
  \/ Lock(p) \/ Write(p) \/ SetResult(p) \/ Ready(p) \/ Late(p) \/ ForceClose(p) \/ Unwritten(p)
  \/ StreamResult(p) \/ StreamActive(p) \/ StreamFail(p) \/ Rst(p) \/ RstMark(p) \/ RstSet(p)
  \/ \E s \in Sid : \/ \E type \in Types : Receive(p, s, type)
                    \/ CloseAck(p, s)
                    \/ \E type \in {"DATA", "RST", "RST_ACK", "OTHER"} : Missing(p, s, type)
Ending == \/ \E n \in DOMAIN inst : ArqEnds(n) \/ Finalize(n) \/ CloseDoomed(n) \/ SweepLook(n)
          \/ SweepStart \/ SweepJudge \/ CloseAll \/ AllClosed \/ Start
          \/ \E s \in Sid : Expire(s) \/ SweepRemove(s)

Next == (\E a \in Accepted : Accepting(a)) \/ (\E p \in Processor : Processing(p)) \/ Ending
Spec == Init /\ [][Next]_vars

-----------------------------------------------------------------------------
Statuses == Over \cup {"PENDING", "CONNECTING", "ACTIVE", "SOCKS_FAILED", "CANCELLED"}

TypeOK ==
  /\ runtime \in {"up", "closing", "down"} /\ lastId \in Sid \cup {0} /\ recent \subseteq Sid
  /\ table \in [Sid -> 0 .. Len(inst)]
  /\ \A s \in Sid : table[s] # 0 => inst[table[s]].sid = s
  /\ \A n \in DOMAIN inst : inst[n].status \in Statuses /\ (inst[n].owner = "alive" <=> inst[n].arq # "closed")

Quiet(n) == \A p \in Processor : Held(p) # n

\* writeSocksConnectResultLocked: however often the answer of the server is
\* repeated, and whichever processors handle the copies, the application reads
\* one success at most, and nothing after a failure; and the bytes of the tunnel
\* (SetIOReady) only behind the reply that says that it is connected.
OneReply ==
  \A n \in DOMAIN inst :
    LET r == inst[n].replies IN
    /\ \A j, k \in DOMAIN r : j < k => r[j] /\ ~r[k] /\ k = 2
    /\ protocol = "SOCKS5" /\ inst[n].ready => r # <<>> /\ r[1]

\* finalizeAfterARQClose, removeStream, CloseAllStreams: a stream that nobody can
\* find any more is closed, with its connection, or is about to be.
NoneLost ==
  /\ TypeOK
  /\ \A n \in DOMAIN inst :
       inst[n].arq = "closed" \/ n \in doomed \/ table[inst[n].sid] = n

\* handlePendingSOCKSLocalClose: a stream that was given up because the application
\* was gone is not kept open on the server: as long as it is in the table its
\* reset is on the way.
CancelledIsReset ==
  \A n \in DOMAIN inst :
    inst[n].status = "CANCELLED" /\ Quiet(n) /\ table[inst[n].sid] = n => inst[n].arq # "open"
=============================================================================
