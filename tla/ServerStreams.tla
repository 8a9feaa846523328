--------------------------- MODULE ServerStreams ---------------------------
(***************************************************************************)
(* udpserver: the streams of one session.  Ingress goroutines turn SYNs    *)
(* into deferred connects and act on resets and closes; workers dial the   *)
(* target and attach the connection; a stream whose ARQ closed is taken    *)
(* apart; the session itself may be closed under all of them.              *)
(*                                                                         *)
(* A stream object is an instance: a stream id may be created again.  A    *)
(* SYN is one fragment, of one sequence number per stream, for one target; *)
(* the answers that the peer gets are left out.  The ARQ of an instance    *)
(* closes when it likes; DeferredSession has the queues of the workers,    *)
(* here any idle worker may take a task.                                   *)
(***************************************************************************)
EXTENDS Integers, Sequences, FiniteSets, SequencesExt

CONSTANTS
  Sid,             \* stream ids
  Rx, Worker,      \* ingress and deferred-connect goroutines
  Limit,           \* MaxActiveStreamsPerSession
  MaxInst, MaxConn, MaxPackets    \* bounds of a run

VARIABLES
  streams,         \* Streams: the instance of each id, 0 for none
  active,          \* ActiveStreams
  recentlyClosed,  \* RecentlyClosed, as a set of ids
  known, recordClosed,   \* the store still finds the record; closedFlag
  inst,            \* inst[n]: the stream objects ever created
  inflight,        \* deferredInflight, as a set of ids
  jobs,            \* the queued connects
  open,            \* connections to targets that are open
  dialled,         \* how many were dialled
  rx, worker, closer,    \* where the goroutines are
  packets

vars == <<streams, active, recentlyClosed, known, recordClosed, inst, inflight, jobs,
          open, dialled, rx, worker, closer, packets>>
table    == <<streams, active, recentlyClosed>>
deferred == <<inflight, jobs>>
conns    == <<open, dialled>>
session  == <<known, recordClosed, closer>>

Fresh(s) == [sid |-> s, arq |-> "open", status |-> "PENDING", conn |-> 0, connected |-> FALSE, fin |-> "no"]
Idle     == [at |-> "idle", sid |-> 0, inst |-> 0]
Resting  == [at |-> "idle", sid |-> 0, inst |-> 0, conn |-> 0, cancelled |-> FALSE]

Init ==
  /\ streams = [s \in Sid |-> 0] /\ active = {} /\ recentlyClosed = {}
  /\ known = TRUE /\ recordClosed = FALSE /\ closer = [at |-> "no", left |-> {}, on |-> 0]
  /\ inst = <<>> /\ inflight = {} /\ jobs = <<>> /\ open = {} /\ dialled = 0
  /\ rx = [i \in Rx |-> Idle] /\ worker = [w \in Worker |-> Resting] /\ packets = 0

Alive(n)   == n # 0 /\ inst[n].arq = "open"
Get(s)     == IF recordClosed THEN 0 ELSE streams[s]

-----------------------------------------------------------------------------
(* getOrCreateStream: `made` is the instance, 0 when the stream is refused. *)

CanCreate(s) == streams[s] # 0 \/ Cardinality({t \in Sid : streams[t] # 0}) < Limit

CreateUnlimited(s, n) ==
  IF streams[s] # 0 \/ recordClosed
  THEN n = Get(s) /\ UNCHANGED <<table, inst>>
  ELSE /\ n = Len(inst) + 1 /\ n <= MaxInst
       /\ streams' = [streams EXCEPT ![s] = n] /\ active' = active \cup {s}
       /\ recentlyClosed' = recentlyClosed \ {s}
       /\ inst' = Append(inst, Fresh(s))

GetOrCreate(s, n) ==
  IF streams[s] # 0 \/ recordClosed \/ ~CanCreate(s)
  THEN n = Get(s) /\ UNCHANGED <<table, inst>>
  ELSE /\ n = Len(inst) + 1 /\ n <= MaxInst
       /\ streams' = [streams EXCEPT ![s] = n] /\ active' = active \cup {s}
       /\ recentlyClosed' = recentlyClosed \ {s}
       /\ inst' = Append(inst, Fresh(s))

\* shouldExecuteDeferredPacket
Should(s) ==
  /\ known /\ ~recordClosed /\ s \notin recentlyClosed
  /\ streams[s] # 0 => Alive(streams[s]) /\ inst[streams[s]].status \in {"PENDING", "CONNECTED"}

-----------------------------------------------------------------------------
(* clearDeferredPacketsForStream is two steps: the keys, then the lane. *)

ClearKeys(s) == inflight' = inflight \ {s}

\* The tasks of the other lanes, in their order.
Without(s) ==
  LET others[k \in 0 .. Len(jobs)] ==
        IF k = 0 THEN <<>> ELSE
        IF jobs[k] = s THEN others[k - 1] ELSE Append(others[k - 1], jobs[k])
  IN others[Len(jobs)]

Cancelled(S) == [w \in Worker |-> IF worker[w].at # "idle" /\ worker[w].sid \in S
                                  THEN [worker[w] EXCEPT !.cancelled = TRUE] ELSE worker[w]]
RemoveLane(s) == jobs' = Without(s) /\ worker' = Cancelled({s})

-----------------------------------------------------------------------------
(* The ingress: handlePostSessionPacket, step by step. *)

Goto(i, at, s) == rx' = [rx EXCEPT ![i].at = at, ![i].sid = s]
Return(i)      == rx' = [rx EXCEPT ![i] = Idle]

\* preprocessInboundPacket: a missing stream is answered with a reset, but not for a SYN.
Syn(i, s) ==
  /\ rx[i].at = "idle" /\ packets < MaxPackets /\ known
  /\ packets' = packets + 1
  /\ Get(s) = 0 => s \notin recentlyClosed
  /\ Goto(i, "limit", s)
  /\ UNCHANGED <<table, session, inst, deferred, conns, worker>>

CheckLimit(i) ==
  /\ rx[i].at = "limit"
  /\ Goto(i, IF ~recordClosed /\ CanCreate(rx[i].sid) THEN "immediate" ELSE "ack", rx[i].sid)
  /\ UNCHANGED <<table, session, inst, deferred, conns, worker, packets>>

\* tryHandleImmediateConnected...Syn, tryHandleImmediateRejectedSOCKS5Syn: answered
\* at once for a stream that is connected or a target that is not allowed.
Immediate(i) ==
  LET s == rx[i].sid  n == Get(s) IN
  /\ rx[i].at = "immediate"
  /\ \/ n # 0 /\ Goto(i, "clear", s)
     \/ ~(n # 0 /\ inst[n].connected) /\ Goto(i, "begin", s)
  /\ UNCHANGED <<table, session, inst, deferred, conns, worker, packets>>

Clear(i) ==
  /\ rx[i].at \in {"clear", "rstClear", "closeClear"} /\ ClearKeys(rx[i].sid)
  /\ Goto(i, CASE rx[i].at = "clear" -> "lane" [] rx[i].at = "rstClear" -> "rstLane"
               [] OTHER -> "closeLane", rx[i].sid)
  /\ UNCHANGED <<table, session, inst, jobs, conns, worker, packets>>

Lane(i) ==
  /\ rx[i].at \in {"lane", "rstLane", "closeLane"} /\ RemoveLane(rx[i].sid)
  /\ CASE rx[i].at = "lane" -> Goto(i, "ack", rx[i].sid)
       [] rx[i].at = "rstLane" -> Goto(i, "rstClose", rx[i].sid)
       [] OTHER -> Return(i)
  /\ UNCHANGED <<table, session, inst, inflight, conns, packets>>

\* tryBeginDeferredPacket
Begin(i) ==
  LET s == rx[i].sid IN
  /\ rx[i].at = "begin"
  /\ inflight' = inflight \cup {s}
  /\ Goto(i, IF s \in inflight THEN "ack" ELSE "enqueue", s)
  /\ UNCHANGED <<table, session, inst, jobs, conns, worker, packets>>

\* dispatchDeferredSessionPacketTracked: the processor takes the task or is full.
Enqueue(i) ==
  LET s == rx[i].sid IN
  /\ rx[i].at = "enqueue"
  /\ \/ /\ jobs' = Append(jobs, s) /\ Goto(i, "ack", s) /\ UNCHANGED inflight
     \/ /\ ClearKeys(s) /\ Return(i) /\ UNCHANGED jobs
  /\ UNCHANGED <<table, session, inst, conns, worker, packets>>

\* queueImmediateControlAck: it creates the stream that it acknowledges.
Ack(i) ==
  /\ rx[i].at = "ack"
  /\ \E n \in 0 .. MaxInst : GetOrCreate(rx[i].sid, n)
  /\ Return(i)
  /\ UNCHANGED <<session, deferred, conns, worker, packets>>

\* handleStreamRSTRequest; without a stream a reset is only noted or acknowledged.
Reset(i, s) ==
  /\ rx[i].at = "idle" /\ packets < MaxPackets /\ known /\ Get(s) # 0
  /\ packets' = packets + 1
  /\ active' = active \ {s}
  /\ rx' = [rx EXCEPT ![i] = [at |-> "rstClear", sid |-> s, inst |-> streams[s]]]
  /\ UNCHANGED <<streams, recentlyClosed, session, inst, deferred, conns, worker>>

CloseNow(n) == [inst EXCEPT ![n].arq = "closed",
                            ![n].fin = IF @ = "no" THEN "cleanup" ELSE @]

ResetCloses(i) ==
  /\ rx[i].at = "rstClose" /\ Return(i)
  /\ inst' = CloseNow(rx[i].inst)
  /\ UNCHANGED <<table, session, deferred, conns, worker, packets>>

\* handleStreamCloseRead/WriteRequest: the connect is given up, the ARQ goes on.
PeerCloses(i, s) ==
  /\ rx[i].at = "idle" /\ packets < MaxPackets /\ known /\ Get(s) # 0
  /\ packets' = packets + 1 /\ Goto(i, "closeClear", s)
  /\ UNCHANGED <<table, session, inst, deferred, conns, worker>>

-----------------------------------------------------------------------------
(* The workers: processDeferredStreamSyn and processDeferredSOCKS5Syn.     *)
(* Checks that nothing separates are one.                                  *)

Step(w, at) == worker' = [worker EXCEPT ![w].at = at]
Serving(s)  == {w \in Worker : worker[w].at # "idle" /\ worker[w].sid = s}

\* A lane is served by one worker as long as its task is not cancelled or finalized.
Take(w, s) ==
  /\ worker[w].at = "idle" /\ jobs # <<>> /\ s = Head(jobs)
  /\ \A v \in Serving(s) : worker[v].cancelled \/ worker[v].at = "finish"
  /\ worker' = [worker EXCEPT ![w] = [Resting EXCEPT !.at = "start", !.sid = s]]
  /\ jobs' = Tail(jobs)
  /\ UNCHANGED <<table, session, inst, inflight, conns, rx, packets>>

Start(w) ==
  LET s == worker[w].sid IN
  /\ worker[w].at = "start"
  /\ Step(w, IF ~worker[w].cancelled /\ s \in inflight /\ Should(s) THEN "create" ELSE "finish")
  /\ UNCHANGED <<table, session, inst, deferred, conns, rx, packets>>

Create(w) ==
  /\ worker[w].at = "create"
  /\ \E n \in 0 .. MaxInst :
       /\ GetOrCreate(worker[w].sid, n)
       /\ worker' = [worker EXCEPT ![w].inst = n, ![w].at = IF n = 0 THEN "finalize" ELSE "found"]
  /\ UNCHANGED <<session, deferred, conns, rx, packets>>

\* Already connected, or dial, unless the packet went stale.
Found(w) ==
  LET n == worker[w].inst IN
  /\ worker[w].at = "found"
  /\ Step(w, IF inst[n].connected THEN "finalize"
             ELSE IF Should(worker[w].sid) THEN "dial" ELSE "finish")
  /\ UNCHANGED <<table, session, inst, deferred, conns, rx, packets>>

Dial(w) ==
  /\ worker[w].at = "dial"
  /\ \/ /\ dialled < MaxConn /\ dialled' = dialled + 1 /\ open' = open \cup {dialled + 1}
        /\ worker' = [worker EXCEPT ![w].at = "dialled", ![w].conn = dialled + 1]
     \/ (Step(w, "failed") \/ Step(w, "timedOut")) /\ UNCHANGED conns
  /\ UNCHANGED <<table, session, inst, deferred, rx, packets>>

Failed(w) ==
  /\ worker[w].at \in {"failed", "timedOut"}
  /\ Step(w, IF (worker[w].cancelled => worker[w].at = "timedOut") /\ Should(worker[w].sid)
             THEN "finalize" ELSE "finish")
  /\ UNCHANGED <<table, session, inst, deferred, conns, rx, packets>>

Drop(w) == open' = open \ {worker[w].conn} /\ UNCHANGED dialled

Dialled(w) ==
  /\ worker[w].at = "dialled"
  /\ IF worker[w].cancelled THEN Drop(w) /\ Step(w, "finish")
     ELSE Step(w, "attach") /\ UNCHANGED conns
  /\ UNCHANGED <<table, session, inst, deferred, rx, packets>>

Attachable(n) ==
  inst[n].status # "CLOSED" /\ inst[n].arq # "closed" /\ inst[n].conn = 0 /\ ~inst[n].connected

\* attachUpstreamConn
AttachAnyway(w) ==
  LET n == worker[w].inst IN
  /\ worker[w].at = "attach"
  /\ inst' = [inst EXCEPT ![n].conn = worker[w].conn, ![n].connected = TRUE, ![n].status = "CONNECTED"]
  /\ Step(w, "attached") /\ UNCHANGED conns
  /\ UNCHANGED <<table, session, deferred, rx, packets>>

Attach(w) ==
  LET n == worker[w].inst IN
  /\ worker[w].at = "attach"
  /\ IF recordClosed \/ ~Attachable(n)
     THEN Drop(w) /\ Step(w, "finalize") /\ UNCHANGED inst
     ELSE /\ inst' = [inst EXCEPT ![n].conn = worker[w].conn, ![n].connected = TRUE,
                                  ![n].status = "CONNECTED"]
          /\ Step(w, "attached") /\ UNCHANGED conns
  /\ UNCHANGED <<table, session, deferred, rx, packets>>

\* A stream that went away meanwhile keeps its closed connection attached.
Attached(w) ==
  /\ worker[w].at = "attached" /\ Step(w, "finalize")
  /\ IF Should(worker[w].sid) THEN UNCHANGED conns ELSE Drop(w)
  /\ UNCHANGED <<table, session, inst, deferred, rx, packets>>

\* finalizeDeferredPacketsForStream: the keys, then the lane, which cancels nothing.
Finalize(w) ==
  LET s == worker[w].sid IN
  /\ \/ worker[w].at = "finalize" /\ ClearKeys(s) /\ UNCHANGED jobs /\ Step(w, "finalizeLane")
     \/ worker[w].at = "finalizeLane" /\ jobs' = Without(s) /\ UNCHANGED inflight /\ Step(w, "finish")
  /\ UNCHANGED <<table, session, inst, conns, rx, packets>>

\* finishDeferredPacket
Finish(w) ==
  /\ worker[w].at = "finish" /\ ClearKeys(worker[w].sid)
  /\ worker' = [worker EXCEPT ![w] = Resting]
  /\ UNCHANGED <<table, session, inst, jobs, conns, rx, packets>>

-----------------------------------------------------------------------------
(* The end of an instance: finalizeAfterARQClose, once, in whichever       *)
(* goroutine gets there first.                                             *)

ArqCloses(n) ==
  /\ n \in DOMAIN inst /\ inst[n].arq # "closed"
  /\ \/ inst' = CloseNow(n)
     \/ inst[n].arq = "open" /\ inst' = [inst EXCEPT ![n].arq = "reset"]
  /\ UNCHANGED <<table, session, deferred, conns, rx, worker, packets>>

At(n, fin) == n \in DOMAIN inst /\ inst[n].fin = fin
Then(n, fin) == inst' = [inst EXCEPT ![n].fin = fin]

Cleanup(n) ==
  /\ At(n, "cleanup")
  /\ inst' = [inst EXCEPT ![n].fin = "remove", ![n].status = "CLOSED", ![n].connected = FALSE, ![n].conn = 0]
  /\ open' = open \ {inst[n].conn} /\ UNCHANGED dialled
  /\ UNCHANGED <<table, session, deferred, rx, worker, packets>>

\* removeStream, in two critical sections, none of them if the session is closed
RemoveStream(n) ==
  LET s == inst[n].sid IN
  /\ At(n, "remove") /\ Then(n, IF recordClosed THEN "keys" ELSE "note")
  /\ streams' = IF recordClosed THEN streams ELSE [streams EXCEPT ![s] = 0]
  /\ active' = IF recordClosed THEN active ELSE active \ {s}
  /\ UNCHANGED <<recentlyClosed, session, deferred, conns, rx, worker, packets>>

NoteClosed(n) ==
  /\ At(n, "note") /\ Then(n, "keys")
  /\ recentlyClosed' = IF recordClosed THEN recentlyClosed ELSE recentlyClosed \cup {inst[n].sid}
  /\ UNCHANGED <<streams, active, session, deferred, conns, rx, worker, packets>>

\* streamCleanup
CleanKeys(n) ==
  /\ At(n, "keys") /\ Then(n, "lane") /\ ClearKeys(inst[n].sid)
  /\ UNCHANGED <<table, session, jobs, conns, rx, worker, packets>>

CleanLane(n) ==
  /\ At(n, "lane") /\ Then(n, "done") /\ RemoveLane(inst[n].sid)
  /\ UNCHANGED <<table, session, inflight, conns, rx, packets>>

\* pruneRecentlyClosedLocked, evictOldestRecentlyClosedLocked
Forget(s) ==
  /\ s \in recentlyClosed /\ recentlyClosed' = recentlyClosed \ {s}
  /\ UNCHANGED <<streams, active, session, inst, deferred, conns, rx, worker, packets>>

-----------------------------------------------------------------------------
(* The end of the session: sessions.Close or Cleanup, cleanupClosedSession,*)
(* closeAllStreams.                                                        *)

CloserTo(at, left) == closer' = [at |-> at, left |-> left, on |-> 0]
Here == {n \in DOMAIN inst : streams[inst[n].sid] = n}

\* An expired session is marked as it is taken out, one that the client closes later.
EndSession ==
  /\ known /\ known' = FALSE /\ recordClosed' \in BOOLEAN /\ CloserTo("keys", {})
  /\ UNCHANGED <<table, inst, deferred, conns, rx, worker, packets>>

EndKeys ==
  /\ closer.at = "keys" /\ inflight' = {} /\ CloserTo("mark", {})
  /\ UNCHANGED <<table, known, recordClosed, inst, jobs, conns, rx, worker, packets>>

EndUnmarked ==
  /\ closer.at = "mark" /\ UNCHANGED recordClosed /\ CloserTo("snapshot", {})
  /\ UNCHANGED <<table, known, inst, deferred, conns, rx, worker, packets>>

EndMark ==
  /\ closer.at = "mark" /\ recordClosed' = TRUE /\ CloserTo("snapshot", {})
  /\ UNCHANGED <<table, known, inst, deferred, conns, rx, worker, packets>>

EndSnapshot ==
  /\ closer.at = "snapshot" /\ CloserTo("close", Here)
  /\ UNCHANGED <<table, known, recordClosed, inst, deferred, conns, rx, worker, packets>>

\* finalizeAfterARQClose waits for whoever takes that stream apart already.
Waited == closer.on # 0 => inst[closer.on].fin = "done"

EndClose(n) ==
  /\ closer.at = "close" /\ Waited /\ n \in closer.left /\ inst' = CloseNow(n)
  /\ closer' = [at |-> "close", left |-> closer.left \ {n}, on |-> n]
  /\ UNCHANGED <<table, known, recordClosed, deferred, conns, rx, worker, packets>>

EndMaps ==
  /\ closer.at = "close" /\ closer.left = {} /\ Waited
  /\ streams' = [s \in Sid |-> 0] /\ active' = {} /\ CloserTo("lanes", {})
  /\ UNCHANGED <<recentlyClosed, known, recordClosed, inst, deferred, conns, rx, worker, packets>>

EndLanes ==
  /\ closer.at = "lanes" /\ jobs' = <<>> /\ worker' = Cancelled(Sid) /\ CloserTo("done", {})
  /\ UNCHANGED <<table, known, recordClosed, inst, inflight, conns, rx, packets>>

-----------------------------------------------------------------------------
Ingress(i) == CheckLimit(i) \/ Immediate(i) \/ Clear(i) \/ Lane(i) \/ Begin(i) \/ Enqueue(i)
              \/ Ack(i) \/ ResetCloses(i)
Connect(w) == (\E s \in Sid : Take(w, s)) \/ Start(w) \/ Create(w) \/ Found(w) \/ Dial(w) \/ Failed(w) \/ Dialled(w)
              \/ Attach(w) \/ Attached(w) \/ Finalize(w) \/ Finish(w)
TakeApart(n) == Cleanup(n) \/ RemoveStream(n) \/ NoteClosed(n) \/ CleanKeys(n) \/ CleanLane(n)
End == EndKeys \/ EndMark \/ EndSnapshot \/ (\E n \in 1 .. MaxInst : EndClose(n)) \/ EndMaps \/ EndLanes

Next ==
  \/ \E i \in Rx : Ingress(i) \/ \E s \in Sid : Syn(i, s) \/ Reset(i, s) \/ PeerCloses(i, s)
  \/ \E w \in Worker : Connect(w)
  \/ \E n \in 1 .. MaxInst : TakeApart(n) \/ ArqCloses(n)
  \/ \E s \in Sid : Forget(s)
  \/ EndSession \/ End

Spec == Init /\ [][Next]_vars

-----------------------------------------------------------------------------
TypeOK ==
  /\ streams \in [Sid -> 0 .. Len(inst)] /\ active \subseteq {s \in Sid : streams[s] # 0}
  /\ recentlyClosed \subseteq Sid
  /\ \A s \in Sid : streams[s] # 0 => inst[streams[s]].sid = s
  /\ open \subseteq 1 .. dialled /\ inflight \subseteq Sid /\ ToSet(jobs) \subseteq Sid

\* canCreateAdditionalStreamLocked: the limit holds although it is checked
\* when a SYN arrives and a stream is made three times later on; and the table,
\* the active set and the streams agree.
LimitKept == TypeOK /\ Cardinality({s \in Sid : streams[s] # 0}) <= Limit

\* attachUpstreamConn against cleanupResources: a connection that is open is
\* in the hands of the worker that dialled it, or attached to a stream that
\* has still to be taken apart; none is left to nobody.
ConnOwned ==
  \A c \in open :
    \/ \E w \in Worker : worker[w].conn = c /\ worker[w].at \in {"dialled", "attach", "attached"}
    \/ \E n \in DOMAIN inst : inst[n].conn = c /\ inst[n].fin \in {"no", "cleanup"}

\* closeAllStreams: once a session was closed no stream of it runs on.
EndedIsEmpty ==
  closer.at = "done" => \A n \in DOMAIN inst : inst[n].arq = "closed"
=============================================================================
