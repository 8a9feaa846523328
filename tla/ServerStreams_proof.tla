------------------------ MODULE ServerStreams_proof ------------------------
(***************************************************************************)
(* The streams of a session on the server, for any number of stream ids    *)
(* and goroutines: a connection that was dialled always has an owner, no   *)
(* stream outlives the end of its session, and the limit on streams holds. *)
(***************************************************************************)
EXTENDS ServerStreams, FiniteSetTheorems, SequenceTheorems, WellFoundedInduction, TLAPS

Fin      == {"no", "cleanup", "remove", "note", "keys", "lane", "done"}
Instance == [sid : Sid, arq : {"open", "reset", "closed"}, status : {"PENDING", "CONNECTED", "CLOSED"},
             conn : Nat, connected : BOOLEAN, fin : Fin]

InHand   == {"dialled", "attach", "attached"}
HasInst  == InHand \cup {"found", "dial"}
Place    == HasInst \cup {"idle", "start", "create", "failed", "timedOut", "finalize", "finalizeLane", "finish"}
Job == [at : Place, sid : Sid \cup {0}, inst : Nat, conn : Nat, cancelled : BOOLEAN]

RxPlace  == {"idle", "limit", "immediate", "clear", "lane", "begin", "enqueue", "ack", "rstClear",
             "rstLane", "rstClose", "closeClear", "closeLane"}

(* The ingress works on an id of the session, a reset on a stream of it.   *)
Handling == [at : RxPlace, sid : Sid \cup {0}, inst : Nat]

Holds(v, streamCount) ==
  /\ v.at # "idle" => v.sid \in Sid
  /\ v.at \in {"rstClear", "rstLane", "rstClose"} => v.inst \in 1 .. streamCount

RxInv == rx \in [Rx -> Handling] /\ \A i \in Rx : Holds(rx[i], Len(inst))

(* A worker that has a stream or a connection has one that was made.       *)
Good(v, streamCount, connCount) ==
  /\ v.at # "idle" => v.sid \in Sid
  /\ v.at \in HasInst => v.inst \in 1 .. streamCount
  /\ v.at \in InHand => v.conn \in 1 .. connCount

WorkerInv == /\ dialled \in Nat /\ worker \in [Worker -> Job]
             /\ \A w \in Worker : Good(worker[w], Len(inst), dialled)

(* What is taken apart has been closed. *)
InstInv == inst \in Seq(Instance) /\ \A n \in 1 .. Len(inst) : inst[n].fin # "no" => inst[n].arq = "closed"

(* A stream is found under its id until it is removed, and only it.        *)
TableInv ==
  /\ streams \in [Sid -> 0 .. Len(inst)]
  /\ closer.at \notin {"lanes", "done"} =>
       \A n \in 1 .. Len(inst) :
         inst[n].fin \in {"no", "cleanup", "remove"} => streams[inst[n].sid] = n

(* Nothing is created once the session is marked, so the snapshot of its   *)
(* streams has all that are still to be closed.                            *)
EndInv ==
  /\ known => closer.at = "no"
  /\ closer.at \in {"snapshot", "close", "lanes", "done"} => recordClosed
  /\ closer.at = "close" => closer.left \subseteq 1 .. Len(inst)
  /\ closer.at \in {"close", "lanes", "done"} =>
       \A n \in 1 .. Len(inst) :
         inst[n].arq = "closed" \/ (closer.at = "close" /\ n \in closer.left)

Owns(v, c)     == v.conn = c /\ v.fin \in {"no", "cleanup"}
HasOwner(n, c) == Owns(inst[n], c)

(* An attached connection is the stream's until that is taken apart.       *)
ConnInv ==
  /\ 0 \notin open
  /\ \A c \in open : \/ \E w \in Worker : worker[w].conn = c /\ worker[w].at \in InHand
                     \/ \E n \in 1 .. Len(inst) : HasOwner(n, c)
  /\ \A w \in Worker : worker[w].at = "attached" /\ worker[w].conn \in open
                         => HasOwner(worker[w].inst, worker[w].conn)

Inv == RxInv /\ WorkerInv /\ InstInv /\ TableInv /\ EndInv /\ ConnInv

Unmoved == /\ worker' \in [Worker -> Job]
           /\ \A u \in Worker : /\ worker'[u].at = worker[u].at /\ worker'[u].sid = worker[u].sid
                               /\ worker'[u].inst = worker[u].inst
                               /\ worker'[u].conn = worker[u].conn

Grows == Len(inst) <= Len(inst') /\ \A n \in 1 .. Len(inst) : inst'[n] = inst[n]

-----------------------------------------------------------------------------
LEMMA LenNat == ASSUME InstInv PROVE Len(inst) \in Nat /\ DOMAIN inst = 1 .. Len(inst)
BY LenProperties DEF InstInv

LEMMA InvImplies == ASSUME Inv PROVE ConnOwned /\ EndedIsEmpty
<1>1. DOMAIN inst = 1 .. Len(inst)
  BY LenNat DEF Inv
<1>2. ConnOwned
  BY <1>1 DEF Inv, ConnInv, HasOwner, Owns, InHand, ConnOwned
<1>3. EndedIsEmpty
  BY <1>1 DEF Inv, EndInv, EndedIsEmpty
<1>4. QED
  BY <1>2, <1>3

-----------------------------------------------------------------------------
(* Steps of the ingress *)

LEMMA RxStep ==
  ASSUME RxInv, UNCHANGED inst, NEW i \in Rx, NEW v \in Handling, Holds(v, Len(inst)),
         rx' = [rx EXCEPT ![i] = v]
  PROVE  RxInv'
BY DEF RxInv

LEMMA GotoRx ==
  ASSUME RxInv, UNCHANGED inst, NEW i \in Rx, NEW at \in RxPlace, NEW s \in Sid, Goto(i, at, s),
         at \in {"rstClear", "rstLane", "rstClose"} =>
           rx[i].at \in {"rstClear", "rstLane", "rstClose"}
  PROVE  RxInv'
<1> DEFINE v == [rx[i] EXCEPT !.at = at, !.sid = s]
<1>1. v \in Handling /\ Holds(v, Len(inst))
  BY DEF RxInv, Holds, Handling
<1>2. rx' = [rx EXCEPT ![i] = v]
  BY DEF Goto, RxInv, Handling
<1> HIDE DEF v
<1>3. QED
  BY <1>1, <1>2, RxStep

LEMMA ReturnRx == ASSUME RxInv, UNCHANGED Len(inst), NEW i \in Rx, Return(i) PROVE RxInv'
<1>1. Idle \in Handling /\ \A k : Holds(Idle, k)
  BY DEF Idle, RxPlace, Handling, Holds
<1>2. QED
  BY <1>1 DEF Return, RxInv

(* More streams harm nobody.                                               *)
LEMMA RxGrows ==
  ASSUME RxInv, InstInv, InstInv', Len(inst) <= Len(inst'), UNCHANGED rx
  PROVE  RxInv'
<1>1. Len(inst) \in Nat /\ Len(inst') \in Nat
  BY LenProperties DEF InstInv
<1>2. QED
  BY <1>1 DEF RxInv, Holds

-----------------------------------------------------------------------------
(* Steps of a worker *)

LEMMA WorkerStep ==
  ASSUME WorkerInv, InstInv, InstInv', Len(inst) <= Len(inst'), dialled' \in Nat, dialled <= dialled',
         NEW w \in Worker, NEW v \in Job, Good(v, Len(inst'), dialled'),
         worker' = [worker EXCEPT ![w] = v]
  PROVE  WorkerInv' /\ \A u \in Worker : worker'[u] = IF u = w THEN v ELSE worker[u]
<1>1. Len(inst) \in Nat /\ Len(inst') \in Nat
  BY LenProperties DEF InstInv
<1>2. /\ worker' \in [Worker -> Job]
      /\ \A u \in Worker : worker'[u] = IF u = w THEN v ELSE worker[u]
  BY DEF WorkerInv
<1>3. \A u \in Worker : Good(worker[u], Len(inst'), dialled')
  BY <1>1 DEF WorkerInv, Good
<1>4. QED
  BY <1>2, <1>3 DEF WorkerInv

(* A worker that keeps what it has in hand, or drops it, or has attached   *)
(* it to a stream that is there.                                           *)
LEMMA WorkerConn ==
  ASSUME ConnInv, WorkerInv, UNCHANGED inst, open' \subseteq open, NEW w \in Worker, NEW v,
         \A u \in Worker : worker'[u] = IF u = w THEN v ELSE worker[u],
         worker[w].at \in InHand /\ worker[w].conn \in open' =>
           worker[w].at = "attached" \/ (v.at \in InHand /\ v.conn = worker[w].conn),
         v.at # "attached"
  PROVE  ConnInv'
<1>1. ASSUME NEW c \in open'
      PROVE  \/ \E u \in Worker : worker'[u].conn = c /\ worker'[u].at \in InHand
             \/ \E n \in 1 .. Len(inst) : HasOwner(n, c)
  <2>1. CASE \E n \in 1 .. Len(inst) : HasOwner(n, c)
    BY <2>1
  <2>2. ASSUME NEW u \in Worker, worker[u].conn = c, worker[u].at \in InHand
        PROVE  \/ \E x \in Worker : worker'[x].conn = c /\ worker'[x].at \in InHand
               \/ \E n \in 1 .. Len(inst) : HasOwner(n, c)
    <3>1. CASE u # w
      BY <2>2, <3>1
    <3>2. CASE u = w /\ worker[w].at = "attached"
      <4>1. HasOwner(worker[w].inst, c)
        BY <2>2, <3>2 DEF ConnInv
      <4>2. worker[w].inst \in 1 .. Len(inst)
        BY <3>2 DEF WorkerInv, Good, HasInst, InHand
      <4>3. QED
        BY <4>1, <4>2
    <3>3. CASE u = w /\ worker[w].at # "attached"
      BY <2>2, <3>3
    <3>4. QED
      BY <3>1, <3>2, <3>3
  <2>3. QED
    BY <2>1, <2>2 DEF ConnInv
<1>2. \A u \in Worker : worker'[u].at = "attached" /\ worker'[u].conn \in open'
                         => HasOwner(worker'[u].inst, worker'[u].conn)
  BY DEF ConnInv
<1>3. QED
  BY <1>1, <1>2 DEF ConnInv, HasOwner, Owns

LEMMA CancelMoves == ASSUME WorkerInv, NEW S, worker' = Cancelled(S) PROVE Unmoved
BY DEF Cancelled, WorkerInv, Job, Unmoved

LEMMA StayUnmoved == ASSUME WorkerInv, UNCHANGED worker PROVE Unmoved
BY DEF WorkerInv, Unmoved

LEMMA Cancel ==
  ASSUME WorkerInv, ConnInv, UNCHANGED <<inst, conns>>, NEW S, worker' = Cancelled(S)
  PROVE  WorkerInv' /\ ConnInv'
<1>1. Unmoved
  BY CancelMoves
<1>2. WorkerInv'
  BY <1>1 DEF Unmoved, WorkerInv, Good, conns
<1>3. ConnInv'
  BY <1>1 DEF Unmoved, ConnInv, HasOwner, Owns, conns
<1>4. QED
  BY <1>2, <1>3

LEMMA WorkersStay ==
  ASSUME WorkerInv, ConnInv, UNCHANGED <<inst, worker, conns>>
  PROVE  WorkerInv' /\ ConnInv'
BY DEF WorkerInv, ConnInv, HasOwner, Owns, conns

LEMMA Frame ==
  ASSUME InstInv, TableInv, EndInv, UNCHANGED <<streams, inst, session>>
  PROVE  InstInv' /\ TableInv' /\ EndInv'
BY DEF InstInv, TableInv, EndInv, session

-----------------------------------------------------------------------------
(* A stream is made *)

LEMMA Creates ==
  ASSUME InstInv, TableInv, EndInv, NEW s \in Sid, NEW n, GetOrCreate(s, n), UNCHANGED session
  PROVE  /\ InstInv' /\ TableInv' /\ EndInv' /\ Grows
         /\ n \in 0 .. Len(inst')
<1>0. Len(inst) \in Nat /\ DOMAIN inst = 1 .. Len(inst)
  BY LenNat
<1>1. CASE UNCHANGED <<table, inst>> /\ n = Get(s)
  <2>1. n \in 0 .. Len(inst)
    BY <1>0, <1>1 DEF Get, TableInv
  <2>2. InstInv' /\ TableInv' /\ EndInv'
    BY <1>1, Frame DEF table
  <2>3. QED
    BY <1>0, <1>1, <2>1, <2>2 DEF Grows
<1>2. CASE /\ streams[s] = 0 /\ ~recordClosed /\ n = Len(inst) + 1
           /\ streams' = [streams EXCEPT ![s] = n] /\ inst' = Append(inst, Fresh(s))
  <2>1. Fresh(s) \in Instance /\ Fresh(s).fin = "no" /\ Fresh(s).sid = s
    BY DEF Fresh, Instance, Fin
  <2>2. /\ inst' \in Seq(Instance) /\ Len(inst') = Len(inst) + 1 /\ inst'[n] = Fresh(s)
        /\ \A m \in 1 .. Len(inst) : inst'[m] = inst[m]
    BY <1>2, <2>1, AppendProperties DEF InstInv
  <2>3. \A m \in 1 .. Len(inst') : m = n \/ m \in 1 .. Len(inst)
    BY <1>0, <1>2, <2>2
  <2>4. Grows
    BY <1>0, <2>2 DEF Grows
  <2>5. InstInv'
    BY <2>1, <2>2, <2>3 DEF InstInv
  <2>6. closer.at \notin {"snapshot", "close", "lanes", "done"}
    BY <1>2 DEF EndInv
  <2>7. streams' \in [Sid -> 0 .. Len(inst')]
    BY <1>0, <1>2, <2>2 DEF TableInv
  <2>8. \A m \in 1 .. Len(inst') :
          inst'[m].fin \in {"no", "cleanup", "remove"} => streams'[inst'[m].sid] = m
    <3>1. TAKE m \in 1 .. Len(inst')
    <3>2. CASE m = n
      BY <1>2, <2>1, <2>2, <3>2 DEF TableInv
    <3>3. CASE m \in 1 .. Len(inst) /\ inst[m].fin \in {"no", "cleanup", "remove"}
      <4>1. inst'[m] = inst[m] /\ streams[inst[m].sid] = m /\ m # 0
        BY <2>2, <2>6, <3>3 DEF TableInv
      <4>2. inst[m].sid # s
        BY <1>2, <4>1
      <4>3. QED
        BY <1>2, <4>1, <4>2 DEF TableInv
    <3>4. QED
      BY <2>2, <2>3, <3>2, <3>3
  <2>9. QED
    BY <1>0, <1>2, <2>2, <2>4, <2>5, <2>6, <2>7, <2>8 DEF TableInv, EndInv, session
<1>3. QED
  BY <1>1, <1>2 DEF GetOrCreate

(* No stream that was there changes, and nobody puts anything down.        *)
LEMMA ConnGrows ==
  ASSUME ConnInv, WorkerInv, InstInv, InstInv', Grows, UNCHANGED open,
         \A u \in Worker : worker'[u] = worker[u]
                           \/ (worker[u].at \notin InHand /\ worker'[u].at \notin InHand)
  PROVE  ConnInv'
<1>0. Len(inst) \in Nat /\ Len(inst') \in Nat /\ 1 .. Len(inst) \subseteq 1 .. Len(inst')
  BY LenProperties DEF InstInv, Grows
<1>1. \A n \in 1 .. Len(inst) : \A c : HasOwner(n, c) => HasOwner(n, c)'
  BY DEF HasOwner, Owns, Grows
<1>2. ASSUME NEW c \in open
      PROVE  \/ \E u \in Worker : worker'[u].conn = c /\ worker'[u].at \in InHand
             \/ \E n \in 1 .. Len(inst') : HasOwner(n, c)'
  BY <1>0, <1>1 DEF ConnInv
<1>3. ASSUME NEW u \in Worker, worker'[u].at = "attached", worker'[u].conn \in open
      PROVE  HasOwner(worker[u].inst, worker[u].conn)' /\ worker'[u] = worker[u]
  <2>1. worker'[u] = worker[u]
    BY <1>3 DEF InHand
  <2>2. worker[u].inst \in 1 .. Len(inst) /\ HasOwner(worker[u].inst, worker[u].conn)
    BY <1>3, <2>1 DEF ConnInv, WorkerInv, Good, HasInst, InHand
  <2>3. QED
    BY <1>1, <2>1, <2>2 DEF HasOwner, Owns
<1>4. QED
  BY <1>2, <1>3 DEF ConnInv, HasOwner, Owns

-----------------------------------------------------------------------------
(* A stream changes *)

LEMMA Alter ==
  ASSUME InstInv, NEW n \in 1 .. Len(inst), NEW v \in Instance, v.fin # "no" => v.arq = "closed",
         inst' = [inst EXCEPT ![n] = v]
  PROVE  /\ InstInv' /\ UNCHANGED Len(inst)
         /\ \A m \in 1 .. Len(inst) : inst'[m] = IF m = n THEN v ELSE inst[m]
<1>1. /\ inst' \in Seq(Instance) /\ Len(inst') = Len(inst)
      /\ \A m \in 1 .. Len(inst) : inst'[m] = IF m = n THEN v ELSE inst[m]
  BY ExceptSeq DEF InstInv
<1>2. InstInv'
  BY <1>1 DEF InstInv
<1>3. QED
  BY <1>1, <1>2

(* What else follows from such a change: v is found as the stream was, and *)
(* keeps the connections that are open.                                    *)
LEMMA Altered ==
  ASSUME RxInv, WorkerInv, InstInv, InstInv', TableInv, EndInv, ConnInv,
         Unmoved, UNCHANGED <<dialled, Len(inst)>>,
         NEW n \in 1 .. Len(inst), NEW v,
         \A m \in 1 .. Len(inst) : inst'[m] = IF m = n THEN v ELSE inst[m],
         v.sid = inst[n].sid, inst[n].arq = "closed" => v.arq = "closed",
         open' \subseteq open,
         \A c \in open' : HasOwner(n, c) => v.conn = c /\ v.fin \in {"no", "cleanup"}
  PROVE  WorkerInv' /\ ConnInv' /\ (UNCHANGED session => EndInv')
<1>1. WorkerInv'
  BY DEF Unmoved, WorkerInv, Good
<1>2. UNCHANGED session => EndInv'
  BY DEF EndInv, session
<1>3. \A m \in 1 .. Len(inst), c \in open' : HasOwner(m, c) => HasOwner(m, c)'
  BY DEF HasOwner, Owns
<1>4. \A u \in Worker : worker[u].at = "attached" => worker[u].inst \in 1 .. Len(inst)
  BY DEF WorkerInv, Good, HasInst, InHand
<1>5. ConnInv'
  BY <1>3, <1>4 DEF Unmoved, ConnInv, HasOwner, Owns
<1>6. QED
  BY <1>1, <1>2, <1>5

(* What is found stays what it was, or is found no longer.                 *)
LEMMA TableStays ==
  ASSUME TableInv, UNCHANGED <<streams, closer.at, Len(inst)>>,
         NEW n \in 1 .. Len(inst), NEW v,
         \A m \in 1 .. Len(inst) : inst'[m] = IF m = n THEN v ELSE inst[m],
         v.sid = inst[n].sid,
         v.fin \in {"no", "cleanup", "remove"} => inst[n].fin \in {"no", "cleanup", "remove"}
  PROVE  TableInv'
BY DEF TableInv

LEMMA Closes ==
  ASSUME Inv, NEW n \in 1 .. Len(inst), inst' = CloseNow(n), UNCHANGED <<streams, conns, closer.at, worker>>
  PROVE  /\ WorkerInv' /\ InstInv' /\ TableInv' /\ ConnInv' /\ UNCHANGED Len(inst)
         /\ UNCHANGED session => EndInv'
         /\ \A m \in 1 .. Len(inst) : (m = n \/ inst[m].arq = "closed") => inst'[m].arq = "closed"
<1> DEFINE v == [inst[n] EXCEPT !.arq = "closed", !.fin = IF @ = "no" THEN "cleanup" ELSE @]
<1>1. inst[n] \in Instance
  BY ElementOfSeq DEF Inv, InstInv
<1>2. v \in Instance /\ v.arq = "closed" /\ v.sid = inst[n].sid /\ v.conn = inst[n].conn
      /\ v.fin = IF inst[n].fin = "no" THEN "cleanup" ELSE inst[n].fin
  BY <1>1 DEF Instance, Fin
<1>3. inst' = [inst EXCEPT ![n] = v]
  BY <1>1, LenNat DEF CloseNow, Instance, Inv
<1> HIDE DEF v
<1>4. /\ InstInv' /\ UNCHANGED Len(inst)
      /\ \A m \in 1 .. Len(inst) : inst'[m] = IF m = n THEN v ELSE inst[m]
  BY <1>2, <1>3, Alter DEF Inv
<1>5. WorkerInv' /\ ConnInv' /\ (UNCHANGED session => EndInv')
  <2>1. open' \subseteq open /\ Unmoved /\ UNCHANGED dialled
    BY StayUnmoved DEF conns, Inv
  <2>2. \A c \in open' : HasOwner(n, c) => v.conn = c /\ v.fin \in {"no", "cleanup"}
    BY <1>2 DEF HasOwner, Owns
  <2>3. QED
    BY <1>2, <1>4, <2>1, <2>2, Altered DEF Inv
<1>6. TableInv'
  BY <1>2, <1>4, TableStays DEF Inv
<1>7. QED
  BY <1>2, <1>4, <1>5, <1>6

-----------------------------------------------------------------------------
(* Steps that change no stream *)

LEMMA Aside ==
  ASSUME Inv, RxInv', UNCHANGED <<streams, inst, session, conns, worker>>
  PROVE  Inv'
BY Frame, WorkersStay DEF Inv

LEMMA Moves ==
  ASSUME Inv, UNCHANGED <<streams, inst, session, rx, dialled>>, open' \subseteq open,
         NEW w \in Worker, NEW v \in Job, Good(v, Len(inst), dialled), v.at # "attached",
         worker' = [worker EXCEPT ![w] = v],
         worker[w].at \in InHand /\ worker[w].conn \in open' =>
           worker[w].at = "attached" \/ (v.at \in InHand /\ v.conn = worker[w].conn)
  PROVE  Inv'
<1>1. InstInv' /\ TableInv' /\ EndInv'
  BY Frame DEF Inv
<1>2. RxInv'
  BY DEF Inv, RxInv
<1>3. Len(inst) <= Len(inst') /\ dialled' \in Nat /\ dialled <= dialled'
  BY LenNat DEF Inv, WorkerInv
<1>4. WorkerInv' /\ \A u \in Worker : worker'[u] = IF u = w THEN v ELSE worker[u]
  BY <1>1, <1>3, WorkerStep DEF Inv
<1>5. ConnInv'
  BY <1>4, WorkerConn DEF Inv
<1>6. QED
  BY <1>1, <1>2, <1>4, <1>5 DEF Inv

LEMMA Steps ==
  ASSUME Inv, UNCHANGED <<streams, inst, session, rx, dialled>>, open' \subseteq open,
         NEW w \in Worker, NEW at \in Place, at # "attached", at # "idle", Step(w, at),
         worker[w].at # "idle",
         at \in HasInst => worker[w].at \in HasInst,
         at \in InHand => worker[w].at \in InHand,
         worker[w].at \in InHand /\ worker[w].conn \in open' =>
           worker[w].at = "attached" \/ at \in InHand
  PROVE  Inv'
<1> DEFINE v == [worker[w] EXCEPT !.at = at]
<1>1. worker[w] \in Job /\ Good(worker[w], Len(inst), dialled)
  BY DEF Inv, WorkerInv
<1>2. v \in Job /\ v.at = at /\ v.conn = worker[w].conn /\ v.sid = worker[w].sid
      /\ v.inst = worker[w].inst
  BY <1>1 DEF Job
<1>3. worker' = [worker EXCEPT ![w] = v]
  BY DEF Step, Inv, WorkerInv
<1> HIDE DEF v
<1>4. Good(v, Len(inst), dialled)
  BY <1>1, <1>2 DEF Good
<1>5. QED
  BY <1>2, <1>3, <1>4, Moves

-----------------------------------------------------------------------------
(* The ingress *)

LEMMA IngressKeeps ==
  ASSUME Inv, NEW i \in Rx, Ingress(i)
  PROVE  Inv'
<1>0. RxInv /\ (rx[i].at # "idle" => rx[i].sid \in Sid) /\ DOMAIN inst = 1 .. Len(inst)
  BY LenNat DEF Inv, RxInv, Holds
<1>1. CASE CheckLimit(i)
  BY <1>0, <1>1, GotoRx, Aside DEF CheckLimit, RxPlace, table
<1>2. CASE Immediate(i)
  BY <1>0, <1>2, GotoRx, Aside DEF Immediate, RxPlace, table
<1>3. CASE Clear(i)
  <2>1. RxInv'
    BY <1>0, <1>3, GotoRx DEF Clear, RxPlace
  <2>2. QED
    BY <1>3, <2>1, Aside DEF Clear, table
<1>4. CASE Lane(i)
  <2>1. RxInv'
    BY <1>0, <1>4, GotoRx, ReturnRx DEF Lane, RxPlace
  <2>2. WorkerInv' /\ ConnInv'
    BY <1>4, Cancel DEF Lane, RemoveLane, Inv
  <2>3. InstInv' /\ TableInv' /\ EndInv'
    BY <1>4, Frame DEF Lane, table, Inv
  <2>4. QED
    BY <2>1, <2>2, <2>3 DEF Inv
<1>5. CASE Begin(i)
  BY <1>0, <1>5, GotoRx, Aside DEF Begin, RxPlace, table
<1>6. CASE Enqueue(i)
  BY <1>0, <1>6, GotoRx, ReturnRx, Aside DEF Enqueue, RxPlace, table
<1>7. CASE Ack(i)
  <2>1. PICK n \in 0 .. MaxInst : GetOrCreate(rx[i].sid, n)
    BY <1>7 DEF Ack
  <2>2. InstInv' /\ TableInv' /\ EndInv' /\ Grows
    BY <1>0, <1>7, <2>1, Creates DEF Ack, Inv
  <2>3. Idle \in Handling /\ Holds(Idle, Len(inst'))
    BY DEF Idle, RxPlace, Handling, Holds
  <2>4. RxInv'
    <3>1. Len(inst) \in Nat /\ Len(inst') \in Nat
      BY <2>2, LenProperties DEF Inv, InstInv
    <3>2. \A j \in Rx : Holds(rx[j], Len(inst'))
      BY <1>0, <2>2, <3>1 DEF RxInv, Holds, Grows
    <3>3. QED
      BY <1>0, <1>7, <2>3, <3>2 DEF Ack, Return, RxInv
  <2>5. WorkerInv'
    <3>1. Len(inst) \in Nat /\ Len(inst') \in Nat
      BY <2>2, LenProperties DEF Inv, InstInv
    <3>2. QED
      BY <1>7, <2>2, <3>1 DEF Ack, Inv, WorkerInv, Good, Grows, conns
  <2>6. ConnInv'
    <3>1. open' = open
      BY <1>7 DEF Ack, conns
    <3>2. \A u \in Worker : worker'[u] = worker[u]
                            \/ (worker[u].at \notin InHand /\ worker'[u].at \notin InHand)
      BY <1>7 DEF Ack
    <3>3. ConnInv /\ WorkerInv /\ InstInv /\ InstInv' /\ Grows
      BY <2>2 DEF Inv
    <3>4. QED
      BY <3>1, <3>2, <3>3, ConnGrows
  <2>7. QED
    BY <2>2, <2>4, <2>5, <2>6 DEF Inv
<1>8. CASE ResetCloses(i)
  <2>1. rx[i].inst \in 1 .. Len(inst)
    BY <1>0, <1>8 DEF ResetCloses, RxInv, Holds
  <2>2. /\ WorkerInv' /\ InstInv' /\ TableInv' /\ EndInv' /\ ConnInv' /\ UNCHANGED Len(inst)
    <3>1. inst' = CloseNow(rx[i].inst) /\ UNCHANGED <<streams, conns, session, closer.at, worker>>
      BY <1>8 DEF ResetCloses, table, session
    <3>2. QED
      BY <2>1, <3>1, Closes
  <2>3. RxInv'
    BY <1>0, <1>8, <2>2, ReturnRx DEF ResetCloses
  <2>4. QED
    BY <2>2, <2>3 DEF Inv
<1>9. QED
  BY <1>1, <1>2, <1>3, <1>4, <1>5, <1>6, <1>7, <1>8 DEF Ingress

LEMMA PacketKeeps ==
  ASSUME Inv, NEW i \in Rx, NEW s \in Sid, Syn(i, s) \/ Reset(i, s) \/ PeerCloses(i, s)
  PROVE  Inv'
<1>0. RxInv
  BY DEF Inv
<1>1. CASE Syn(i, s) \/ PeerCloses(i, s)
  BY <1>0, <1>1, GotoRx, Aside DEF Syn, PeerCloses, RxPlace, table
<1>2. CASE Reset(i, s)
  <2> DEFINE v == [at |-> "rstClear", sid |-> s, inst |-> streams[s]]
  <2>1. streams[s] \in 1 .. Len(inst)
    BY <1>2, LenNat DEF Reset, Get, Inv, TableInv
  <2>2. v \in Handling /\ Holds(v, Len(inst))
    BY <2>1, LenNat DEF Handling, Holds, RxPlace, Inv
  <2>3. RxInv'
    BY <1>0, <1>2, <2>2, RxStep DEF Reset
  <2>4. QED
    BY <1>2, <2>3, Aside DEF Reset
<1>3. QED
  BY <1>1, <1>2

-----------------------------------------------------------------------------
(* The workers *)

LEMMA CreateKeeps == ASSUME Inv, NEW w \in Worker, Create(w) PROVE Inv'
<1>1. PICK n \in 0 .. MaxInst :
        /\ GetOrCreate(worker[w].sid, n)
        /\ worker' = [worker EXCEPT ![w].inst = n, ![w].at = IF n = 0 THEN "finalize" ELSE "found"]
  BY DEF Create
<1>2. worker[w] \in Job /\ worker[w].at = "create" /\ worker[w].sid \in Sid
  BY DEF Create, Inv, WorkerInv, Good
<1>3. InstInv' /\ TableInv' /\ EndInv' /\ Grows /\ n \in 0 .. Len(inst')
  BY <1>1, <1>2, Creates DEF Create, Inv
<1>4. UNCHANGED <<rx, open, dialled>>
  BY DEF Create, conns
<1>5. Len(inst) <= Len(inst')
  BY <1>3 DEF Grows
<1> DEFINE v == [worker[w] EXCEPT !.inst = n, !.at = IF n = 0 THEN "finalize" ELSE "found"]
<1>6. /\ v \in Job /\ Good(v, Len(inst'), dialled') /\ v.at \notin InHand
      /\ worker' = [worker EXCEPT ![w] = v]
  <2>1. v \in Job /\ v.sid = worker[w].sid /\ v.inst = n /\ v.at = IF n = 0 THEN "finalize" ELSE "found"
    <3>1. n \in Nat
      BY <1>3, LenProperties DEF InstInv
    <3>2. QED
      BY <1>2, <3>1 DEF Job, Place, HasInst, InHand
  <2>2. worker' = [worker EXCEPT ![w] = v]
    BY <1>1 DEF Inv, WorkerInv
  <2> HIDE DEF v
  <2>3. QED
    BY <1>2, <1>3, <2>1, <2>2, LenProperties DEF Good, HasInst, InHand, InstInv
<1> HIDE DEF v
<1>7. WorkerInv' /\ \A u \in Worker : worker'[u] = IF u = w THEN v ELSE worker[u]
  <2>1. dialled' \in Nat /\ dialled <= dialled'
    BY <1>4 DEF Inv, WorkerInv
  <2>2. QED
    BY <1>3, <1>5, <1>6, <2>1, WorkerStep DEF Inv
<1>8. ConnInv'
  <2>1. \A u \in Worker : worker'[u] = worker[u]
                          \/ (worker[u].at \notin InHand /\ worker'[u].at \notin InHand)
    BY <1>2, <1>6, <1>7 DEF InHand
  <2>2. ConnInv /\ WorkerInv /\ InstInv /\ open' = open
    BY <1>4 DEF Inv
  <2>3. QED
    BY <1>3, <2>1, <2>2, ConnGrows
<1>9. RxInv'
  BY <1>3, <1>4, <1>5, RxGrows DEF Inv
<1>10. QED
  BY <1>3, <1>7, <1>8, <1>9 DEF Inv

LEMMA DialKeeps == ASSUME Inv, NEW w \in Worker, Dial(w) PROVE Inv'
<1>0. worker[w] \in Job /\ worker[w].at = "dial" /\ Good(worker[w], Len(inst), dialled)
  BY DEF Dial, Inv, WorkerInv
<1>1. CASE (Step(w, "failed") \/ Step(w, "timedOut")) /\ UNCHANGED conns
  BY <1>0, <1>1, Steps DEF Dial, Place, HasInst, InHand, table, conns
<1>2. CASE /\ dialled' = dialled + 1 /\ open' = open \cup {dialled + 1}
           /\ worker' = [worker EXCEPT ![w].at = "dialled", ![w].conn = dialled + 1]
  <2> DEFINE v == [worker[w] EXCEPT !.at = "dialled", !.conn = dialled + 1]
  <2>1. InstInv' /\ TableInv' /\ EndInv' /\ RxInv' /\ UNCHANGED inst
    BY Frame DEF Dial, Inv, RxInv, table
  <2>2. dialled \in Nat
    BY DEF Inv, WorkerInv
  <2>3. v \in Job /\ v.at = "dialled" /\ v.conn = dialled + 1 /\ v.sid = worker[w].sid
        /\ v.inst = worker[w].inst
    <3>1. "dialled" \in Place /\ dialled + 1 \in Nat
      BY <2>2 DEF Place, HasInst, InHand
    <3>2. QED
      BY <1>0, <3>1 DEF Job
  <2>4. worker' = [worker EXCEPT ![w] = v]
    BY <1>2 DEF Inv, WorkerInv
  <2> HIDE DEF v
  <2>5. Good(v, Len(inst'), dialled')
    BY <1>0, <1>2, <2>1, <2>2, <2>3 DEF Good, HasInst, InHand
  <2>6. WorkerInv' /\ \A u \in Worker : worker'[u] = IF u = w THEN v ELSE worker[u]
    <3>1. Len(inst) <= Len(inst') /\ dialled' \in Nat /\ dialled <= dialled'
      BY <1>2, <2>1, <2>2, LenNat DEF Inv
    <3>2. QED
      BY <2>1, <2>3, <2>4, <2>5, <3>1, WorkerStep DEF Inv
  <2>7. ConnInv'
    <3>1. 0 \notin open'
      BY <1>2, <2>2 DEF Inv, ConnInv
    <3>2. worker'[w].conn = dialled + 1 /\ worker'[w].at \in InHand /\ worker'[w].at # "attached"
      BY <2>3, <2>6 DEF InHand
    <3>3. \A u \in Worker : worker[u].at \in InHand => u # w /\ worker'[u] = worker[u]
      BY <1>0, <2>6 DEF InHand
    <3>4. \A c \in open : \/ \E u \in Worker : worker'[u].conn = c /\ worker'[u].at \in InHand
                          \/ \E n \in 1 .. Len(inst) : HasOwner(n, c)
      BY <3>3 DEF Inv, ConnInv
    <3>5. ASSUME NEW u \in Worker, worker'[u].at = "attached", worker'[u].conn \in open'
          PROVE  HasOwner(worker'[u].inst, worker'[u].conn)
      <4>1. u # w /\ worker'[u] = worker[u]
        BY <2>6, <3>2, <3>5
      <4>2. worker[u].conn \in 1 .. dialled
        BY <3>5, <4>1 DEF Inv, WorkerInv, Good, InHand
      <4>3. worker[u].conn \in open
        BY <1>2, <2>2, <3>5, <4>1, <4>2
      <4>4. QED
        BY <3>5, <4>1, <4>3 DEF Inv, ConnInv
    <3>6. QED
      BY <1>2, <2>1, <3>1, <3>2, <3>4, <3>5 DEF ConnInv, HasOwner, Owns
  <2>8. QED
    BY <2>1, <2>6, <2>7 DEF Inv
<1>3. QED
  BY <1>1, <1>2 DEF Dial

LEMMA AttachKeeps == ASSUME Inv, NEW w \in Worker, Attach(w) PROVE Inv'
<1> DEFINE n == worker[w].inst
           c == worker[w].conn
<1>0. /\ worker[w] \in Job /\ worker[w].at = "attach" /\ dialled \in Nat
      /\ Good(worker[w], Len(inst), dialled) /\ n \in 1 .. Len(inst) /\ c \in 1 .. dialled
  BY DEF Attach, Inv, WorkerInv, Good, HasInst, InHand
<1>1. CASE Drop(w) /\ Step(w, "finalize") /\ UNCHANGED inst
  BY <1>0, <1>1, Steps DEF Attach, Drop, Place, HasInst, InHand, table
<1>2. CASE /\ Attachable(n) /\ Step(w, "attached") /\ UNCHANGED conns
           /\ inst' = [inst EXCEPT ![n].conn = c, ![n].connected = TRUE, ![n].status = "CONNECTED"]
  <2> DEFINE v == [inst[n] EXCEPT !.conn = c, !.connected = TRUE, !.status = "CONNECTED"]
             j == [worker[w] EXCEPT !.at = "attached"]
  <2>1. inst[n] \in Instance /\ inst[n].arq # "closed" /\ inst[n].conn = 0 /\ inst[n].fin = "no"
    BY <1>0, <1>2, ElementOfSeq DEF Inv, InstInv, Attachable
  <2>2. v \in Instance /\ v.sid = inst[n].sid /\ v.fin = "no" /\ v.conn = c /\ v.arq # "closed"
    BY <1>0, <2>1 DEF Instance, Job
  <2>0. inst' = [inst EXCEPT ![n] = v]
    BY <1>0, <1>2, LenNat DEF Inv
  <2>3. j \in Job /\ j.at = "attached" /\ j.sid = worker[w].sid /\ j.inst = n /\ j.conn = c
    BY <1>0 DEF Job, Place, HasInst, InHand
  <2>4. worker' = [worker EXCEPT ![w] = j]
    BY <1>2 DEF Step, Inv, WorkerInv
  <2> HIDE DEF v, j
  <2>5. /\ InstInv' /\ UNCHANGED Len(inst)
        /\ \A m \in 1 .. Len(inst) : inst'[m] = IF m = n THEN v ELSE inst[m]
    BY <1>0, <2>2, <2>0, Alter DEF Inv
  <2>6. UNCHANGED <<streams, closer, rx, open, dialled, session>>
    BY <1>2 DEF Attach, conns, table, session
  <2>7. TableInv'
    BY <1>0, <2>1, <2>2, <2>5, <2>6, TableStays DEF Inv
  <2>8. EndInv'
    BY <1>0, <2>1, <2>5, <2>6 DEF Inv, EndInv, session
  <2>9. RxInv'
    BY <2>5, <2>6 DEF Inv, RxInv
  <2>10. WorkerInv' /\ \A u \in Worker : worker'[u] = IF u = w THEN j ELSE worker[u]
    <3>1. Good(j, Len(inst'), dialled')
      BY <1>0, <2>3, <2>5, <2>6 DEF Good, HasInst, InHand
    <3>2. Len(inst) <= Len(inst') /\ dialled' \in Nat /\ dialled <= dialled'
      BY <1>0, <2>5, <2>6, LenNat DEF Inv
    <3>3. QED
      BY <2>3, <2>4, <2>5, <3>1, <3>2, WorkerStep DEF Inv
  <2>11. ConnInv'
    <3>1. \A m \in 1 .. Len(inst), d \in open : HasOwner(m, d) => HasOwner(m, d)'
      BY <2>1, <2>5 DEF HasOwner, Owns, Inv, ConnInv
    <3>2. \A d \in open : \/ \E u \in Worker : worker'[u].conn = d /\ worker'[u].at \in InHand
                          \/ \E m \in 1 .. Len(inst) : HasOwner(m, d)'
      <4>1. TAKE d \in open
      <4>2. ASSUME NEW u \in Worker, worker[u].conn = d, worker[u].at \in InHand
            PROVE  worker'[u].conn = d /\ worker'[u].at \in InHand
        BY <2>3, <2>10, <4>2 DEF InHand
      <4>3. QED
        BY <3>1, <4>2 DEF Inv, ConnInv
    <3>3. ASSUME NEW u \in Worker, worker'[u].at = "attached", worker'[u].conn \in open
          PROVE  Owns(inst'[worker'[u].inst], worker'[u].conn)
      <4>1. CASE u = w
        BY <1>0, <2>2, <2>3, <2>5, <2>10, <4>1 DEF HasOwner, Owns
      <4>2. CASE u # w
        <5>1. worker'[u] = worker[u] /\ HasOwner(worker[u].inst, worker[u].conn)
          BY <2>10, <3>3, <4>2 DEF Inv, ConnInv
        <5>2. worker[u].inst \in 1 .. Len(inst)
          BY <3>3, <5>1 DEF Inv, WorkerInv, Good, HasInst, InHand
        <5>3. QED
          BY <3>1, <3>3, <5>1, <5>2 DEF HasOwner, Owns
      <4>3. QED
        BY <4>1, <4>2
    <3>4. QED
      BY <2>5, <2>6, <3>2, <3>3 DEF Inv, ConnInv, HasOwner, Owns
  <2>12. QED
    BY <2>5, <2>7, <2>8, <2>9, <2>10, <2>11 DEF Inv
<1>3. QED
  BY <1>1, <1>2 DEF Attach

LEMMA ConnectKeeps ==
  ASSUME Inv, NEW w \in Worker, Connect(w)
  PROVE  Inv'
<1>0. worker[w] \in Job /\ Good(worker[w], Len(inst), dialled)
  BY DEF Inv, WorkerInv
<1>1. ASSUME NEW s \in Sid, Take(w, s) PROVE Inv'
  <2> DEFINE v == [Resting EXCEPT !.at = "start", !.sid = s]
  <2>1. v \in Job /\ v.at = "start" /\ v.sid = s
    BY DEF Resting, Job, Place
  <2>2. worker' = [worker EXCEPT ![w] = v] /\ worker[w].at = "idle"
    BY <1>1 DEF Take
  <2> HIDE DEF v
  <2>3. Good(v, Len(inst), dialled)
    BY <2>1 DEF Good, HasInst, InHand
  <2>4. UNCHANGED <<streams, inst, session, rx, dialled, open>>
    BY <1>1 DEF Take, table, conns
  <2>5. QED
    BY <2>1, <2>2, <2>3, <2>4, Moves DEF InHand
<1>2. CASE Start(w)
  BY <1>2, Steps DEF Start, Place, HasInst, InHand, table, conns
<1>3. CASE Create(w)
  BY <1>3, CreateKeeps
<1>4. CASE Found(w)
  BY <1>4, Steps DEF Found, Place, HasInst, InHand, table, conns
<1>5. CASE Dial(w)
  BY <1>5, DialKeeps
<1>6. CASE Failed(w)
  BY <1>6, Steps DEF Failed, Place, HasInst, InHand, table, conns
<1>7. CASE Dialled(w)
  BY <1>7, Steps DEF Dialled, Drop, Place, HasInst, InHand, table, conns
<1>8. CASE Attach(w)
  BY <1>8, AttachKeeps
<1>9. CASE Attached(w)
  BY <1>9, Steps DEF Attached, Drop, Place, HasInst, InHand, table, conns
<1>10. CASE Finalize(w)
  BY <1>10, Steps DEF Finalize, Place, HasInst, InHand, table, conns
<1>11. CASE Finish(w)
  <2>1. Resting \in Job /\ Good(Resting, Len(inst), dialled) /\ Resting.at = "idle"
    BY DEF Resting, Job, Place, Good, HasInst, InHand
  <2>2. UNCHANGED <<streams, inst, session, rx, dialled, open>> /\ worker[w].at = "finish"
    BY <1>11 DEF Finish, table, conns
  <2>3. worker' = [worker EXCEPT ![w] = Resting]
    BY <1>11 DEF Finish
  <2>4. QED
    BY <2>1, <2>2, <2>3, Moves DEF InHand
<1>12. QED
  BY <1>1, <1>2, <1>3, <1>4, <1>5, <1>6, <1>7, <1>8, <1>9, <1>10, <1>11 DEF Connect

-----------------------------------------------------------------------------
(* The end of a stream *)

(* A step of taking a stream apart that leaves its connection alone.       *)
LEMMA Apart ==
  ASSUME Inv, NEW n \in 1 .. Len(inst), NEW from \in Fin, NEW fin \in Fin \ {"no", "cleanup", "remove"},
         At(n, from), from \notin {"no", "cleanup"}, Then(n, fin),
         Unmoved, UNCHANGED <<conns, session>>
  PROVE  /\ InstInv' /\ WorkerInv' /\ EndInv' /\ ConnInv' /\ UNCHANGED Len(inst)
         /\ \A m \in 1 .. Len(inst) : /\ inst'[m].sid = inst[m].sid
                                      /\ inst'[m].fin = IF m = n THEN fin ELSE inst[m].fin
<1> DEFINE v == [inst[n] EXCEPT !.fin = fin]
<1>1. inst[n] \in Instance /\ inst[n].arq = "closed" /\ inst[n].fin = from
  BY ElementOfSeq DEF Inv, InstInv, At
<1>2. v \in Instance /\ v.fin = fin /\ v.arq = "closed" /\ v.sid = inst[n].sid
  BY <1>1 DEF Instance
<1>3. inst' = [inst EXCEPT ![n] = v]
  BY LenNat DEF Then, Inv
<1> HIDE DEF v
<1>4. /\ InstInv' /\ UNCHANGED Len(inst)
      /\ \A m \in 1 .. Len(inst) : inst'[m] = IF m = n THEN v ELSE inst[m]
  BY <1>2, <1>3, Alter DEF Inv
<1>5. WorkerInv' /\ EndInv' /\ ConnInv'
  <2>1. open' \subseteq open /\ UNCHANGED <<dialled, session>>
    BY DEF conns
  <2>2. \A c \in open' : HasOwner(n, c) => v.conn = c /\ v.fin \in {"no", "cleanup"}
    BY <1>1 DEF HasOwner, Owns
  <2>3. QED
    BY <1>2, <1>4, <2>1, <2>2, Altered DEF Inv
<1>6. QED
  BY <1>2, <1>4, <1>5

LEMMA CleanupKeeps == ASSUME Inv, NEW n \in 1 .. Len(inst), Cleanup(n) PROVE Inv'
<1> DEFINE v == [inst[n] EXCEPT !.fin = "remove", !.status = "CLOSED", !.connected = FALSE, !.conn = 0]
<1>1. inst[n] \in Instance /\ inst[n].arq = "closed" /\ inst[n].fin = "cleanup"
  BY ElementOfSeq DEF Inv, InstInv, Cleanup, At
<1>2. v \in Instance /\ v.fin = "remove" /\ v.arq = "closed" /\ v.sid = inst[n].sid
  BY <1>1 DEF Instance, Fin
<1>3. inst' = [inst EXCEPT ![n] = v]
  BY LenNat DEF Cleanup, Inv
<1> HIDE DEF v
<1>4. /\ InstInv' /\ UNCHANGED Len(inst)
      /\ \A m \in 1 .. Len(inst) : inst'[m] = IF m = n THEN v ELSE inst[m]
  BY <1>2, <1>3, Alter DEF Inv
<1>5. UNCHANGED <<worker, dialled, session, rx, streams, closer>>
  BY DEF Cleanup, session, table
<1>6. WorkerInv' /\ EndInv' /\ ConnInv'
  <2>0. Unmoved
    BY <1>5, StayUnmoved DEF Inv
  <2>1. open' \subseteq open /\ \A c \in open' : ~HasOwner(n, c)
    BY DEF Cleanup, HasOwner, Owns
  <2>2. QED
    BY <1>2, <1>4, <1>5, <2>0, <2>1, Altered DEF Inv
<1>7. TableInv'
  BY <1>1, <1>2, <1>4, <1>5, TableStays DEF Inv
<1>8. RxInv'
  BY <1>4, <1>5 DEF Inv, RxInv
<1>9. QED
  BY <1>4, <1>6, <1>7, <1>8 DEF Inv

LEMMA TakeApartKeeps == ASSUME Inv, NEW n, TakeApart(n) PROVE Inv'
<1>0. n \in 1 .. Len(inst)
  BY LenNat DEF TakeApart, Cleanup, RemoveStream, NoteClosed, CleanKeys, CleanLane, At, Inv
<1>1. CASE Cleanup(n)
  BY <1>0, <1>1, CleanupKeeps
<1>2. CASE RemoveStream(n)
  <2> DEFINE s == inst[n].sid
  <2>1. Unmoved /\ UNCHANGED <<conns, session, rx>> /\ At(n, "remove")
    BY <1>2, StayUnmoved DEF RemoveStream, Inv
  <2>2. PICK fin \in {"keys", "note"} : Then(n, fin)
    BY <1>2 DEF RemoveStream
  <2>3. /\ InstInv' /\ WorkerInv' /\ EndInv' /\ ConnInv' /\ UNCHANGED Len(inst)
        /\ \A m \in 1 .. Len(inst) : /\ inst'[m].sid = inst[m].sid
                                     /\ inst'[m].fin = IF m = n THEN fin ELSE inst[m].fin
    BY <1>0, <2>1, <2>2, Apart DEF Fin
  <2>4. streams' = streams \/ streams' = [streams EXCEPT ![s] = 0]
    BY <1>2 DEF RemoveStream
  <2>5. \A m \in 1 .. Len(inst) : inst[m].sid \in Sid
    <3>1. inst \in [1 .. Len(inst) -> Instance]
      BY LenProperties DEF Inv, InstInv
    <3>2. QED
      BY <3>1 DEF Instance
  <2>6. streams' \in [Sid -> 0 .. Len(inst')]
    BY <1>0, <2>3, <2>4, LenNat DEF Inv, TableInv
  <2>7. ASSUME closer.at \notin {"lanes", "done"}, NEW m \in 1 .. Len(inst),
               inst'[m].fin \in {"no", "cleanup", "remove"}
        PROVE  streams'[inst'[m].sid] = m
    <3>1. m # n /\ inst'[m].sid = inst[m].sid /\ inst[m].fin = inst'[m].fin
      BY <2>2, <2>3, <2>7
    <3>2. streams[inst[m].sid] = m /\ streams[s] = n
      BY <1>0, <2>1, <2>7, <3>1 DEF Inv, TableInv, At
    <3>3. inst[m].sid # s
      BY <3>1, <3>2
    <3>4. QED
      BY <1>0, <2>4, <2>5, <3>1, <3>2, <3>3 DEF Inv, TableInv
  <2>8. TableInv'
    BY <2>1, <2>3, <2>6, <2>7 DEF TableInv, session
  <2>9. RxInv'
    BY <2>1, <2>3 DEF Inv, RxInv
  <2>10. QED
    BY <2>3, <2>8, <2>9 DEF Inv
<1>3. CASE NoteClosed(n) \/ CleanKeys(n) \/ CleanLane(n)
  <2>1. UNCHANGED <<conns, session, rx, streams>>
    BY <1>3 DEF NoteClosed, CleanKeys, CleanLane, table
  <2>2. PICK from \in {"note", "keys", "lane"}, fin \in {"keys", "lane", "done"} :
          At(n, from) /\ Then(n, fin)
    BY <1>3 DEF NoteClosed, CleanKeys, CleanLane
  <2>3. Unmoved
    BY <1>3, StayUnmoved, CancelMoves DEF NoteClosed, CleanKeys, CleanLane, RemoveLane, Inv
  <2>4. /\ InstInv' /\ WorkerInv' /\ EndInv' /\ ConnInv' /\ UNCHANGED Len(inst)
        /\ \A m \in 1 .. Len(inst) : /\ inst'[m].sid = inst[m].sid
                                     /\ inst'[m].fin = IF m = n THEN fin ELSE inst[m].fin
    BY <1>0, <2>1, <2>2, <2>3, Apart DEF Fin
  <2>5. TableInv'
    BY <2>1, <2>2, <2>4 DEF Inv, TableInv, session
  <2>6. RxInv'
    BY <2>1, <2>4 DEF Inv, RxInv
  <2>7. QED
    BY <2>4, <2>5, <2>6 DEF Inv
<1>4. QED
  BY <1>1, <1>2, <1>3 DEF TakeApart

LEMMA ArqClosesKeeps == ASSUME Inv, NEW n, ArqCloses(n) PROVE Inv'
<1>0. n \in 1 .. Len(inst)
  BY LenNat DEF ArqCloses, Inv
<1>1. UNCHANGED <<streams, conns, session, worker, rx>>
  BY DEF ArqCloses, table
<1>2. CASE inst' = CloseNow(n)
  <2>1. WorkerInv' /\ InstInv' /\ TableInv' /\ EndInv' /\ ConnInv' /\ UNCHANGED Len(inst)
    <3>1. UNCHANGED closer.at
      BY <1>1 DEF session
    <3>2. QED
      BY <1>0, <1>1, <1>2, <3>1, Closes
  <2>2. RxInv'
    BY <1>1, <2>1 DEF Inv, RxInv
  <2>3. QED
    BY <2>1, <2>2 DEF Inv
<1>3. CASE inst[n].arq = "open" /\ inst' = [inst EXCEPT ![n].arq = "reset"]
  <2> DEFINE v == [inst[n] EXCEPT !.arq = "reset"]
  <2>1. inst[n] \in Instance /\ inst[n].fin = "no"
    BY <1>0, <1>3, ElementOfSeq DEF Inv, InstInv
  <2>2. v \in Instance /\ v.fin = "no" /\ v.sid = inst[n].sid /\ v.conn = inst[n].conn
    BY <2>1 DEF Instance
  <2>3. inst' = [inst EXCEPT ![n] = v]
    BY <1>0, <1>3, LenNat DEF Inv
  <2> HIDE DEF v
  <2>4. /\ InstInv' /\ UNCHANGED Len(inst)
        /\ \A m \in 1 .. Len(inst) : inst'[m] = IF m = n THEN v ELSE inst[m]
    BY <1>0, <2>2, <2>3, Alter DEF Inv
  <2>5. WorkerInv' /\ EndInv' /\ ConnInv'
    <3>1. open' \subseteq open /\ Unmoved /\ UNCHANGED <<dialled, session>>
      BY <1>1, StayUnmoved DEF conns, Inv
    <3>2. \A c \in open' : HasOwner(n, c) => v.conn = c /\ v.fin \in {"no", "cleanup"}
      BY <2>2 DEF HasOwner, Owns
    <3>3. QED
      BY <1>0, <1>3, <2>2, <2>4, <3>1, <3>2, Altered DEF Inv
  <2>6. TableInv'
    BY <1>0, <1>1, <2>1, <2>2, <2>4, TableStays DEF Inv, session
  <2>7. RxInv'
    BY <1>1, <2>4 DEF Inv, RxInv
  <2>8. QED
    BY <2>4, <2>5, <2>6, <2>7 DEF Inv
<1>4. QED
  BY <1>2, <1>3 DEF ArqCloses

-----------------------------------------------------------------------------
(* The end of the session *)

LEMMA EndKeeps == ASSUME Inv, End \/ EndSession PROVE Inv'
<1>0. DOMAIN inst = 1 .. Len(inst)
  BY LenNat DEF Inv
<1>1. CASE \E n \in 1 .. MaxInst : EndClose(n)
  <2>1. PICK n : EndClose(n)
    BY <1>1
  <2>2. /\ closer.at = "close" /\ n \in closer.left /\ inst' = CloseNow(n)
        /\ closer' = [at |-> "close", left |-> closer.left \ {n}, on |-> n]
        /\ UNCHANGED <<streams, known, recordClosed, conns, rx, worker>>
    BY <2>1 DEF EndClose, CloserTo, table
  <2>3. n \in 1 .. Len(inst)
    BY <2>2 DEF Inv, EndInv
  <2>4. /\ WorkerInv' /\ InstInv' /\ TableInv' /\ ConnInv' /\ UNCHANGED Len(inst)
        /\ \A m \in 1 .. Len(inst) : (m = n \/ inst[m].arq = "closed") => inst'[m].arq = "closed"
    BY <2>2, <2>3, Closes
  <2>5. EndInv' /\ RxInv'
    BY <2>2, <2>4 DEF Inv, EndInv, RxInv
  <2>6. QED
    BY <2>4, <2>5 DEF Inv
<1>2. CASE EndMaps
  <2>1. /\ closer.at = "close" /\ closer.left = {} /\ closer' = [at |-> "lanes", left |-> {}, on |-> 0]
        /\ streams' = [s \in Sid |-> 0]
        /\ UNCHANGED <<inst, known, recordClosed, conns, rx, worker>>
    BY <1>2 DEF EndMaps, CloserTo
  <2>2. TableInv' /\ InstInv' /\ RxInv'
    BY <2>1, LenNat DEF Inv, TableInv, InstInv, RxInv
  <2>3. EndInv'
    BY <2>1 DEF Inv, EndInv
  <2>4. QED
    BY <2>1, <2>2, <2>3, WorkersStay DEF Inv
<1>3. CASE EndSnapshot
  <2>1. /\ closer.at = "snapshot" /\ closer' = [at |-> "close", left |-> Here, on |-> 0]
        /\ UNCHANGED <<streams, inst, known, recordClosed, conns, rx, worker>>
    BY <1>3 DEF EndSnapshot, CloserTo, table
  <2>2. TableInv' /\ InstInv' /\ RxInv'
    BY <2>1 DEF Inv, TableInv, InstInv, RxInv
  <2>3. \A n \in 1 .. Len(inst) : inst[n].arq = "closed" \/ n \in Here
    BY <1>0, <2>1 DEF Inv, TableInv, InstInv, Here
  <2>4. EndInv'
    BY <1>0, <2>1, <2>3 DEF Inv, EndInv, Here
  <2>5. QED
    BY <2>1, <2>2, <2>4, WorkersStay DEF Inv
<1>4. CASE EndLanes
  <2>1. /\ closer.at = "lanes" /\ closer' = [at |-> "done", left |-> {}, on |-> 0] /\ worker' = Cancelled(Sid)
        /\ UNCHANGED <<streams, inst, known, recordClosed, conns, rx>>
    BY <1>4 DEF EndLanes, CloserTo, table
  <2>2. TableInv' /\ InstInv' /\ RxInv' /\ EndInv'
    BY <2>1 DEF Inv, TableInv, InstInv, RxInv, EndInv
  <2>3. QED
    BY <2>1, <2>2, Cancel DEF Inv
<1>5. CASE EndSession \/ EndKeys \/ EndMark
  <2>1. UNCHANGED <<streams, inst, conns, rx, worker>>
    BY <1>5 DEF EndSession, EndKeys, EndMark, table
  <2>2. /\ closer.at \notin {"close", "lanes", "done"}
        /\ closer'.at \in {"keys", "mark", "snapshot"} /\ ~known'
        /\ closer'.at = "snapshot" => recordClosed'
    BY <1>5 DEF EndSession, EndKeys, EndMark, CloserTo, Inv, EndInv
  <2>3. TableInv' /\ InstInv' /\ RxInv' /\ EndInv'
    BY <2>1, <2>2 DEF Inv, TableInv, InstInv, RxInv, EndInv
  <2>4. QED
    BY <2>1, <2>3, WorkersStay DEF Inv
<1>6. QED
  BY <1>1, <1>2, <1>3, <1>4, <1>5 DEF End

-----------------------------------------------------------------------------
LEMMA InitInv == ASSUME Init PROVE Inv
<1>1. RxInv
  BY DEF Init, Idle, RxInv, Handling, RxPlace, Holds
<1>2. inst = <<>> /\ Len(inst) = 0 /\ inst \in Seq(Instance) /\ 1 .. Len(inst) = {}
  BY EmptySeq DEF Init
<1>3. WorkerInv /\ ConnInv
  BY DEF Init, Resting, WorkerInv, ConnInv, Job, Place, Good, HasInst, InHand
<1>4. InstInv /\ TableInv /\ EndInv
  BY <1>2 DEF Init, InstInv, TableInv, EndInv
<1>5. QED
  BY <1>1, <1>3, <1>4 DEF Inv

LEMMA StepInv == ASSUME Inv, [Next]_vars PROVE Inv'
<1>1. CASE \E i \in Rx : Ingress(i)
  BY <1>1, IngressKeeps
<1>2. CASE \E i \in Rx, s \in Sid : Syn(i, s) \/ Reset(i, s) \/ PeerCloses(i, s)
  BY <1>2, PacketKeeps
<1>3. CASE \E w \in Worker : Connect(w)
  BY <1>3, ConnectKeeps
<1>4. CASE \E n \in 1 .. MaxInst : TakeApart(n)
  BY <1>4, TakeApartKeeps
<1>5. CASE \E n \in 1 .. MaxInst : ArqCloses(n)
  BY <1>5, ArqClosesKeeps
<1>6. CASE \E s \in Sid : Forget(s)
  <2>1. UNCHANGED <<streams, inst, session, conns, worker, rx>>
    BY <1>6 DEF Forget
  <2>2. RxInv'
    BY <2>1 DEF Inv, RxInv
  <2>3. QED
    BY <2>1, <2>2, Aside
<1>7. CASE EndSession \/ End
  BY <1>7, EndKeeps
<1>8. CASE UNCHANGED vars
  <2>1. UNCHANGED <<streams, inst, session, conns, worker, rx>>
    BY <1>8 DEF vars, session, conns
  <2>2. RxInv'
    BY <2>1 DEF Inv, RxInv
  <2>3. QED
    BY <2>1, <2>2, Aside
<1>9. QED
  BY <1>1, <1>2, <1>3, <1>4, <1>5, <1>6, <1>7, <1>8 DEF Next

LEMMA Invariance == Spec => []Inv
<1>1. Inv /\ [Next]_vars => Inv'
  BY StepInv
<1>2. QED
  BY <1>1, InitInv, PTL DEF Spec

(* attachUpstreamConn, cleanupResources: a connection that was dialled is  *)
(* in the hands of the worker that dialled it, or belongs to a stream that *)
(* is still to be taken apart; for any number of goroutines and streams.   *)
THEOREM OwnedConnections == Spec => []ConnOwned
<1>1. Inv => ConnOwned
  BY InvImplies
<1>2. QED
  BY <1>1, Invariance, PTL

(* closeAllStreams: no stream of a session that was closed runs on, not    *)
(* even one that a packet was creating as the session was marked.          *)
THEOREM NothingOutlives == Spec => []EndedIsEmpty
<1>1. Inv => EndedIsEmpty
  BY InvImplies
<1>2. QED
  BY <1>1, Invariance, PTL

-----------------------------------------------------------------------------
(* The limit on the streams of a session. *)

(* A set of numbers has a least one. *)
LEMMA LeastOf ==
  ASSUME NEW D, D \subseteq Nat, D # {}
  PROVE  \E d \in D : \A e \in D : d <= e
<1> DEFINE R == StrictSubsetOrdering(Nat)
           T == {0 .. d - 1 : d \in D}
<1>1. \A d \in Nat : 0 .. d - 1 \in FiniteSubsetsOf(Nat)
  BY FS_Interval DEF FiniteSubsetsOf
<1>2. T \subseteq FiniteSubsetsOf(Nat) /\ T # {}
  BY <1>1
<1>3. \E x \in T : \A y \in T : ~ (<<y, x>> \in R)
  <2> HIDE DEF R, T
  <2>1. IsWellFoundedOn(R, FiniteSubsetsOf(Nat))
    BY FS_StrictSubsetOrderingWellFounded DEF R
  <2> QED
    BY <1>2, <2>1, WFMin
<1>4. PICK d \in D : \A e \in D : ~ (<<0 .. e - 1, 0 .. d - 1>> \in R)
  BY <1>3
<1>5. ASSUME NEW e \in D, e < d PROVE FALSE
  <2>1. 0 .. e - 1 \subseteq 0 .. d - 1 /\ e \in 0 .. d - 1 /\ e \notin 0 .. e - 1
    BY <1>5
  <2>2. 0 .. e - 1 \in SUBSET Nat /\ 0 .. d - 1 \in SUBSET Nat
    BY <1>5
  <2>3. <<0 .. e - 1, 0 .. d - 1>> \in R
    BY <2>1, <2>2 DEF StrictSubsetOrdering
  <2> QED
    BY <1>4, <2>3
<1> QED
  BY <1>5

(* Leaving tasks out of the queue leaves a queue: the recursion behind     *)
(* Without is defined for every length, by its least counterexample.       *)
LEMMA WithoutType ==
  ASSUME jobs \in Seq(Sid), NEW s
  PROVE  Without(s) \in Seq(Sid)
<1> DEFINE Keep(f, k) == IF k = 0 THEN <<>> ELSE
                         IF jobs[k] = s THEN f[k - 1] ELSE Append(f[k - 1], jobs[k])
           Defined(f, m) == f = [k \in 0 .. m |-> Keep(f, k)]
           Bad == {m \in 0 .. Len(jobs) : ~ \E f : Defined(f, m)}
<1>1. /\ Len(jobs) \in Nat /\ \A k \in 1 .. Len(jobs) : jobs[k] \in Sid
  BY ElementOfSeq, LenProperties
<1>2. ASSUME NEW m \in 0 .. Len(jobs), \A e \in 0 .. Len(jobs) : e < m => e \notin Bad
      PROVE  m \notin Bad
  <2>1. CASE m = 0
    <3>1. Defined([k \in 0 .. 0 |-> <<>>], 0)
      OBVIOUS
    <3> QED
      BY <2>1, <3>1
  <2>2. CASE m # 0
    <3>1. m - 1 \in 0 .. Len(jobs) /\ m - 1 < m
      BY <1>1, <2>2
    <3>2. PICK f : Defined(f, m - 1)
      BY <1>2, <3>1
    <3> DEFINE g == [k \in 0 .. m |-> IF k = m THEN Keep(f, m) ELSE f[k]]
    <3>3. \A k \in 0 .. m : g[k] = Keep(g, k)
      <4>1. \A k \in 0 .. m : k # 0 => k - 1 \in 0 .. m - 1 /\ g[k - 1] = f[k - 1]
        BY <1>1, <2>2
      <4>2. Keep(g, m) = Keep(f, m)
        BY <2>2, <4>1
      <4>3. \A k \in 0 .. m - 1 : f[k] = Keep(f, k) /\ g[k] = f[k] /\ k \in 0 .. m
        <5>1. \A k \in 0 .. m - 1 : g[k] = f[k] /\ k \in 0 .. m
          BY <1>1
        <5>2. f = [k \in 0 .. m - 1 |-> Keep(f, k)]
          BY <3>2
        <5> HIDE DEF Keep, g
        <5> QED
          BY <5>1, <5>2
      <4>4. g[m] = Keep(f, m)
        BY <1>1
      <4> HIDE DEF g
      <4>5. \A k \in 0 .. m - 1 : Keep(g, k) = Keep(f, k)
        BY <4>1, <4>3
      <4>6. \A k \in 0 .. m : k = m \/ k \in 0 .. m - 1
        BY <1>1
      <4> QED
        BY <4>2, <4>3, <4>4, <4>5, <4>6
    <3>4. g = [k \in 0 .. m |-> g[k]]
      OBVIOUS
    <3> HIDE DEF g
    <3>5. Defined(g, m)
      BY <3>3, <3>4
    <3> QED
      BY <3>5
  <2> QED
    BY <2>1, <2>2
<1>3. Bad = {}
  <2>1. Bad \subseteq Nat /\ Bad \subseteq 0 .. Len(jobs)
    BY <1>1
  <2> HIDE DEF Bad
  <2>2. ASSUME Bad # {} PROVE FALSE
    <3>1. PICK m \in Bad : \A e \in Bad : m <= e
      BY <2>1, <2>2, LeastOf
    <3>2. m \in 0 .. Len(jobs) /\ \A e \in 0 .. Len(jobs) : e < m => e \notin Bad
      BY <1>1, <2>1, <3>1
    <3> QED
      BY <1>2, <3>2
  <2> QED
    BY <2>2
<1> DEFINE F == CHOOSE f : Defined(f, Len(jobs))
<1>4. Defined(F, Len(jobs))
  <2>1. Len(jobs) \notin Bad
    BY <1>3
  <2>2. \E f : Defined(f, Len(jobs))
    BY <1>1, <2>1
  <2> QED
    BY <2>2
<1>5. Without(s) = F[Len(jobs)]
  BY DEF Without
<1> HIDE DEF F
<1>6. \A k \in 0 .. Len(jobs) : F[k] = Keep(F, k)
  BY <1>4
<1> DEFINE Wrong == {k \in 0 .. Len(jobs) : F[k] \notin Seq(Sid)}
<1>7. Wrong = {}
  <2>1. Wrong \subseteq Nat
    BY <1>1
  <2>2. ASSUME Wrong # {} PROVE FALSE
    <3>1. PICK k \in Wrong : \A e \in Wrong : k <= e
      <4> HIDE DEF Wrong
      <4> QED
        BY <2>1, <2>2, LeastOf
    <3>2. F[k] = Keep(F, k) /\ k \in 0 .. Len(jobs)
      BY <1>6
    <3>3. k # 0
      BY <3>2, EmptySeq
    <3>4. k - 1 \in 0 .. Len(jobs) /\ k \in 1 .. Len(jobs) /\ F[k - 1] \in Seq(Sid)
      BY <1>1, <3>1, <3>2, <3>3
    <3>5. Append(F[k - 1], jobs[k]) \in Seq(Sid)
      BY <1>1, <3>4, AppendProperties
    <3> QED
      BY <3>2, <3>3, <3>4, <3>5
  <2> QED
    BY <2>2
<1> QED
  BY <1>1, <1>5, <1>7

-----------------------------------------------------------------------------
(* The ids that are taken. *)
Occupied == {s \in Sid : streams[s] # 0}

(* The table: it is within the limit, and agrees with the active set and   *)
(* with the streams.                                                       *)
LimitInv ==
  /\ active \subseteq Occupied
  /\ IsFiniteSet(Occupied) /\ Cardinality(Occupied) <= Limit
  /\ \A s \in Sid : streams[s] # 0 => inst[streams[s]].sid = s

(* The lists beside it. *)
ListInv == /\ recentlyClosed \subseteq Sid /\ inflight \subseteq Sid /\ open \subseteq 1 .. dialled
           /\ jobs \in Seq(Sid)

(* A stream keeps its id. *)
SidsStay == \A n \in 1 .. Len(inst) : n \in 1 .. Len(inst') /\ inst'[n].sid = inst[n].sid

LEMMA SidOf ==
  ASSUME Inv
  PROVE  /\ \A n \in 1 .. Len(inst) : inst[n] \in Instance /\ inst[n].sid \in Sid
         /\ inst \in [1 .. Len(inst) -> Instance] /\ DOMAIN inst = 1 .. Len(inst)
         /\ \A w \in Worker : worker[w].at # "idle" => worker[w].sid \in Sid
         /\ \A i \in Rx : rx[i].at # "idle" => rx[i].sid \in Sid
<1>1. inst \in [1 .. Len(inst) -> Instance]
  BY LenProperties DEF Inv, InstInv
<1> QED
  BY <1>1 DEF Inv, WorkerInv, Good, RxInv, Holds, Instance

LEMMA MadeSids == ASSUME Inv, NEW s \in Sid, NEW n, GetOrCreate(s, n) PROVE SidsStay
<1>1. CASE UNCHANGED inst
  BY <1>1 DEF SidsStay
<1>2. CASE inst' = Append(inst, Fresh(s))
  BY <1>2, AppendProperties, LenNat, ElementOfSeq DEF Inv, InstInv, SidsStay, Fresh, Instance, Fin
<1> QED
  BY <1>1, <1>2 DEF GetOrCreate

LEMMA NextSids == ASSUME Inv, Inv', [Next]_vars PROVE SidsStay
<1>0. /\ inst \in [1 .. Len(inst) -> Instance] /\ DOMAIN inst = 1 .. Len(inst)
      /\ DOMAIN inst' = 1 .. Len(inst')
      /\ \A w \in Worker : worker[w].at # "idle" => worker[w].sid \in Sid
      /\ \A i \in Rx : rx[i].at # "idle" => rx[i].sid \in Sid
  BY SidOf, LenProperties DEF Inv, InstInv
<1>1. ASSUME NEW m \in 1 .. Len(inst), NEW v \in Instance, v.sid = inst[m].sid,
             inst' = [inst EXCEPT ![m] = v]
      PROVE  SidsStay
  BY <1>0, <1>1 DEF SidsStay
<1>2. ASSUME NEW m \in 1 .. Len(inst), inst' = CloseNow(m) PROVE SidsStay
  BY <1>0, <1>2 DEF SidsStay, CloseNow, Instance
<1>3. CASE UNCHANGED inst
  BY <1>0, <1>3 DEF SidsStay
<1>4. ASSUME NEW i \in Rx, Ingress(i), ~UNCHANGED inst PROVE SidsStay
  <2>1. CASE Ack(i)
    BY <1>0, <2>1, MadeSids DEF Ack
  <2>2. CASE ResetCloses(i)
    BY <1>2, <2>2 DEF ResetCloses, Inv, RxInv, Holds
  <2> QED
    BY <1>4, <2>1, <2>2 DEF Ingress, CheckLimit, Immediate, Clear, Lane, Begin, Enqueue
<1>5. ASSUME NEW w \in Worker, Connect(w), ~UNCHANGED inst PROVE SidsStay
  <2>1. CASE Create(w)
    BY <1>0, <2>1, MadeSids DEF Create
  <2>2. CASE Attach(w)
    <3>1. worker[w].inst \in 1 .. Len(inst)
      BY <2>2 DEF Attach, Inv, WorkerInv, Good, HasInst, InHand
    <3>2. inst' = [inst EXCEPT ![worker[w].inst].conn = worker[w].conn, ![worker[w].inst].connected = TRUE,
                               ![worker[w].inst].status = "CONNECTED"]
      BY <1>5, <2>2 DEF Attach
    <3> QED
      BY <1>0, <3>1, <3>2 DEF SidsStay, Instance
  <2> QED
    BY <1>5, <2>1, <2>2 DEF Connect, Take, Start, Found, Dial, Failed, Dialled, Attached, Finalize, Finish
<1>6. ASSUME NEW n, TakeApart(n) \/ ArqCloses(n), ~UNCHANGED inst PROVE SidsStay
  <2>1. n \in 1 .. Len(inst)
    BY <1>0, <1>6 DEF TakeApart, Cleanup, RemoveStream, NoteClosed, CleanKeys, CleanLane, At, ArqCloses
  <2>2. CASE Cleanup(n)
    BY <1>0, <2>1, <2>2 DEF Cleanup, SidsStay, Instance
  <2>3. CASE \E fin : Then(n, fin)
    BY <1>0, <2>1, <2>3 DEF Then, SidsStay, Instance
  <2>4. CASE ArqCloses(n)
    <3>1. CASE inst' = CloseNow(n)
      BY <1>2, <2>1, <3>1
    <3>2. CASE inst' = [inst EXCEPT ![n].arq = "reset"]
      BY <1>0, <2>1, <3>2 DEF SidsStay, Instance
    <3> QED
      BY <2>4, <3>1, <3>2 DEF ArqCloses
  <2> QED
    BY <1>6, <2>2, <2>3, <2>4 DEF TakeApart, RemoveStream, NoteClosed, CleanKeys, CleanLane
<1>7. CASE \E n \in 1 .. MaxInst : EndClose(n)
  BY <1>0, <1>2, <1>7 DEF EndClose, Inv, EndInv
<1>8. CASE \/ \E i \in Rx, s \in Sid : Syn(i, s) \/ Reset(i, s) \/ PeerCloses(i, s)
           \/ \E s \in Sid : Forget(s)
           \/ EndSession \/ EndKeys \/ EndMark \/ EndSnapshot \/ EndMaps \/ EndLanes
           \/ UNCHANGED vars
  BY <1>3, <1>8 DEF Syn, Reset, PeerCloses, Forget, EndSession, EndKeys, EndMark, EndSnapshot, EndMaps,
                    EndLanes, vars
<1> QED
  BY <1>3, <1>4, <1>5, <1>6, <1>7, <1>8 DEF Next, End

-----------------------------------------------------------------------------
LEMMA TableSame ==
  ASSUME Inv, LimitInv, SidsStay, UNCHANGED streams, active' \subseteq active PROVE LimitInv'
<1>1. Occupied' = Occupied
  BY DEF Occupied
<1>2. \A s \in Sid : streams[s] \in 0 .. Len(inst) /\ (streams[s] # 0 => streams[s] \in 1 .. Len(inst))
  BY LenNat DEF Inv, TableInv
<1> QED
  BY <1>1, <1>2 DEF LimitInv, SidsStay

(* getOrCreateStream takes an id only below the limit. *)
LEMMA MadeWithin ==
  ASSUME Inv, Inv', LimitInv, SidsStay, NEW s \in Sid, NEW n, GetOrCreate(s, n), Limit \in Nat
  PROVE  LimitInv'
<1>1. CASE UNCHANGED table
  BY <1>1, TableSame DEF table
<1>2. CASE /\ streams[s] = 0 /\ CanCreate(s) /\ n = Len(inst) + 1
           /\ streams' = [streams EXCEPT ![s] = n] /\ active' = active \cup {s}
           /\ inst' = Append(inst, Fresh(s))
  <2>1. /\ Len(inst) \in Nat /\ streams \in [Sid -> 0 .. Len(inst)]
        /\ inst'[n].sid = s /\ n # 0
    <3>1. Len(inst) \in Nat /\ streams \in [Sid -> 0 .. Len(inst)] /\ n # 0
      BY <1>2, LenNat DEF Inv, TableInv
    <3>2. Fresh(s) \in Instance
      BY DEF Fresh, Instance, Fin
    <3>3. inst'[n] = Fresh(s)
      BY <1>2, <3>2, AppendProperties DEF Inv, InstInv
    <3> QED
      BY <3>1, <3>3 DEF Fresh
  <2>2. Occupied' = Occupied \cup {s} /\ s \notin Occupied
    BY <1>2, <2>1 DEF Occupied
  <2>3. Cardinality(Occupied) < Limit
    BY <1>2 DEF CanCreate, Occupied
  <2>4. IsFiniteSet(Occupied') /\ Cardinality(Occupied') <= Limit
    <3>1. Cardinality(Occupied) \in Nat
      BY FS_CardinalityType DEF LimitInv
    <3>2. IsFiniteSet(Occupied \cup {s}) /\ Cardinality(Occupied \cup {s}) = Cardinality(Occupied) + 1
      BY <2>2, FS_AddElement DEF LimitInv
    <3> QED
      BY <2>2, <2>3, <3>1, <3>2
  <2>5. \A t \in Sid : streams'[t] # 0 => inst'[streams'[t]].sid = t
    <3>1. ASSUME NEW t \in Sid, t # s, streams[t] # 0 PROVE inst'[streams[t]].sid = t
      <4>1. streams[t] \in 1 .. Len(inst)
        BY <2>1, <3>1
      <4> QED
        BY <3>1, <4>1 DEF LimitInv, SidsStay
    <3> QED
      BY <1>2, <2>1, <3>1
  <2> QED
    BY <1>2, <2>2, <2>4, <2>5 DEF LimitInv
<1> QED
  BY <1>1, <1>2 DEF GetOrCreate

(* removeStream frees the id of the stream, whose entry it is. *)
LEMMA RemovedWithin ==
  ASSUME Inv, LimitInv, SidsStay, NEW n \in 1 .. Len(inst), RemoveStream(n), Limit \in Nat
  PROVE  LimitInv'
<1> DEFINE s == inst[n].sid
<1>1. CASE recordClosed
  BY <1>1, TableSame DEF RemoveStream
<1>2. CASE streams' = [streams EXCEPT ![s] = 0] /\ active' = active \ {s}
  <2>1. s \in Sid /\ streams \in [Sid -> 0 .. Len(inst)]
    BY SidOf DEF Inv, TableInv
  <2> HIDE DEF s
  <2>2. Occupied' = Occupied \ {s}
    BY <1>2, <2>1 DEF Occupied
  <2>3. IsFiniteSet(Occupied') /\ Cardinality(Occupied') <= Limit
    <3>1. Cardinality(Occupied) \in Nat
      BY FS_CardinalityType DEF LimitInv
    <3>2. IsFiniteSet(Occupied \ {s}) /\ Cardinality(Occupied \ {s}) <= Cardinality(Occupied)
      BY FS_Subset DEF LimitInv
    <3>3. Cardinality(Occupied \ {s}) \in Nat
      BY <3>2, FS_CardinalityType
    <3> QED
      BY <2>2, <3>1, <3>2, <3>3 DEF LimitInv
  <2>4. \A t \in Sid : streams'[t] # 0 => inst'[streams'[t]].sid = t
    <3> SUFFICES ASSUME NEW t \in Sid, streams'[t] # 0 PROVE inst'[streams'[t]].sid = t
      OBVIOUS
    <3>1. streams'[t] = streams[t] /\ streams[t] \in 1 .. Len(inst)
      BY <1>2, <2>1, LenNat DEF Inv
    <3> QED
      BY <3>1 DEF LimitInv, SidsStay
  <2> QED
    BY <1>2, <2>2, <2>3, <2>4 DEF LimitInv
<1> QED
  BY <1>1, <1>2 DEF RemoveStream

LEMMA LimitNext == ASSUME Inv, Inv', LimitInv, [Next]_vars, Limit \in Nat PROVE LimitInv'
<1>0. SidsStay
  BY NextSids
<1>1. CASE UNCHANGED streams /\ active' \subseteq active
  BY <1>0, <1>1, TableSame
<1>2. ASSUME NEW i \in Rx, Ingress(i) PROVE LimitInv'
  <2>1. CASE Ack(i)
    BY <1>0, <2>1, SidOf, MadeWithin DEF Ack
  <2>2. CASE ~Ack(i)
    BY <1>1, <1>2, <2>2 DEF Ingress, CheckLimit, Immediate, Clear, Lane, Begin, Enqueue, ResetCloses, table
  <2> QED
    BY <2>1, <2>2
<1>3. ASSUME NEW w \in Worker, Connect(w) PROVE LimitInv'
  <2>1. CASE Create(w)
    BY <1>0, <2>1, SidOf, MadeWithin DEF Create
  <2>2. CASE ~Create(w)
    BY <1>1, <1>3, <2>2 DEF Connect, Take, Start, Found, Dial, Failed, Dialled, Attach, Attached, Finalize,
                            Finish, table
  <2> QED
    BY <2>1, <2>2
<1>4. ASSUME NEW n, TakeApart(n) PROVE LimitInv'
  <2>1. n \in 1 .. Len(inst)
    BY <1>4, LenNat DEF TakeApart, Cleanup, RemoveStream, NoteClosed, CleanKeys, CleanLane, At, Inv
  <2>2. CASE RemoveStream(n)
    BY <1>0, <2>1, <2>2, RemovedWithin
  <2>3. CASE ~RemoveStream(n)
    BY <1>1, <1>4, <2>3 DEF TakeApart, Cleanup, NoteClosed, CleanKeys, CleanLane, table
  <2> QED
    BY <2>2, <2>3
<1>5. CASE EndMaps
  <2>1. streams' = [s \in Sid |-> 0] /\ active' = {} /\ Occupied' = {}
    BY <1>5 DEF EndMaps, Occupied
  <2> QED
    BY <2>1, FS_EmptySet DEF LimitInv
<1>6. CASE \/ \E i \in Rx, s \in Sid : Syn(i, s) \/ Reset(i, s) \/ PeerCloses(i, s)
           \/ \E s \in Sid : Forget(s)
           \/ \E n \in 1 .. MaxInst : ArqCloses(n) \/ EndClose(n)
           \/ EndSession \/ EndKeys \/ EndMark \/ EndSnapshot \/ EndLanes
           \/ UNCHANGED vars
  BY <1>1, <1>6 DEF Syn, Reset, PeerCloses, Forget, ArqCloses, EndClose, EndSession, EndKeys, EndMark,
                    EndSnapshot, EndLanes, vars, table
<1> QED
  BY <1>2, <1>3, <1>4, <1>5, <1>6 DEF Next, End

-----------------------------------------------------------------------------
LEMMA QueueNext == ASSUME Inv, jobs \in Seq(Sid), [Next]_vars PROVE jobs' \in Seq(Sid)
<1>0. \A s : Without(s) \in Seq(Sid)
  BY WithoutType
<1>1. ASSUME NEW i \in Rx, Ingress(i) PROVE jobs' \in Seq(Sid)
  <2>1. CASE Enqueue(i)
    BY <2>1, SidOf, AppendProperties DEF Enqueue
  <2>2. CASE Lane(i)
    BY <1>0, <2>2 DEF Lane, RemoveLane
  <2> QED
    BY <1>1, <2>1, <2>2 DEF Ingress, CheckLimit, Immediate, Clear, Begin, Ack, ResetCloses, deferred
<1>2. ASSUME NEW w \in Worker, Connect(w) PROVE jobs' \in Seq(Sid)
  <2>1. CASE \E s \in Sid : Take(w, s)
    BY <2>1, HeadTailProperties DEF Take
  <2>2. CASE Finalize(w)
    BY <1>0, <2>2 DEF Finalize
  <2> QED
    BY <1>2, <2>1, <2>2 DEF Connect, Start, Create, Found, Dial, Failed, Dialled, Attach, Attached, Finish,
                            deferred
<1>3. ASSUME NEW n, TakeApart(n) PROVE jobs' \in Seq(Sid)
  BY <1>0, <1>3 DEF TakeApart, Cleanup, RemoveStream, NoteClosed, CleanKeys, CleanLane, RemoveLane, deferred
<1>4. CASE EndLanes
  BY <1>4, EmptySeq DEF EndLanes
<1>5. CASE \/ \E i \in Rx, s \in Sid : Syn(i, s) \/ Reset(i, s) \/ PeerCloses(i, s)
           \/ \E s \in Sid : Forget(s)
           \/ \E n \in 1 .. MaxInst : ArqCloses(n) \/ EndClose(n)
           \/ EndSession \/ EndKeys \/ EndMark \/ EndSnapshot \/ EndMaps
           \/ UNCHANGED vars
  BY <1>5 DEF Syn, Reset, PeerCloses, Forget, ArqCloses, EndClose, EndSession, EndKeys, EndMark,
              EndSnapshot, EndMaps, vars, deferred
<1> QED
  BY <1>1, <1>2, <1>3, <1>4, <1>5 DEF Next, End

LEMMA ListNext == ASSUME Inv, ListInv, [Next]_vars PROVE ListInv'
<1>0. jobs' \in Seq(Sid) /\ dialled \in Nat
  BY QueueNext DEF ListInv, Inv, WorkerInv
<1>1. CASE UNCHANGED <<recentlyClosed, dialled>> /\ inflight' \subseteq inflight /\ open' \subseteq open
  BY <1>0, <1>1 DEF ListInv
<1>2. ASSUME NEW s \in Sid, NEW n, GetOrCreate(s, n), UNCHANGED <<inflight, conns>> PROVE ListInv'
  BY <1>0, <1>2 DEF GetOrCreate, ListInv, conns, table
<1>3. ASSUME NEW i \in Rx, Ingress(i) PROVE ListInv'
  <2>1. CASE Ack(i)
    BY <1>2, <2>1, SidOf DEF Ack, deferred
  <2>2. CASE Begin(i)
    BY <1>0, <2>2, SidOf DEF Begin, ListInv, conns, table
  <2>3. CASE ~Ack(i) /\ ~Begin(i)
    BY <1>1, <1>3, <2>3 DEF Ingress, CheckLimit, Immediate, Clear, ClearKeys, Lane, Enqueue, ResetCloses,
                            table, conns, deferred
  <2> QED
    BY <2>1, <2>2, <2>3
<1>4. ASSUME NEW w \in Worker, Connect(w) PROVE ListInv'
  <2>1. CASE Create(w)
    BY <1>2, <2>1, SidOf DEF Create, deferred
  <2>2. CASE Dial(w)
    <3>1. UNCHANGED <<recentlyClosed, inflight>>
      BY <2>2 DEF Dial, table, deferred
    <3>2. CASE UNCHANGED conns
      BY <1>1, <3>1, <3>2 DEF conns
    <3>3. CASE dialled' = dialled + 1 /\ open' = open \cup {dialled + 1}
      BY <1>0, <3>1, <3>3 DEF ListInv
    <3> QED
      BY <2>2, <3>2, <3>3 DEF Dial
  <2>3. CASE ~Create(w) /\ ~Dial(w)
    BY <1>1, <1>4, <2>3 DEF Connect, Take, Start, Found, Failed, Dialled, Attach, Attached, Finalize,
                            Finish, Drop, ClearKeys, table, conns, deferred
  <2> QED
    BY <2>1, <2>2, <2>3
<1>5. ASSUME NEW n, TakeApart(n) PROVE ListInv'
  <2>1. n \in 1 .. Len(inst)
    BY <1>5, LenNat DEF TakeApart, Cleanup, RemoveStream, NoteClosed, CleanKeys, CleanLane, At, Inv
  <2>2. CASE NoteClosed(n)
    BY <1>0, <2>1, <2>2, SidOf DEF NoteClosed, ListInv, conns, deferred
  <2>3. CASE ~NoteClosed(n)
    BY <1>1, <1>5, <2>3 DEF TakeApart, Cleanup, RemoveStream, CleanKeys, CleanLane, ClearKeys, table, conns,
                            deferred
  <2> QED
    BY <2>2, <2>3
<1>6. CASE \E s \in Sid : Forget(s)
  BY <1>0, <1>6 DEF Forget, ListInv, conns, deferred
<1>7. CASE \/ \E i \in Rx, s \in Sid : Syn(i, s) \/ Reset(i, s) \/ PeerCloses(i, s)
           \/ \E n \in 1 .. MaxInst : ArqCloses(n) \/ EndClose(n)
           \/ EndSession \/ EndKeys \/ EndMark \/ EndSnapshot \/ EndMaps \/ EndLanes
           \/ UNCHANGED vars
  BY <1>1, <1>7 DEF Syn, Reset, PeerCloses, ArqCloses, EndClose, EndSession, EndKeys, EndMark,
              EndSnapshot, EndMaps, EndLanes, vars, deferred, conns, table
<1> QED
  BY <1>3, <1>4, <1>5, <1>6, <1>7 DEF Next, End

(* canCreateAdditionalStreamLocked is asked when a SYN arrives and again   *)
(* with the stream made, under one lock: however many goroutines create    *)
(* streams at once, a session never has more than the limit, and its       *)
(* table, its active set and its streams agree.                            *)
THEOREM WithinLimit == ASSUME Limit \in Nat PROVE Spec => []LimitKept
<1>1. Init => LimitInv /\ ListInv
  <2> SUFFICES ASSUME Init PROVE LimitInv /\ ListInv
    OBVIOUS
  <2>1. Occupied = {}
    BY DEF Init, Occupied
  <2> QED
    BY <2>1, FS_EmptySet, EmptySeq DEF Init, LimitInv, ListInv
<1>2. Inv /\ Inv' /\ LimitInv /\ ListInv /\ [Next]_vars => LimitInv' /\ ListInv'
  BY LimitNext, ListNext
<1>3. Inv /\ LimitInv /\ ListInv => LimitKept
  <2> SUFFICES ASSUME Inv, LimitInv, ListInv PROVE LimitKept
    OBVIOUS
  <2>1. ToSet(jobs) \subseteq Sid
    BY ElementOfSeq, LenProperties DEF ListInv, ToSet
  <2> QED
    BY <2>1 DEF LimitKept, TypeOK, Inv, TableInv, LimitInv, ListInv, Occupied
<1> QED
  BY <1>1, <1>2, <1>3, Invariance, PTL DEF Spec
=============================================================================
