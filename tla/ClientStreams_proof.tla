------------------------ MODULE ClientStreams_proof ------------------------
(***************************************************************************)
(* For any number of connections, ids and processors: what an application  *)
(* reads of the result, where a stream is that left the table, and who     *)
(* resets a stream that was given up.  One inductive invariant, Inv, says  *)
(* which processor holds which stream, and what has been written to it.    *)
(***************************************************************************)
EXTENDS ClientStreams, FiniteSetTheorems, SequenceTheorems, WellFoundedInduction, TLAPS
Stream == [sid : Sid, arq : {"open", "ending", "closed"}, owner : {"alive", "owed", "done"},
           conn : {"open", "closed"}, status : Statuses, terminal : BOOLEAN, ready : BOOLEAN,
           replies : Seq(BOOLEAN)]

(* The owner is told of the end of the ARQ, not before and not twice.      *)
Sound == {i \in Stream : i.owner = "alive" <=> i.arq # "closed"}

(* The replies that an application may have read.                          *)
Unread == <<>>
Won    == <<TRUE>>
Failed == <<FALSE>>
Broken == <<TRUE, FALSE>>

SocksPlace == {"lock", "write", "result", "ready", "late", "force", "unwritten"}
TcpPlace   == {"connected", "failed", "active", "fail"}
Place      == SocksPlace \cup TcpPlace \cup {"idle", "rst", "rstMark", "rstSet"}

AcceptPlace == {"idle", "relay", "id", "new", "status"}
SweepSaw    == {"", "DRAINING", "CLOSING", "TIME_WAIT"}

InstInv == inst \in Seq(Sound)

TableInv == /\ table \in [Sid -> 0 .. Len(inst)]
            /\ \A s \in Sid : table[s] # 0 => inst[table[s]].sid = s

ListInv ==
  /\ protocol \in {"SOCKS5", "TCP"} /\ runtime \in {"up", "closing", "down"}
  /\ lastId \in Sid \cup {0} /\ recent \subseteq Sid /\ doomed \subseteq 1 .. Len(inst)
  /\ sweep \in [left : SUBSET (1 .. Len(inst)), inst : 0 .. Len(inst), saw : SweepSaw, remove : SUBSET Sid]

(* An id that was handed out is in no other hands, and free until its      *)
(* stream is made.                                                         *)
AcceptInv ==
  /\ accepted \in [Accepted -> [at : AcceptPlace, sid : Sid \cup {0}, inst : 0 .. Len(inst), ok : BOOLEAN]]
  /\ \A a \in Accepted :
       /\ accepted[a].at \in {"idle", "relay", "id"} => accepted[a].sid = 0 /\ accepted[a].inst = 0
       /\ accepted[a].at = "new" =>
            /\ accepted[a].sid \in Sid /\ accepted[a].inst = 0 /\ table[accepted[a].sid] = 0
            /\ \A p \in Processor : processor[p].sid # accepted[a].sid
       /\ accepted[a].at = "status" => accepted[a].sid \in Sid /\ accepted[a].inst \in 1 .. Len(inst)
  /\ \A a, b \in Accepted : a # b /\ accepted[a].sid # 0 => accepted[a].sid # accepted[b].sid

(* A processor that looks its id up again finds the stream it holds, or    *)
(* none; and that stream is set up.                                        *)
Holding(v) ==
  /\ v.sid \in Sid /\ v.inst \in 1 .. Len(inst) /\ inst[v.inst].sid = v.sid
  /\ table[v.sid] \in {0, v.inst}
  /\ \A a \in Accepted : accepted[a].inst # v.inst
  /\ v.at \in SocksPlace => protocol = "SOCKS5"
  /\ v.at \in TcpPlace => protocol = "TCP"

ProcInv ==
  /\ processor \in [Processor -> [at : Place, sid : Sid \cup {0}, inst : 0 .. Len(inst), ok : BOOLEAN]]
  /\ \A p \in Processor : IF processor[p].at = "idle" THEN processor[p] = Resting ELSE Holding(processor[p])

(* A stream that is open is found, or about to be closed; what is about to *)
(* be closed is closed before the runtime starts again.                    *)
RunInv ==
  /\ runtime # "up" => SweepIdle
  /\ runtime = "down" => doomed = {}
  /\ \A n \in 1 .. Len(inst) : inst[n].arq = "closed" \/ n \in doomed \/ table[inst[n].sid] = n

(* Whoever cancelled a stream has still to reset it.                       *)
CancelInv ==
  \A n \in 1 .. Len(inst) :
    inst[n].status = "CANCELLED" /\ inst[n].arq = "open" /\ table[inst[n].sid] = n =>
      \E p \in Processor : processor[p].inst = n /\ processor[p].at = "late"

Writing(v) == v.at \in {"write", "result"}

(* The result of a stream is in the hands of one processor at a time.      *)
LockInv == \A p, q \in Processor :
  p # q /\ Writing(processor[p]) /\ Writing(processor[q]) => processor[p].inst # processor[q].inst

(* What may be written, was written, or follows what was.                  *)
Fits(v, r) ==
  /\ v.at = "write" => IF v.ok THEN r = Unread ELSE r \in {Unread, Won}
  /\ v.at = "result" => IF v.ok THEN r = Won ELSE r \in {Failed, Broken}
  /\ v.at = "ready" => r \in {Won, Broken}

(* The status tells what was written, but while it is being set.           *)
Tells(i) == /\ i.replies = Won => i.status \in Over \cup {"ACTIVE"}
            /\ i.replies \in {Failed, Broken} => i.status \in Over \cup {"SOCKS_FAILED"}

ReplyInv ==
  /\ \A n \in 1 .. Len(inst) :
       /\ inst[n].replies \in {Unread, Won, Failed, Broken}
       /\ inst[n].replies # Unread => protocol = "SOCKS5" /\ \A a \in Accepted : accepted[a].inst # n
       /\ Tells(inst[n]) \/ \E p \in Processor : processor[p].inst = n /\ processor[p].at = "result"
       /\ protocol = "SOCKS5" /\ inst[n].ready => inst[n].replies \in {Won, Broken}
  /\ \A p \in Processor : processor[p].at # "idle" => Fits(processor[p], inst[processor[p].inst].replies)

StreamsInv == InstInv /\ TableInv /\ ListInv /\ AcceptInv /\ ProcInv
Inv == StreamsInv /\ RunInv /\ CancelInv /\ LockInv /\ ReplyInv

-----------------------------------------------------------------------------
(* The replies. *)

LEMMA ReplyForm ==
  /\ Unread \in Seq(BOOLEAN) /\ Won \in Seq(BOOLEAN) /\ Failed \in Seq(BOOLEAN) /\ Broken \in Seq(BOOLEAN)
  /\ Len(Unread) = 0 /\ Len(Won) = 1 /\ Len(Failed) = 1 /\ Len(Broken) = 2
  /\ DOMAIN Unread = 1 .. 0 /\ DOMAIN Won = 1 .. 1 /\ DOMAIN Failed = 1 .. 1 /\ DOMAIN Broken = 1 .. 2
<1>1. Unread \in Seq(BOOLEAN) /\ Len(Unread) = 0 /\ DOMAIN Unread = 1 .. 0
  BY DEF Unread
<1>2. Won \in Seq(BOOLEAN) /\ Len(Won) = 1 /\ DOMAIN Won = 1 .. 1
  BY DEF Won
<1>3. Failed \in Seq(BOOLEAN) /\ Len(Failed) = 1 /\ DOMAIN Failed = 1 .. 1
  BY DEF Failed
<1>4. Broken \in Seq(BOOLEAN) /\ Len(Broken) = 2 /\ DOMAIN Broken = 1 .. 2
  BY DEF Broken
<1> QED
  BY <1>1, <1>2, <1>3, <1>4

LEMMA ReplyValues ==
  Won[1] = TRUE /\ Failed[1] = FALSE /\ Broken[1] = TRUE /\ Broken[2] = FALSE
BY DEF Won, Failed, Broken

LEMMA ReplyLonger ==
  Append(Unread, TRUE) = Won /\ Append(Unread, FALSE) = Failed /\ Append(Won, FALSE) = Broken
<1>1. Append(Unread, TRUE) = Won
  BY DEF Unread, Won
<1>2. Append(Unread, FALSE) = Failed
  BY DEF Unread, Failed
<1>3. Append(Won, FALSE) = Broken
  <2> DEFINE a == Append(Won, FALSE)
  <2>1. a \in Seq(BOOLEAN) /\ Len(a) = 2 /\ a[1] = TRUE /\ a[2] = FALSE
    BY ReplyForm, ReplyValues, AppendProperties
  <2> HIDE DEF a
  <2>2. \A k \in 1 .. Len(a) : a[k] = Broken[k]
    <3> TAKE k \in 1 .. Len(a)
    <3>1. k = 1 \/ k = 2
      BY <2>1
    <3> QED
      BY <2>1, <3>1, ReplyValues
  <2>3. Broken \in Seq(BOOLEAN) /\ Len(a) = Len(Broken)
    BY <2>1, ReplyForm
  <2>4. a = Broken
    BY <2>1, <2>2, <2>3, SeqEqual
  <2> QED
    BY <2>4 DEF a
<1> QED
  BY <1>1, <1>2, <1>3

LEMMA RepliesDiffer ==
  Unread # Won /\ Unread # Failed /\ Unread # Broken /\ Won # Failed /\ Won # Broken /\ Failed # Broken
<1>1. Won # Failed
  BY ReplyValues
<1>2. Unread # Won /\ Unread # Failed /\ Unread # Broken /\ Won # Broken /\ Failed # Broken
  <2>1. Len(Unread) = 0 /\ Len(Won) = 1 /\ Len(Failed) = 1 /\ Len(Broken) = 2
    BY ReplyForm
  <2> QED
    BY <2>1
<1> QED
  BY <1>1, <1>2

LEMMA ReplyFacts ==
  ASSUME NEW r \in {Unread, Won, Failed, Broken}
  PROVE  /\ \A j, k \in DOMAIN r : j < k => r[j] /\ ~r[k] /\ k = 2
         /\ r \in {Won, Broken} => r # <<>> /\ r[1]
<1>1. ASSUME NEW j \in DOMAIN r, NEW k \in DOMAIN r, j < k PROVE r = Broken /\ j = 1 /\ k = 2
  <2>1. r # Unread
    BY <1>1, ReplyForm
  <2>2. r # Won /\ r # Failed
    BY <1>1, ReplyForm
  <2> QED
    BY <1>1, <2>1, <2>2, ReplyForm
<1>2. r \in {Won, Broken} => r # <<>> /\ r[1]
  BY ReplyValues, RepliesDiffer DEF Unread
<1> QED
  BY <1>1, <1>2, ReplyValues

-----------------------------------------------------------------------------
(* The streams. *)

LEMMA InstFacts ==
  ASSUME InstInv
  PROVE  /\ Len(inst) \in Nat /\ DOMAIN inst = 1 .. Len(inst)
         /\ inst \in [1 .. Len(inst) -> Sound]
         /\ \A n \in 1 .. Len(inst) : inst[n] \in Sound /\ inst[n].sid \in Sid
BY LenProperties, ElementOfSeq DEF InstInv, Sound, Stream

(* What a step may do to a stream at any time: it ends it, and sets a      *)
(* status of the end.                                                      *)
Milder(i, f) ==
  /\ f \in Sound /\ f.sid = i.sid
  /\ i.arq # "open" => f.arq # "open"
  /\ i.arq = "closed" => f.arq = "closed"
  /\ f.replies = i.replies /\ f.ready = i.ready
  /\ f.status \in Over \cup {i.status}

AllMilder == /\ InstInv' /\ Len(inst') = Len(inst)
             /\ \A n \in 1 .. Len(inst) : Milder(inst[n], inst'[n])

LEMMA SelfMild == ASSUME NEW i \in Sound PROVE Milder(i, i)
BY DEF Milder

LEMMA ClosedMild ==
  ASSUME NEW i \in Sound PROVE Milder(i, Closed(i)) /\ Closed(i).arq = "closed"
BY DEF Milder, Closed, Sound, Stream

LEMMA ResettingMild ==
  ASSUME NEW i \in Sound PROVE Milder(i, Resetting(i)) /\ Resetting(i).arq # "open"
BY DEF Milder, Resetting, Sound, Stream

LEMMA StatusMild ==
  ASSUME NEW i \in Sound, NEW s \in Over
  PROVE  /\ Milder(i, [i EXCEPT !.status = s]) /\ [i EXCEPT !.status = s].arq = i.arq
         /\ [i EXCEPT !.status = s].status = s
BY DEF Milder, Sound, Stream, Statuses

LEMMA TerminalMild ==
  ASSUME NEW i \in Sound
  PROVE  /\ Milder(i, [i EXCEPT !.terminal = TRUE]) /\ [i EXCEPT !.terminal = TRUE].arq = i.arq
         /\ [i EXCEPT !.terminal = TRUE].status = i.status
BY DEF Milder, Sound, Stream

LEMMA MildTwice ==
  ASSUME NEW i, NEW f, NEW g, Milder(i, f), Milder(f, g) PROVE Milder(i, g)
BY DEF Milder

LEMMA UpdateOne ==
  ASSUME InstInv, NEW n \in 1 .. Len(inst), NEW f \in Sound, Update(n, f)
  PROVE  /\ InstInv' /\ Len(inst') = Len(inst) /\ inst'[n] = f
         /\ \A m \in 1 .. Len(inst) : inst'[m] = IF m = n THEN f ELSE inst[m]
BY ExceptSeq DEF InstInv, Update

LEMMA UpdateMild ==
  ASSUME InstInv, NEW n \in 1 .. Len(inst), NEW f, Milder(inst[n], f), Update(n, f)
  PROVE  AllMilder /\ inst'[n] = f
<1>1. f \in Sound
  BY DEF Milder
<1>2. \A m \in 1 .. Len(inst) : Milder(inst[m], inst[m])
  BY InstFacts, SelfMild
<1> QED
  BY <1>1, <1>2, UpdateOne DEF AllMilder

LEMMA UnchangedMild == ASSUME InstInv, UNCHANGED inst PROVE AllMilder
BY InstFacts, SelfMild DEF AllMilder, InstInv

-----------------------------------------------------------------------------
(* Steps beside the goroutines: they only take streams apart. *)

Fades == /\ table' \in [Sid -> 0 .. Len(inst)]
         /\ \A s \in Sid : table'[s] \in {0, table[s]}

LEMMA FadingKeeps ==
  ASSUME Inv, AllMilder, Fades, ListInv', RunInv', UNCHANGED <<protocol, accepted, processor>>
  PROVE  Inv'
<1>1. /\ InstInv' /\ Len(inst') = Len(inst) /\ Len(inst) \in Nat
      /\ \A n \in 1 .. Len(inst) : Milder(inst[n], inst'[n]) /\ inst[n].sid \in Sid
  BY InstFacts DEF AllMilder, Inv, StreamsInv
<1>2. TableInv'
  <2> SUFFICES ASSUME NEW s \in Sid, table'[s] # 0 PROVE inst'[table'[s]].sid = s
    BY <1>1 DEF TableInv, Fades
  <2>1. table'[s] = table[s] /\ table[s] \in 1 .. Len(inst) /\ inst[table[s]].sid = s
    BY DEF Fades, Inv, StreamsInv, TableInv
  <2> QED
    BY <1>1, <2>1 DEF Milder
<1>3. AcceptInv'
  BY <1>1 DEF Inv, StreamsInv, AcceptInv, Fades
<1>4. ProcInv'
  <2>1. ASSUME NEW p \in Processor, processor[p].at # "idle" PROVE Holding(processor[p])'
    <3>1. Holding(processor[p])
      BY <2>1 DEF Inv, StreamsInv, ProcInv
    <3>2. inst'[processor[p].inst].sid = inst[processor[p].inst].sid
      BY <1>1, <3>1 DEF Holding, Milder
    <3> QED
      BY <1>1, <3>1, <3>2 DEF Holding, Fades
  <2> QED
    BY <1>1, <2>1 DEF Inv, StreamsInv, ProcInv
<1>5. CancelInv'
  <2> SUFFICES ASSUME NEW n \in 1 .. Len(inst), inst'[n].status = "CANCELLED", inst'[n].arq = "open",
                      table'[inst'[n].sid] = n
               PROVE  \E p \in Processor : processor[p].inst = n /\ processor[p].at = "late"
    BY <1>1 DEF CancelInv
  <2>1. inst[n].status = "CANCELLED" /\ inst[n].arq = "open" /\ inst'[n].sid = inst[n].sid
    BY <1>1 DEF Milder, Over
  <2>2. table[inst[n].sid] = n
    BY <1>1, <2>1 DEF Fades
  <2> QED
    BY <2>1, <2>2 DEF Inv, CancelInv
<1>6. LockInv'
  BY DEF Inv, LockInv
<1>7. ReplyInv'
  <2>1. \A n \in 1 .. Len(inst) : /\ inst'[n].replies = inst[n].replies /\ inst'[n].ready = inst[n].ready
                                  /\ inst'[n].status \in Over \cup {inst[n].status}
    BY <1>1 DEF Milder
  <2>2. \A n \in 1 .. Len(inst) : Tells(inst[n]) => Tells(inst'[n])
    BY <2>1 DEF Tells
  <2>3. \A p \in Processor : processor[p].at # "idle" => processor[p].inst \in 1 .. Len(inst)
    BY DEF Inv, StreamsInv, ProcInv, Holding
  <2> QED
    BY <1>1, <2>1, <2>2, <2>3 DEF Inv, ReplyInv
<1> QED
  BY <1>1, <1>2, <1>3, <1>4, <1>5, <1>6, <1>7 DEF Inv, StreamsInv

(* A stream leaves the table to be closed, or closed.                      *)
Handed == /\ \A s \in Sid : table'[s] = table[s] \/ table[s] = 0 \/ table[s] \in doomed' \/ inst'[table[s]].arq = "closed"
          /\ \A n \in 1 .. Len(inst) : n \in doomed => n \in doomed' \/ inst'[n].arq = "closed"
Paused == (runtime' # "up" => SweepIdle') /\ (runtime' = "down" => doomed' = {})

LEMMA NoneDropped ==
  ASSUME Inv, AllMilder, Handed, Paused PROVE RunInv'
<1>1. Len(inst') = Len(inst) /\ \A n \in 1 .. Len(inst) : Milder(inst[n], inst'[n]) /\ inst[n].sid \in Sid
  BY InstFacts DEF AllMilder, Inv, StreamsInv
<1>2. ASSUME NEW n \in 1 .. Len(inst)
      PROVE  inst'[n].arq = "closed" \/ n \in doomed' \/ table'[inst'[n].sid] = n
  <2>1. /\ inst'[n].sid = inst[n].sid /\ inst[n].sid \in Sid
        /\ inst[n].arq = "closed" => inst'[n].arq = "closed"
    BY <1>1 DEF Milder
  <2>2. inst[n].arq = "closed" \/ n \in doomed \/ table[inst[n].sid] = n
    BY DEF Inv, RunInv
  <2>3. n # 0
    BY InstFacts DEF Inv, StreamsInv
  <2> QED
    BY <2>1, <2>2, <2>3 DEF Handed
<1> QED
  BY <1>1, <1>2 DEF RunInv, Paused

LEMMA BesideKeeps ==
  ASSUME Inv, AllMilder, Fades, Handed, Paused, ListInv', UNCHANGED <<protocol, accepted, processor>>
  PROVE  Inv'
BY NoneDropped, FadingKeeps

LEMMA SameTable ==
  ASSUME Inv, UNCHANGED <<table, doomed>>, AllMilder PROVE Fades /\ Handed
BY DEF Fades, Handed, Inv, StreamsInv, TableInv

LEMMA InTable ==
  ASSUME Inv, NEW s \in Sid, table[s] # 0
  PROVE  table[s] \in 1 .. Len(inst) /\ inst[table[s]].sid = s /\ inst[table[s]] \in Sound
BY InstFacts DEF Inv, StreamsInv, TableInv

LEMMA MissingKeeps ==
  ASSUME Inv, NEW p \in Processor, NEW s \in Sid, NEW type, Missing(p, s, type) PROVE Inv'
<1>1. AllMilder
  BY UnchangedMild DEF Inv, StreamsInv, Missing
<1>2. Fades /\ Handed
  BY <1>1, SameTable DEF Missing
<1>3. Paused
  BY DEF Missing, Paused, Inv, RunInv, SweepIdle
<1>4. ListInv'
  BY DEF Missing, Remember, Inv, StreamsInv, ListInv
<1> QED
  BY <1>1, <1>2, <1>3, <1>4, BesideKeeps DEF Missing

LEMMA CloseAckKeeps ==
  ASSUME Inv, NEW p \in Processor, NEW s \in Sid, CloseAck(p, s) PROVE Inv'
<1> DEFINE i == inst[table[s]]
           f == [i EXCEPT !.terminal = TRUE, !.status = IF @ = "CANCELLED" THEN @ ELSE "TIME_WAIT"]
<1>1. table[s] \in 1 .. Len(inst) /\ i \in Sound
  BY InTable DEF CloseAck
<1>2. Milder(i, f)
  BY <1>1 DEF Milder, Sound, Stream, Statuses, Over
<1>3. Update(table[s], f)
  BY DEF CloseAck
<1>4. AllMilder
  BY <1>1, <1>2, <1>3, UpdateMild DEF Inv, StreamsInv
<1>5. Fades /\ Handed
  BY <1>4, SameTable DEF CloseAck
<1>6. Paused
  BY DEF CloseAck, Paused, Inv, RunInv, SweepIdle
<1>7. ListInv'
  BY <1>4 DEF CloseAck, Remember, Inv, StreamsInv, ListInv, AllMilder
<1> QED
  BY <1>4, <1>5, <1>6, <1>7, BesideKeeps DEF CloseAck

LEMMA RestPaused ==
  ASSUME Inv, Rest, runtime # "up" => SweepIdle' /\ (doomed = {} => doomed' = {}) PROVE Paused
BY DEF Paused, Inv, RunInv, Rest

LEMMA ArqEndsKeeps ==
  ASSUME Inv, NEW n \in DOMAIN inst, ArqEnds(n) PROVE Inv'
<1>1. n \in 1 .. Len(inst) /\ inst[n] \in Sound
  BY InstFacts DEF Inv, StreamsInv
<1>2. AllMilder
  <2>1. CASE inst[n].arq = "open" /\ Update(n, [inst[n] EXCEPT !.arq = "ending"])
    <3>1. Milder(inst[n], [inst[n] EXCEPT !.arq = "ending"])
      BY <1>1, <2>1 DEF Milder, Sound, Stream
    <3> QED
      BY <1>1, <2>1, <3>1, UpdateMild DEF Inv, StreamsInv
  <2>2. CASE Update(n, Closed(inst[n]))
    BY <1>1, <2>2, ClosedMild, UpdateMild DEF Inv, StreamsInv
  <2> QED
    BY <2>1, <2>2 DEF ArqEnds
<1>3. Fades /\ Handed
  BY <1>2, SameTable DEF ArqEnds
<1>4. Paused
  BY RestPaused DEF ArqEnds, Inv, RunInv, SweepIdle
<1>5. ListInv'
  BY <1>2 DEF ArqEnds, Rest, Inv, StreamsInv, ListInv, AllMilder
<1> QED
  BY <1>2, <1>3, <1>4, <1>5, BesideKeeps DEF ArqEnds, Rest

LEMMA FinalizeKeeps ==
  ASSUME Inv, NEW n \in DOMAIN inst, Finalize(n) PROVE Inv'
<1> DEFINE f == [inst[n] EXCEPT !.owner = "done", !.status = "CLOSED"]
<1>1. n \in 1 .. Len(inst) /\ inst[n] \in Sound /\ inst[n].sid \in Sid
  BY InstFacts DEF Inv, StreamsInv
<1>2. inst[n].arq = "closed" /\ Milder(inst[n], f) /\ f.arq = "closed"
  BY <1>1 DEF Finalize, Milder, Sound, Stream, Over, Statuses
<1>3. AllMilder /\ inst'[n] = f
  <2>1. Update(n, f)
    BY DEF Finalize
  <2> HIDE DEF f
  <2> QED
    BY <1>1, <1>2, <2>1, UpdateMild DEF Inv, StreamsInv
<1> HIDE DEF f
<1>4. \A s \in Sid : table'[s] = table[s] \/ (table[s] = n /\ table'[s] = 0)
  BY <1>1 DEF Finalize, Inv, StreamsInv, TableInv
<1>5. Fades
  <2>1. table' \in [Sid -> 0 .. Len(inst)]
    BY <1>1 DEF Finalize, Inv, StreamsInv, TableInv
  <2> QED
    BY <1>4, <2>1 DEF Fades
<1>6. Handed
  BY <1>2, <1>3, <1>4 DEF Handed, Finalize
<1>7. Paused
  BY RestPaused DEF Finalize, Inv, RunInv, SweepIdle
<1>8. ListInv'
  BY <1>1, <1>3 DEF Finalize, Rest, Remember, Inv, StreamsInv, ListInv, AllMilder
<1> QED
  BY <1>3, <1>5, <1>6, <1>7, <1>8, BesideKeeps DEF Finalize, Rest

LEMMA CloseDoomedKeeps ==
  ASSUME Inv, NEW n \in DOMAIN inst, CloseDoomed(n) PROVE Inv'
<1>1. n \in 1 .. Len(inst) /\ inst[n] \in Sound
  BY InstFacts DEF Inv, StreamsInv
<1>2. AllMilder /\ inst'[n] = Closed(inst[n]) /\ Closed(inst[n]).arq = "closed"
  BY <1>1, ClosedMild, UpdateMild DEF CloseDoomed, Inv, StreamsInv
<1>3. Fades
  BY DEF Fades, CloseDoomed, Inv, StreamsInv, TableInv
<1>4. Handed
  BY <1>2 DEF Handed, CloseDoomed
<1>5. Paused
  BY RestPaused DEF CloseDoomed, Inv, RunInv, SweepIdle
<1>6. ListInv'
  BY <1>2 DEF CloseDoomed, Rest, Inv, StreamsInv, ListInv, AllMilder
<1> QED
  BY <1>2, <1>3, <1>4, <1>5, <1>6, BesideKeeps DEF CloseDoomed, Rest

LEMMA ExpireKeeps ==
  ASSUME Inv, NEW s \in Sid, Expire(s) PROVE Inv'
<1>1. AllMilder
  BY UnchangedMild DEF Inv, StreamsInv, Expire
<1>2. Fades /\ Handed
  BY <1>1, SameTable DEF Expire
<1>3. Paused
  BY RestPaused DEF Expire, Inv, RunInv, SweepIdle
<1>4. ListInv'
  BY DEF Expire, Rest, Inv, StreamsInv, ListInv
<1> QED
  BY <1>1, <1>2, <1>3, <1>4, BesideKeeps DEF Expire, Rest

LEMMA SweepStartKeeps == ASSUME Inv, SweepStart PROVE Inv'
<1>1. AllMilder
  BY UnchangedMild DEF Inv, StreamsInv, SweepStart
<1>2. Fades /\ Handed
  BY <1>1, SameTable DEF SweepStart
<1>3. Paused
  BY RestPaused DEF SweepStart
<1>4. {table[s] : s \in Sid} \ {0} \in SUBSET (1 .. Len(inst))
  BY InTable
<1>5. ListInv'
  BY <1>4 DEF SweepStart, Rest, Inv, StreamsInv, ListInv
<1> QED
  BY <1>1, <1>2, <1>3, <1>5, BesideKeeps DEF SweepStart, Rest

LEMMA SweepLookKeeps ==
  ASSUME Inv, NEW n \in DOMAIN inst, SweepLook(n) PROVE Inv'
<1>1. AllMilder
  BY UnchangedMild DEF Inv, StreamsInv, SweepLook
<1>2. Fades /\ Handed
  BY <1>1, SameTable DEF SweepLook
<1>3. runtime = "up"
  BY DEF SweepLook, Inv, RunInv, SweepIdle
<1>4. Paused
  BY <1>3, RestPaused DEF SweepLook
<1>5. n \in 1 .. Len(inst) /\ 1 .. Len(inst) \subseteq 0 .. Len(inst)
  BY InstFacts DEF Inv, StreamsInv
<1>6. ListInv'
  BY <1>5 DEF SweepLook, Rest, Inv, StreamsInv, ListInv, SweepSaw
<1> QED
  BY <1>1, <1>2, <1>4, <1>6, BesideKeeps DEF SweepLook, Rest

LEMMA SweepJudgeKeeps == ASSUME Inv, SweepJudge PROVE Inv'
<1> DEFINE n == sweep.inst
           i == IF sweep.saw = "" THEN inst[n] ELSE [inst[n] EXCEPT !.status = sweep.saw]
           gone == i.arq = "closed"
           marked == IF gone THEN [i EXCEPT !.terminal = TRUE, !.status = IF @ = "CANCELLED" THEN @ ELSE "TIME_WAIT"] ELSE i
<1>1. n \in 1 .. Len(inst) /\ inst[n] \in Sound /\ sweep.saw \in SweepSaw
  <2>1. sweep.inst # 0
    BY DEF SweepJudge
  <2>2. sweep.inst \in 0 .. Len(inst) /\ sweep.saw \in SweepSaw /\ InstInv
    BY DEF Inv, StreamsInv, ListInv
  <2> QED
    BY <2>1, <2>2, InstFacts
<1>2. Milder(inst[n], i) /\ i \in Sound /\ i.sid \in Sid
  <2>1. CASE sweep.saw = ""
    BY <1>1, <2>1, SelfMild DEF Sound, Stream
  <2>2. CASE sweep.saw # ""
    <3>1. sweep.saw \in Over
      BY <1>1, <2>2 DEF SweepSaw, Over
    <3>2. Milder(inst[n], [inst[n] EXCEPT !.status = sweep.saw])
      BY <1>1, <3>1, StatusMild
    <3> QED
      BY <2>2, <3>2 DEF Milder, Sound, Stream
  <2> QED
    BY <2>1, <2>2
<1>3. Update(n, marked) /\ runtime = "up"
  BY DEF SweepJudge, Inv, RunInv, SweepIdle
<1>4. \E r \in {{}, {i.sid}} : sweep' = [sweep EXCEPT !.inst = 0, !.saw = "", !.remove = @ \cup r]
  BY DEF SweepJudge
<1> HIDE DEF i
<1>5. Milder(i, marked)
  <2>1. CASE gone
    BY <1>2, <2>1 DEF Milder, Sound, Stream, Statuses, Over
  <2>2. CASE ~gone
    BY <1>2, <2>2, SelfMild
  <2> QED
    BY <2>1, <2>2
<1> HIDE DEF marked
<1>6. AllMilder
  BY <1>1, <1>2, <1>3, <1>5, MildTwice, UpdateMild DEF Inv, StreamsInv
<1>7. Fades /\ Handed
  BY <1>6, SameTable DEF SweepJudge
<1>8. Paused
  BY <1>3, RestPaused DEF SweepJudge
<1>9. ListInv'
  <2>1. /\ protocol' = protocol /\ runtime' = runtime /\ lastId' = lastId /\ recent' = recent
        /\ doomed' = doomed /\ Len(inst') = Len(inst)
    BY <1>6 DEF SweepJudge, Rest, AllMilder
  <2>2. PICK r \in {{}, {i.sid}} : sweep' = [sweep EXCEPT !.inst = 0, !.saw = "", !.remove = @ \cup r]
    BY <1>4
  <2>3. r \subseteq Sid
    BY <1>2, <2>2
  <2>4. 0 \in 0 .. Len(inst) /\ "" \in SweepSaw
    BY InstFacts DEF Inv, StreamsInv, SweepSaw
  <2>5. sweep \in [left : SUBSET (1 .. Len(inst)), inst : 0 .. Len(inst), saw : SweepSaw, remove : SUBSET Sid]
    BY DEF Inv, StreamsInv, ListInv
  <2>6. sweep' \in [left : SUBSET (1 .. Len(inst)), inst : 0 .. Len(inst), saw : SweepSaw, remove : SUBSET Sid]
    BY <2>2, <2>3, <2>4, <2>5
  <2> QED
    BY <2>1, <2>6 DEF Inv, StreamsInv, ListInv
<1> QED
  BY <1>6, <1>7, <1>8, <1>9, BesideKeeps DEF SweepJudge, Rest

LEMMA SweepRemoveKeeps ==
  ASSUME Inv, NEW s \in Sid, SweepRemove(s) PROVE Inv'
<1>1. AllMilder
  BY UnchangedMild DEF Inv, StreamsInv, SweepRemove
<1>2. Fades
  BY InstFacts DEF Fades, SweepRemove, Inv, StreamsInv, TableInv
<1>3. Handed
  BY DEF Handed, SweepRemove, Inv, StreamsInv, TableInv
<1>4. runtime = "up"
  BY DEF SweepRemove, Inv, RunInv, SweepIdle
<1>5. Paused
  BY <1>4, RestPaused DEF SweepRemove
<1>6. {table[s]} \ {0} \subseteq 1 .. Len(inst)
  BY InTable
<1>7. ListInv'
  BY <1>6 DEF SweepRemove, Rest, Inv, StreamsInv, ListInv
<1> QED
  BY <1>1, <1>2, <1>3, <1>5, <1>7, BesideKeeps DEF SweepRemove, Rest

LEMMA EmptiedTable ==
  ASSUME Inv, UNCHANGED inst, table' = [s \in Sid |-> 0], doomed' = {table[s] : s \in Sid} \ {0}, doomed = {}
  PROVE  AllMilder /\ Fades /\ Handed /\ doomed' \subseteq 1 .. Len(inst)
<1>1. AllMilder
  BY UnchangedMild DEF Inv, StreamsInv
<1>2. Fades
  BY InstFacts DEF Fades, Inv, StreamsInv
<1>3. Handed
  BY DEF Handed
<1>4. doomed' \subseteq 1 .. Len(inst)
  BY InTable
<1> QED
  BY <1>1, <1>2, <1>3, <1>4

LEMMA CloseAllKeeps == ASSUME Inv, CloseAll PROVE Inv'
<1>1. AllMilder /\ Fades /\ Handed /\ doomed' \subseteq 1 .. Len(inst)
  BY EmptiedTable DEF CloseAll, WorkersEnded
<1>2. Paused
  BY DEF Paused, CloseAll, WorkersEnded, SweepIdle
<1>3. ListInv'
  BY <1>1 DEF CloseAll, records, Inv, StreamsInv, ListInv
<1> QED
  BY <1>1, <1>2, <1>3, BesideKeeps DEF CloseAll

LEMMA StartKeeps == ASSUME Inv, Start PROVE Inv'
<1>1. AllMilder /\ Fades /\ Handed /\ doomed' \subseteq 1 .. Len(inst)
  BY EmptiedTable DEF Start, Inv, RunInv
<1>2. Paused
  BY DEF Paused, Start, Inv, RunInv
<1>3. ListInv'
  BY <1>1 DEF Start, records, Inv, StreamsInv, ListInv
<1> QED
  BY <1>1, <1>2, <1>3, BesideKeeps DEF Start

LEMMA AllClosedKeeps == ASSUME Inv, AllClosed PROVE Inv'
<1>1. AllMilder
  BY UnchangedMild DEF Inv, StreamsInv, AllClosed
<1>2. Fades /\ Handed
  BY <1>1, SameTable DEF AllClosed
<1>3. Paused
  BY DEF Paused, AllClosed, Inv, RunInv, SweepIdle
<1>4. ListInv'
  BY DEF AllClosed, Inv, StreamsInv, ListInv
<1> QED
  BY <1>1, <1>2, <1>3, <1>4, BesideKeeps DEF AllClosed

LEMMA EndingKeeps == ASSUME Inv, Ending PROVE Inv'
BY ArqEndsKeeps, FinalizeKeeps, CloseDoomedKeeps, SweepLookKeeps, SweepStartKeeps, SweepJudgeKeeps,
   CloseAllKeeps, AllClosedKeeps, StartKeeps, ExpireKeeps, SweepRemoveKeeps DEF Ending

-----------------------------------------------------------------------------
(* The goroutines of accepted connections. *)

LEMMA LeastOf ==
  ASSUME NEW D, D \subseteq Nat, D # {}
  PROVE  \E d \in D : \A e \in D : d <= e
<1> DEFINE R == StrictSubsetOrdering(Nat)
           T == {0 .. d - 1 : d \in D}
<1>1. \A d \in Nat : 0 .. d - 1 \in FiniteSubsetsOf(Nat)
  BY FS_Interval DEF FiniteSubsetsOf
<1>2. T \subseteq FiniteSubsetsOf(Nat) /\ T # {}
  BY <1>1
<1>3. \E x \in T : \A y \in T : ~ (<<y, x>> \in R)
  <2> HIDE DEF R, T
  <2>1. IsWellFoundedOn(R, FiniteSubsetsOf(Nat))
    BY FS_StrictSubsetOrderingWellFounded DEF R
  <2> QED
    BY <1>2, <2>1, WFMin
<1>4. PICK d \in D : \A e \in D : ~ (<<0 .. e - 1, 0 .. d - 1>> \in R)
  BY <1>3
<1>5. ASSUME NEW e \in D, e < d PROVE FALSE
  <2>1. 0 .. e - 1 \subseteq 0 .. d - 1 /\ e \in 0 .. d - 1 /\ e \notin 0 .. e - 1
    BY <1>5
  <2>2. 0 .. e - 1 \in SUBSET Nat /\ 0 .. d - 1 \in SUBSET Nat
    BY <1>5
  <2>3. <<0 .. e - 1, 0 .. d - 1>> \in R
    BY <2>1, <2>2 DEF StrictSubsetOrdering
  <2> QED
    BY <1>4, <2>3
<1> QED
  BY <1>5

LEMMA FirstFreeFacts ==
  ASSUME Inv PROVE FirstFree \in Sid \cup {0} /\ (FirstFree # 0 => Free(FirstFree))
<1> DEFINE c == Cardinality(Sid)
           order == [k \in 1 .. c |-> ((lastId + k - 1) % c) + 1]
           free == {k \in DOMAIN order : Free(order[k])}
<1>1. c \in Nat /\ Sid = 1 .. c
  BY SidAssumption, FS_CardinalityType
<1>2. lastId \in Nat
  BY <1>1 DEF Inv, StreamsInv, ListInv
<1> HIDE DEF c
<1>3. \A k \in 1 .. c : order[k] \in Sid
  BY <1>1, <1>2
<1>4. FirstFree = IF free = {} THEN 0 ELSE order[CHOOSE k \in free : \A j \in free : k <= j]
  BY DEF FirstFree, c
<1>5. CASE free = {}
  BY <1>4, <1>5
<1>6. CASE free # {}
  <2>1. free \subseteq 1 .. c /\ free \subseteq Nat /\ \A k \in free : Free(order[k])
    BY <1>1
  <2> HIDE DEF order, free
  <2>2. \E k \in free : \A j \in free : k <= j
    BY <1>6, <2>1, LeastOf
  <2>3. (CHOOSE k \in free : \A j \in free : k <= j) \in free
    BY <2>2
  <2> QED
    BY <1>3, <1>4, <1>6, <2>1, <2>3
<1> QED
  BY <1>5, <1>6

AcceptedType == [at : AcceptPlace, sid : Sid \cup {0}, inst : 0 .. Len(inst), ok : BOOLEAN]

LEMMA RestingTyped == ASSUME Inv PROVE Resting \in AcceptedType
BY InstFacts DEF Resting, AcceptedType, AcceptPlace, Inv, StreamsInv

LEMMA AcceptedKeeps ==
  ASSUME Inv, AcceptInv', lastId' \in Sid \cup {0},
         \A a \in Accepted : accepted'[a].inst \in {0, accepted[a].inst},
         UNCHANGED <<protocol, runtime, table, inst, records, processor, sweep, doomed>>
  PROVE  Inv'
<1>1. StreamsInv'
  <2>1. ProcInv'
    <3>1. ASSUME NEW p \in Processor, processor[p].at # "idle" PROVE Holding(processor[p])'
      <4>1. Holding(processor[p]) /\ processor[p].inst # 0
        BY <3>1, InstFacts DEF Inv, StreamsInv, ProcInv, Holding
      <4> QED
        BY <4>1 DEF Holding
    <3> QED
      BY <3>1 DEF Inv, StreamsInv, ProcInv
  <2>2. InstInv' /\ TableInv' /\ ListInv'
    BY DEF Inv, StreamsInv, InstInv, TableInv, ListInv, records
  <2> QED
    BY <2>1, <2>2 DEF StreamsInv
<1>2. RunInv' /\ CancelInv' /\ LockInv'
  BY DEF Inv, RunInv, CancelInv, LockInv, SweepIdle
<1>3. ReplyInv'
  <2>1. \A n \in 1 .. Len(inst) : n # 0
    BY InstFacts DEF Inv, StreamsInv
  <2> QED
    BY <2>1 DEF Inv, ReplyInv
<1> QED
  BY <1>1, <1>2, <1>3 DEF Inv

LEMMA RequestKeeps ==
  ASSUME Inv, NEW a \in Accepted, NEW next \in {"id", "relay"}, Request(a, next) PROVE Inv'
<1>1. accepted[a] \in AcceptedType /\ accepted[a].sid = 0 /\ accepted[a].inst = 0
  BY DEF Inv, StreamsInv, AcceptInv, AcceptedType, Request
<1>2. accepted' = [accepted EXCEPT ![a].at = next] /\ next \in AcceptPlace
  BY DEF Request, Goto, AcceptPlace
<1>3. AcceptInv'
  BY <1>1, <1>2 DEF Request, Inv, StreamsInv, AcceptInv, AcceptedType
<1>4. \A b \in Accepted : accepted'[b].inst \in {0, accepted[b].inst}
  BY <1>1, <1>2 DEF Inv, StreamsInv, AcceptInv
<1> QED
  BY <1>3, <1>4, AcceptedKeeps DEF Request, Inv, StreamsInv, ListInv

LEMMA RelayEndsKeeps == ASSUME Inv, NEW a \in Accepted, RelayEnds(a) PROVE Inv'
<1>1. accepted[a] \in AcceptedType /\ accepted[a].sid = 0 /\ accepted[a].inst = 0
  BY DEF Inv, StreamsInv, AcceptInv, AcceptedType, RelayEnds
<1>2. accepted' = [accepted EXCEPT ![a].at = "idle"] /\ "idle" \in AcceptPlace
  BY DEF RelayEnds, Goto, AcceptPlace
<1>3. AcceptInv'
  BY <1>1, <1>2 DEF RelayEnds, Inv, StreamsInv, AcceptInv, AcceptedType
<1>4. \A b \in Accepted : accepted'[b].inst \in {0, accepted[b].inst}
  BY <1>1, <1>2 DEF Inv, StreamsInv, AcceptInv
<1> QED
  BY <1>3, <1>4, AcceptedKeeps DEF RelayEnds, Inv, StreamsInv, ListInv

LEMMA NewIdKeeps == ASSUME Inv, NEW a \in Accepted, NewId(a) PROVE Inv'
<1> DEFINE v == IF FirstFree = 0 THEN Resting ELSE [accepted[a] EXCEPT !.at = "new", !.sid = FirstFree]
<1>1. FirstFree \in Sid \cup {0} /\ (FirstFree # 0 => Free(FirstFree))
  BY FirstFreeFacts
<1>2. accepted[a] \in AcceptedType /\ accepted[a].sid = 0 /\ accepted[a].inst = 0
  BY DEF Inv, StreamsInv, AcceptInv, AcceptedType, NewId
<1>3. v \in AcceptedType /\ v.inst = 0 /\ v.sid = FirstFree /\ v.at = IF FirstFree = 0 THEN "idle" ELSE "new"
  <2>1. CASE FirstFree = 0
    BY <2>1, RestingTyped DEF Resting
  <2>2. CASE FirstFree # 0
    BY <1>1, <1>2, <2>2 DEF AcceptedType, AcceptPlace
  <2> QED
    BY <2>1, <2>2
<1>4. accepted' = [accepted EXCEPT ![a] = v]
  BY DEF NewId
<1>5. FirstFree # 0 => /\ \A b \in Accepted : accepted[b].sid # FirstFree
                       /\ \A p \in Processor : processor[p].sid # FirstFree
                       /\ table[FirstFree] = 0 /\ FirstFree \in Sid
  BY <1>1 DEF NewId, WorkedOn, Free
<1> HIDE DEF v
<1>6. /\ accepted \in [Accepted -> AcceptedType] /\ accepted' \in [Accepted -> AcceptedType]
      /\ \A b \in Accepted : accepted'[b] = IF b = a THEN v ELSE accepted[b]
  BY <1>3, <1>4 DEF Inv, StreamsInv, AcceptInv, AcceptedType
<1>7. AcceptInv'
  <2>1. ASSUME NEW b \in Accepted
        PROVE  /\ accepted'[b].at \in {"idle", "relay", "id"} => accepted'[b].sid = 0 /\ accepted'[b].inst = 0
               /\ accepted'[b].at = "new" =>
                    /\ accepted'[b].sid \in Sid /\ accepted'[b].inst = 0 /\ table[accepted'[b].sid] = 0
                    /\ \A p \in Processor : processor[p].sid # accepted'[b].sid
               /\ accepted'[b].at = "status" => accepted'[b].sid \in Sid /\ accepted'[b].inst \in 1 .. Len(inst)
    <3>1. CASE b = a
      BY <1>3, <1>5, <1>6, <3>1
    <3>2. CASE b # a
      BY <1>6, <3>2 DEF Inv, StreamsInv, AcceptInv
    <3> QED
      BY <3>1, <3>2
  <2>2. \A b, d \in Accepted : b # d /\ accepted'[b].sid # 0 => accepted'[b].sid # accepted'[d].sid
    BY <1>3, <1>5, <1>6 DEF Inv, StreamsInv, AcceptInv
  <2> QED
    BY <1>6, <2>1, <2>2 DEF AcceptInv, NewId, AcceptedType
<1>8. \A b \in Accepted : accepted'[b].inst \in {0, accepted[b].inst}
  BY <1>3, <1>6
<1>9. lastId' \in Sid \cup {0}
  BY <1>1 DEF NewId, Inv, StreamsInv, ListInv
<1> QED
  BY <1>7, <1>8, <1>9, AcceptedKeeps DEF NewId

LEMMA NewStreamKeeps == ASSUME Inv, NEW a \in Accepted, NewStream(a) PROVE Inv'
<1> DEFINE l == Len(inst)
           s == accepted[a].sid
           v == [accepted[a] EXCEPT !.at = "status", !.inst = l + 1]
<1>1. l \in Nat /\ l + 1 \in 1 .. l + 1 /\ l + 1 \in 0 .. l + 1 /\ 0 .. l \subseteq 0 .. l + 1 /\ 1 .. l \subseteq 1 .. l + 1
      /\ \A n \in 1 .. l + 1 : n = l + 1 \/ n \in 1 .. l
  BY InstFacts DEF Inv, StreamsInv
<1>2. /\ s \in Sid /\ table[s] = 0 /\ accepted[a] \in AcceptedType /\ s # 0
      /\ \A p \in Processor : processor[p].sid # s
      /\ \A b \in Accepted : b # a => accepted[b].sid # s
  BY SidAssumption, FS_CardinalityType DEF NewStream, Inv, StreamsInv, AcceptInv, AcceptedType
<1>3. Fresh(s) \in Sound /\ Fresh(s).sid = s /\ Fresh(s).status = "PENDING" /\ Fresh(s).replies = Unread
      /\ Fresh(s).ready = FALSE
  BY <1>2, ReplyForm DEF Fresh, Sound, Stream, Statuses, Unread
<1>4. /\ inst' \in Seq(Sound) /\ Len(inst') = l + 1 /\ inst'[l + 1] = Fresh(s)
      /\ \A n \in 1 .. l : inst'[n] = inst[n]
  BY <1>3, AppendProperties DEF NewStream, Inv, StreamsInv, InstInv
<1>5. \A n \in 1 .. l : n # l + 1 /\ n # 0 /\ inst[n].sid \in Sid
  BY InstFacts DEF Inv, StreamsInv
<1>6. /\ table' \in [Sid -> 0 .. l + 1] /\ table'[s] = l + 1
      /\ \A t \in Sid : t # s => table'[t] = table[t]
      /\ \A t \in Sid : table[t] \in 0 .. l
  <2>1. table \in [Sid -> 0 .. l] /\ table' = [table EXCEPT ![s] = l + 1]
    BY DEF NewStream, Inv, StreamsInv, TableInv
  <2> HIDE DEF l, s
  <2> QED
    BY <1>1, <1>2, <2>1
<1>7. v \in [at : AcceptPlace, sid : Sid \cup {0}, inst : 0 .. l + 1, ok : BOOLEAN] /\ v.at = "status" /\ v.sid = s /\ v.inst = l + 1
  <2>1. accepted[a] \in [at : AcceptPlace, sid : Sid \cup {0}, inst : 0 .. l, ok : BOOLEAN]
    BY <1>2 DEF AcceptedType
  <2> HIDE DEF l
  <2> QED
    BY <1>1, <2>1 DEF AcceptPlace
<1>8. accepted' = [accepted EXCEPT ![a] = v]
  BY DEF NewStream
<1> HIDE DEF v
<1>9. /\ accepted' \in [Accepted -> [at : AcceptPlace, sid : Sid \cup {0}, inst : 0 .. l + 1, ok : BOOLEAN]]
      /\ \A b \in Accepted : accepted'[b] = IF b = a THEN v ELSE accepted[b]
  <2>1. accepted \in [Accepted -> AcceptedType]
    BY DEF Inv, StreamsInv, AcceptInv, AcceptedType
  <2>2. accepted \in [Accepted -> [at : AcceptPlace, sid : Sid \cup {0}, inst : 0 .. l + 1, ok : BOOLEAN]]
    BY <1>1, <2>1 DEF AcceptedType
  <2> QED
    BY <1>7, <1>8, <2>2
<1>10. UNCHANGED <<protocol, runtime, lastId, recent, orphans, processor, sweep, doomed>>
  BY DEF NewStream, records
<1>11. TableInv'
  <2>1. \A t \in Sid : table'[t] # 0 => inst'[table'[t]].sid = t
    BY <1>1, <1>2, <1>3, <1>4, <1>6 DEF Inv, StreamsInv, TableInv
  <2> QED
    BY <1>4, <1>6, <2>1 DEF TableInv
<1>12. ListInv'
  BY <1>1, <1>4, <1>10 DEF Inv, StreamsInv, ListInv
<1>13. AcceptInv'
  <2>1. ASSUME NEW b \in Accepted
        PROVE  /\ accepted'[b].at \in {"idle", "relay", "id"} => accepted'[b].sid = 0 /\ accepted'[b].inst = 0
               /\ accepted'[b].at = "new" =>
                    /\ accepted'[b].sid \in Sid /\ accepted'[b].inst = 0 /\ table'[accepted'[b].sid] = 0
                    /\ \A p \in Processor : processor[p].sid # accepted'[b].sid
               /\ accepted'[b].at = "status" => accepted'[b].sid \in Sid /\ accepted'[b].inst \in 1 .. l + 1
    <3>1. CASE b = a
      BY <1>1, <1>2, <1>7, <1>9, <3>1
    <3>2. CASE b # a
      BY <1>1, <1>2, <1>6, <1>9, <3>2 DEF Inv, StreamsInv, AcceptInv
    <3> QED
      BY <3>1, <3>2
  <2>2. \A b, d \in Accepted : b # d /\ accepted'[b].sid # 0 => accepted'[b].sid # accepted'[d].sid
    BY <1>2, <1>7, <1>9 DEF Inv, StreamsInv, AcceptInv
  <2> QED
    BY <1>4, <1>9, <1>10, <2>1, <2>2 DEF AcceptInv
<1>14. \A p \in Processor : processor[p].at # "idle" => Holding(processor[p]) /\ processor[p].inst \in 1 .. l
  BY DEF Inv, StreamsInv, ProcInv, Holding
<1>15. ProcInv'
  <2>1. ASSUME NEW p \in Processor, processor[p].at # "idle" PROVE Holding(processor[p])'
    <3> DEFINE w == processor[p]
    <3>1. /\ w.sid \in Sid /\ w.inst \in 1 .. l /\ inst[w.inst].sid = w.sid
          /\ table[w.sid] \in {0, w.inst}
          /\ \A b \in Accepted : accepted[b].inst # w.inst
          /\ w.at \in SocksPlace => protocol = "SOCKS5"
          /\ w.at \in TcpPlace => protocol = "TCP"
      BY <1>14, <2>1 DEF Holding
    <3>2. w.inst \in 1 .. Len(inst') /\ inst'[w.inst].sid = w.sid
      BY <1>1, <1>4, <3>1
    <3>3. table'[w.sid] \in {0, w.inst}
      BY <1>2, <1>6, <3>1
    <3>4. \A b \in Accepted : accepted'[b].inst # w.inst
      BY <1>5, <1>7, <1>9, <3>1
    <3> QED
      BY <1>10, <3>1, <3>2, <3>3, <3>4 DEF Holding
  <2>2. processor' \in [Processor -> [at : Place, sid : Sid \cup {0}, inst : 0 .. l + 1, ok : BOOLEAN]]
    BY <1>1, <1>10 DEF Inv, StreamsInv, ProcInv
  <2> QED
    BY <1>4, <1>10, <2>1, <2>2 DEF Inv, StreamsInv, ProcInv
<1>16. RunInv'
  <2>1. ASSUME NEW n \in 1 .. l
        PROVE  inst'[n].arq = "closed" \/ n \in doomed' \/ table'[inst'[n].sid] = n
    BY <1>2, <1>4, <1>5, <1>6, <1>10 DEF Inv, RunInv
  <2>2. table'[inst'[l + 1].sid] = l + 1
    BY <1>3, <1>4, <1>6
  <2> QED
    BY <1>1, <1>4, <1>10, <2>1, <2>2 DEF Inv, RunInv, SweepIdle
<1>17. CancelInv'
  <2>1. ASSUME NEW n \in 1 .. l, inst'[n].status = "CANCELLED", inst'[n].arq = "open", table'[inst'[n].sid] = n
        PROVE  \E p \in Processor : processor[p].inst = n /\ processor[p].at = "late"
    BY <1>4, <1>5, <1>6, <2>1 DEF Inv, CancelInv
  <2> QED
    BY <1>1, <1>3, <1>4, <1>10, <2>1 DEF CancelInv
<1>18. LockInv'
  BY <1>10 DEF Inv, LockInv
<1>19. ReplyInv'
  <2>1. ASSUME NEW n \in 1 .. l
        PROVE  /\ inst[n].replies \in {Unread, Won, Failed, Broken}
               /\ inst[n].replies # Unread => protocol = "SOCKS5" /\ \A b \in Accepted : accepted'[b].inst # n
               /\ Tells(inst[n]) \/ \E p \in Processor : processor[p].inst = n /\ processor[p].at = "result"
               /\ protocol = "SOCKS5" /\ inst[n].ready => inst[n].replies \in {Won, Broken}
    BY <1>5, <1>7, <1>9 DEF Inv, ReplyInv
  <2>2. Tells(Fresh(s))
    BY <1>3, RepliesDiffer DEF Tells
  <2>3. \A p \in Processor : processor[p].at # "idle" => Fits(processor[p], inst[processor[p].inst].replies)
    BY DEF Inv, ReplyInv
  <2>4. \A p \in Processor : processor'[p].at # "idle" => Fits(processor'[p], inst'[processor'[p].inst].replies)
    BY <1>4, <1>10, <1>14, <2>3
  <2>5. ASSUME NEW n \in 1 .. l + 1
        PROVE  /\ inst'[n].replies \in {Unread, Won, Failed, Broken}
               /\ inst'[n].replies # Unread => protocol' = "SOCKS5" /\ \A b \in Accepted : accepted'[b].inst # n
               /\ Tells(inst'[n]) \/ \E p \in Processor : processor'[p].inst = n /\ processor'[p].at = "result"
               /\ protocol' = "SOCKS5" /\ inst'[n].ready => inst'[n].replies \in {Won, Broken}
    <3>1. CASE n = l + 1
      BY <1>3, <1>4, <2>2, <3>1
    <3>2. CASE n \in 1 .. l
      BY <1>4, <1>10, <2>1, <3>2
    <3> QED
      BY <1>1, <3>1, <3>2
  <2> QED
    BY <1>4, <2>4, <2>5 DEF ReplyInv
<1> QED
  BY <1>4, <1>11, <1>12, <1>13, <1>15, <1>16, <1>17, <1>18, <1>19 DEF Inv, StreamsInv, InstInv

LEMMA ConnectingKeeps == ASSUME Inv, NEW a \in Accepted, Connecting(a) PROVE Inv'
<1> DEFINE n == accepted[a].inst
           f == [inst[n] EXCEPT !.status = "CONNECTING"]
<1>1. n \in 1 .. Len(inst) /\ inst[n] \in Sound
  BY InstFacts DEF Connecting, Inv, StreamsInv, AcceptInv
<1>2. /\ f \in Sound /\ f.sid = inst[n].sid /\ f.arq = inst[n].arq /\ f.replies = inst[n].replies
      /\ f.ready = inst[n].ready /\ f.status = "CONNECTING"
  BY <1>1 DEF Sound, Stream, Statuses
<1>3. Update(n, f)
  BY DEF Connecting, SetStatus
<1> HIDE DEF f
<1>4. /\ InstInv' /\ Len(inst') = Len(inst)
      /\ \A m \in 1 .. Len(inst) : inst'[m] = IF m = n THEN f ELSE inst[m]
  BY <1>1, <1>2, <1>3, UpdateOne DEF Inv, StreamsInv
<1>5. /\ accepted' = [accepted EXCEPT ![a] = Resting]
      /\ UNCHANGED <<protocol, runtime, table, lastId, recent, orphans, processor, sweep, doomed>>
  BY DEF Connecting, records
<1>6. /\ accepted' \in [Accepted -> AcceptedType]
      /\ \A b \in Accepted : accepted'[b] = IF b = a THEN Resting ELSE accepted[b]
  BY <1>5, RestingTyped DEF Inv, StreamsInv, AcceptInv, AcceptedType
<1>7. inst[n].replies = Unread
  BY <1>1 DEF Inv, ReplyInv
<1>8. TableInv'
  BY <1>2, <1>4, <1>5, InstFacts DEF Inv, StreamsInv, TableInv
<1>9. ListInv'
  BY <1>4, <1>5 DEF Inv, StreamsInv, ListInv
<1>10. AcceptInv'
  BY <1>4, <1>5, <1>6 DEF Inv, StreamsInv, AcceptInv, AcceptedType, Resting
<1>11. \A p \in Processor : processor[p].at # "idle" => Holding(processor[p]) /\ processor[p].inst \in 1 .. Len(inst) /\ processor[p].inst # 0
  BY InstFacts DEF Inv, StreamsInv, ProcInv, Holding
<1>12. ProcInv'
  <2>1. ASSUME NEW p \in Processor, processor[p].at # "idle" PROVE Holding(processor[p])'
    <3>1. inst'[processor[p].inst].sid = inst[processor[p].inst].sid
      BY <1>2, <1>4, <1>11, <2>1
    <3> QED
      BY <1>4, <1>5, <1>6, <1>11, <2>1, <3>1 DEF Holding, Resting
  <2> QED
    BY <1>4, <1>5, <2>1 DEF Inv, StreamsInv, ProcInv
<1>13. RunInv'
  BY <1>2, <1>4, <1>5 DEF Inv, RunInv, SweepIdle
<1>14. CancelInv'
  BY <1>2, <1>4, <1>5 DEF Inv, CancelInv
<1>15. LockInv'
  BY <1>5 DEF Inv, LockInv
<1>16. ReplyInv'
  <2>1. Tells(f)
    BY <1>2, <1>7, RepliesDiffer DEF Tells
  <2>2. \A m \in 1 .. Len(inst) : inst'[m].replies = inst[m].replies /\ inst'[m].ready = inst[m].ready
                                  /\ (Tells(inst[m]) => Tells(inst'[m]))
    BY <1>2, <1>4, <2>1
  <2>3. \A m \in 1 .. Len(inst) : m # 0
    BY InstFacts DEF Inv, StreamsInv
  <2>4. \A b \in Accepted : accepted'[b].inst \in {0, accepted[b].inst}
    BY <1>6 DEF Resting
  <2>5. ASSUME NEW m \in 1 .. Len(inst)
        PROVE  /\ inst'[m].replies \in {Unread, Won, Failed, Broken}
               /\ inst'[m].replies # Unread => protocol = "SOCKS5" /\ \A b \in Accepted : accepted'[b].inst # m
               /\ Tells(inst'[m]) \/ \E p \in Processor : processor[p].inst = m /\ processor[p].at = "result"
               /\ protocol = "SOCKS5" /\ inst'[m].ready => inst'[m].replies \in {Won, Broken}
    BY <2>2, <2>3, <2>4 DEF Inv, ReplyInv
  <2> QED
    BY <1>4, <1>5, <1>11, <2>2, <2>5 DEF Inv, ReplyInv
<1> QED
  BY <1>4, <1>8, <1>9, <1>10, <1>12, <1>13, <1>14, <1>15, <1>16 DEF Inv, StreamsInv

LEMMA AcceptingKeeps == ASSUME Inv, NEW a \in Accepted, Accepting(a) PROVE Inv'
BY RequestKeeps, RelayEndsKeeps, NewIdKeeps, NewStreamKeeps, ConnectingKeeps
   DEF Accepting, Socks5Request, Socks4Request, TcpRequest

-----------------------------------------------------------------------------
(* The processors. *)

ProcessorType == [at : Place, sid : Sid \cup {0}, inst : 0 .. Len(inst), ok : BOOLEAN]

Around == UNCHANGED <<protocol, runtime, table, lastId, recent, orphans, accepted, sweep, doomed>>

(* Processor p goes on to v.                                               *)
Moved(p, v) ==
  /\ Around /\ processor' = [processor EXCEPT ![p] = v] /\ v \in ProcessorType
  /\ IF v.at = "idle" THEN v = Resting ELSE Holding(v)
  /\ v.sid = 0 \/ v.sid = processor[p].sid \/ table[v.sid] # 0

(* What no step of a processor does to a stream.                           *)
Kept == /\ InstInv' /\ Len(inst') = Len(inst)
        /\ \A n \in 1 .. Len(inst) : inst'[n].sid = inst[n].sid /\ (inst[n].arq = "closed" => inst'[n].arq = "closed")

LEMMA MilderKept == ASSUME AllMilder PROVE Kept
BY DEF AllMilder, Milder, Kept

LEMMA Holds ==
  ASSUME Inv, NEW p \in Processor, processor[p].at # "idle"
  PROVE  /\ Holding(processor[p]) /\ processor[p] \in ProcessorType
         /\ Held(p) \in 1 .. Len(inst) /\ Held(p) # 0 /\ inst[Held(p)] \in Sound
         /\ Again(p) \in {0, Held(p)}
         /\ processor[p].at \in SocksPlace => protocol = "SOCKS5"
         /\ processor[p].at \in TcpPlace => protocol = "TCP"
BY InstFacts DEF Inv, StreamsInv, ProcInv, Holding, ProcessorType, Held, Again

LEMMA StepMoves ==
  ASSUME Inv, NEW p \in Processor, NEW at \in Place, processor[p].at # "idle", at # "idle",
         Step(p, at), Keep,
         at \in SocksPlace => protocol = "SOCKS5", at \in TcpPlace => protocol = "TCP"
  PROVE  /\ Moved(p, [processor[p] EXCEPT !.at = at])
         /\ [processor[p] EXCEPT !.at = at].at = at
         /\ [processor[p] EXCEPT !.at = at].inst = Held(p)
         /\ [processor[p] EXCEPT !.at = at].ok = processor[p].ok
<1> DEFINE v == [processor[p] EXCEPT !.at = at]
<1>1. Holding(processor[p]) /\ processor[p] \in ProcessorType
  BY Holds
<1>2. /\ v \in ProcessorType /\ v.at = at /\ v.sid = processor[p].sid /\ v.inst = processor[p].inst
      /\ v.ok = processor[p].ok
  BY <1>1 DEF ProcessorType
<1>3. processor' = [processor EXCEPT ![p] = v]
  BY DEF Step
<1> HIDE DEF v
<1>4. Holding(v)
  BY <1>1, <1>2 DEF Holding
<1>5. Moved(p, v)
  BY <1>2, <1>3, <1>4 DEF Moved, Around, Keep, records
<1> QED
  BY <1>2, <1>5 DEF v, Held

LEMMA ReturnMoves ==
  ASSUME Inv, NEW p \in Processor, Return(p), Keep PROVE Moved(p, Resting)
<1>1. Resting \in ProcessorType
  BY InstFacts DEF Resting, ProcessorType, Place, Inv, StreamsInv
<1> QED
  BY <1>1 DEF Moved, Around, Keep, records, Return, Resting

LEMMA MovedFacts ==
  ASSUME Inv, NEW p \in Processor, NEW v, Moved(p, v)
  PROVE  /\ processor' \in [Processor -> ProcessorType] /\ processor'[p] = v
         /\ \A q \in Processor : q # p => processor'[q] = processor[q]
BY DEF Moved, Inv, StreamsInv, ProcInv, ProcessorType

LEMMA MovedStreams ==
  ASSUME Inv, NEW p \in Processor, NEW v, Moved(p, v), Kept PROVE StreamsInv' /\ RunInv'
<1>1. /\ processor' \in [Processor -> ProcessorType] /\ processor'[p] = v
      /\ \A q \in Processor : q # p => processor'[q] = processor[q]
  BY MovedFacts
<1>2. /\ Around /\ InstInv' /\ Len(inst') = Len(inst)
      /\ \A n \in 1 .. Len(inst) : inst'[n].sid = inst[n].sid /\ (inst[n].arq = "closed" => inst'[n].arq = "closed")
  BY DEF Kept, Moved
<1>3. TableInv'
  BY <1>2, InTable DEF Inv, StreamsInv, TableInv, Around
<1>4. ListInv'
  BY <1>2 DEF Inv, StreamsInv, ListInv, Around
<1>5. AcceptInv'
  <2>1. ASSUME NEW a \in Accepted, accepted[a].at = "new", NEW q \in Processor
        PROVE  processor'[q].sid # accepted[a].sid
    <3>1. accepted[a].sid \in Sid /\ table[accepted[a].sid] = 0 /\ processor[q].sid # accepted[a].sid
      BY <2>1 DEF Inv, StreamsInv, AcceptInv
    <3>2. accepted[a].sid # 0
      BY <3>1, SidAssumption, FS_CardinalityType
    <3>3. CASE q = p
      BY <1>1, <3>1, <3>2, <3>3 DEF Moved
    <3>4. CASE q # p
      BY <1>1, <3>1, <3>4
    <3> QED
      BY <3>3, <3>4
  <2>2. accepted' = accepted /\ table' = table
    BY <1>2 DEF Around
  <2> QED
    BY <1>2, <2>1, <2>2 DEF Inv, StreamsInv, AcceptInv
<1>6. ASSUME NEW w, Holding(w) PROVE Holding(w)'
  <2>1. w.inst \in 1 .. Len(inst) /\ inst'[w.inst].sid = inst[w.inst].sid
    BY <1>2, <1>6 DEF Holding
  <2> QED
    BY <1>2, <1>6, <2>1 DEF Holding, Around
<1>7. ProcInv'
  <2>1. ASSUME NEW q \in Processor
        PROVE  IF processor'[q].at = "idle" THEN processor'[q] = Resting ELSE Holding(processor'[q])
    BY <1>1 DEF Moved, Inv, StreamsInv, ProcInv
  <2>2. \A q \in Processor : processor'[q].at # "idle" => Holding(processor[q])'
    <3> SUFFICES ASSUME NEW q \in Processor, processor'[q].at # "idle" PROVE Holding(processor[q])'
      OBVIOUS
    <3> DEFINE w == processor'[q]
    <3>1. Holding(w)
      BY <2>1
    <3>2. PICK x : x = processor'[q]
      OBVIOUS
    <3>3. Holding(x)
      BY <3>1, <3>2
    <3>4. Holding(x)'
      BY <1>6, <3>3
    <3> QED
      BY <3>2, <3>4 DEF Holding
  <2> QED
    BY <1>1, <1>2, <2>1, <2>2 DEF ProcInv, ProcessorType
<1>8. RunInv'
  BY <1>2 DEF Inv, RunInv, Around, SweepIdle
<1> QED
  BY <1>2, <1>3, <1>4, <1>5, <1>7, <1>8 DEF StreamsInv

(* Whoever cancels resets, and whoever was to reset did.                   *)
LEMMA CancelKept ==
  ASSUME Inv, NEW p \in Processor, NEW v, Moved(p, v), Kept,
         \A n \in 1 .. Len(inst) : inst'[n].status = "CANCELLED" /\ inst'[n].arq = "open" =>
             \/ inst[n].status = "CANCELLED" /\ inst[n].arq = "open"
             \/ v.at = "late" /\ v.inst = n,
         processor[p].at = "late" => Again(p) = 0 \/ inst'[Again(p)].arq # "open"
  PROVE  CancelInv'
<1>1. processor'[p] = v /\ \A q \in Processor : q # p => processor'[q] = processor[q]
  BY MovedFacts
<1> SUFFICES ASSUME NEW n \in 1 .. Len(inst), inst'[n].status = "CANCELLED", inst'[n].arq = "open",
                    table'[inst'[n].sid] = n
             PROVE  \E q \in Processor : processor'[q].inst = n /\ processor'[q].at = "late"
  BY DEF Kept, CancelInv
<1>2. CASE v.at = "late" /\ v.inst = n
  BY <1>1, <1>2
<1>3. CASE inst[n].status = "CANCELLED" /\ inst[n].arq = "open"
  <2>1. table[inst[n].sid] = n /\ n # 0
    BY InstFacts DEF Kept, Moved, Around, Inv, StreamsInv
  <2>2. PICK q \in Processor : processor[q].inst = n /\ processor[q].at = "late"
    BY <1>3, <2>1 DEF Inv, CancelInv
  <2>3. q # p
    <3> SUFFICES ASSUME q = p PROVE FALSE
      OBVIOUS
    <3>1. Holding(processor[p])
      BY <2>2, Holds
    <3>2. Again(p) = n
      BY <2>1, <2>2, <3>1 DEF Again, Holding
    <3> QED
      BY <2>1, <2>2, <3>2
  <2> QED
    BY <1>1, <2>2, <2>3
<1> QED
  BY <1>2, <1>3

LEMMA LockKept ==
  ASSUME Inv, NEW p \in Processor, NEW v, Moved(p, v),
         Writing(v) => \A q \in Processor : q # p /\ Writing(processor[q]) => processor[q].inst # v.inst
  PROVE  LockInv'
<1>1. processor'[p] = v /\ \A q \in Processor : q # p => processor'[q] = processor[q]
  BY MovedFacts
<1> SUFFICES ASSUME NEW q \in Processor, NEW r \in Processor, q # r, Writing(processor'[q]), Writing(processor'[r])
             PROVE  processor'[q].inst # processor'[r].inst
  BY DEF LockInv, Writing
<1>2. CASE q # p /\ r # p
  BY <1>1, <1>2 DEF Inv, LockInv
<1>3. CASE q = p \/ r = p
  BY <1>1, <1>3
<1> QED
  BY <1>2, <1>3

(* The step leaves true what the replies of its stream say.                *)
Answered(p, v) ==
  LET i == inst'[Held(p)] IN
  /\ i.replies \in {Unread, Won, Failed, Broken}
  /\ i.replies # Unread => protocol = "SOCKS5"
  /\ \/ Tells(i) \/ v.at = "result"
     \/ \E q \in Processor : q # p /\ Held(q) = Held(p) /\ processor[q].at = "result"
  /\ protocol = "SOCKS5" /\ i.ready => i.replies \in {Won, Broken}
  /\ \A q \in Processor : q # p /\ processor[q].at # "idle" /\ Held(q) = Held(p) => Fits(processor[q], i.replies)
  /\ v.at # "idle" => v.inst = Held(p) /\ Fits(v, i.replies)

LEMMA ReplyKept ==
  ASSUME Inv, NEW p \in Processor, NEW v, Moved(p, v), Kept, processor[p].at # "idle",
         \A n \in 1 .. Len(inst) : n # Held(p) => inst'[n] = inst[n], Answered(p, v)
  PROVE  ReplyInv'
<1> DEFINE h == Held(p)
<1>1. /\ processor'[p] = v /\ \A q \in Processor : q # p => processor'[q] = processor[q]
      /\ processor' \in [Processor -> ProcessorType]
  BY MovedFacts
<1>2. h \in 1 .. Len(inst) /\ Holding(processor[p])
  BY Holds
<1>3. Len(inst') = Len(inst) /\ accepted' = accepted /\ protocol' = protocol
  BY DEF Kept, Moved, Around
<1>4. \A a \in Accepted : accepted[a].inst # h
  BY <1>2 DEF Holding, Held
<1>5. ASSUME NEW n \in 1 .. Len(inst)
      PROVE  /\ inst'[n].replies \in {Unread, Won, Failed, Broken}
             /\ inst'[n].replies # Unread => protocol = "SOCKS5" /\ \A a \in Accepted : accepted[a].inst # n
             /\ Tells(inst'[n]) \/ \E q \in Processor : processor'[q].inst = n /\ processor'[q].at = "result"
             /\ protocol = "SOCKS5" /\ inst'[n].ready => inst'[n].replies \in {Won, Broken}
  <2>1. CASE n = h
    <3>1. Tells(inst'[h]) \/ \E q \in Processor : processor'[q].inst = h /\ processor'[q].at = "result"
      BY <1>1 DEF Answered, Held
    <3> QED
      BY <1>4, <2>1, <3>1 DEF Answered
  <2>2. CASE n # h
    <3>1. inst'[n] = inst[n]
      BY <2>2
    <3>2. Tells(inst[n]) \/ \E q \in Processor : processor'[q].inst = n /\ processor'[q].at = "result"
      BY <1>1, <2>2 DEF Inv, ReplyInv, Held
    <3> QED
      BY <3>1, <3>2 DEF Inv, ReplyInv
  <2> QED
    BY <2>1, <2>2
<1>6. ASSUME NEW q \in Processor, processor'[q].at # "idle"
      PROVE  Fits(processor'[q], inst'[processor'[q].inst].replies)
  <2>1. CASE q = p
    BY <1>1, <1>6, <2>1 DEF Answered
  <2>2. CASE q # p /\ Held(q) = h
    BY <1>1, <1>6, <2>2 DEF Answered, Held
  <2>3. CASE q # p /\ Held(q) # h
    <3>1. Held(q) \in 1 .. Len(inst) /\ processor'[q] = processor[q]
      BY <1>1, <1>6, <2>3, Holds
    <3>2. inst'[Held(q)] = inst[Held(q)]
      BY <2>3, <3>1
    <3>3. Fits(processor[q], inst[processor[q].inst].replies)
      BY <1>6, <3>1 DEF Inv, ReplyInv
    <3> QED
      BY <3>1, <3>2, <3>3 DEF Held
  <2> QED
    BY <2>1, <2>2, <2>3
<1> QED
  BY <1>3, <1>5, <1>6 DEF ReplyInv

LEMMA MildAnswered ==
  ASSUME Inv, NEW p \in Processor, NEW v, AllMilder, processor[p].at \notin {"idle", "result"},
         v.at # "idle" => v.inst = Held(p) /\ Fits(v, inst[Held(p)].replies)
  PROVE  Answered(p, v)
<1>1. Held(p) \in 1 .. Len(inst)
  BY Holds
<1>2. /\ inst'[Held(p)].replies = inst[Held(p)].replies /\ inst'[Held(p)].ready = inst[Held(p)].ready
      /\ Tells(inst[Held(p)]) => Tells(inst'[Held(p)])
  BY <1>1 DEF AllMilder, Milder, Tells
<1>3. \A q \in Processor : processor[q].at # "idle" => Fits(processor[q], inst[Held(q)].replies)
  BY DEF Inv, ReplyInv, Held
<1>4. \/ Tells(inst[Held(p)])
      \/ \E q \in Processor : q # p /\ Held(q) = Held(p) /\ processor[q].at = "result"
  BY <1>1 DEF Inv, ReplyInv, Held
<1>5. /\ inst[Held(p)].replies \in {Unread, Won, Failed, Broken}
      /\ inst[Held(p)].replies # Unread => protocol = "SOCKS5"
      /\ protocol = "SOCKS5" /\ inst[Held(p)].ready => inst[Held(p)].replies \in {Won, Broken}
  BY <1>1 DEF Inv, ReplyInv
<1> QED
  BY <1>2, <1>3, <1>4, <1>5 DEF Answered

(* A step that answers nothing.                                            *)
LEMMA MildKeeps ==
  ASSUME Inv, NEW p \in Processor, NEW v, Moved(p, v), AllMilder, processor[p].at \notin {"idle", "result"},
         \A n \in 1 .. Len(inst) : n # Held(p) => inst'[n] = inst[n],
         v.at # "idle" => v.inst = Held(p) /\ Fits(v, inst[Held(p)].replies),
         processor[p].at = "late" => Again(p) = 0 \/ inst'[Again(p)].arq # "open",
         Writing(v) => \A q \in Processor : q # p /\ Writing(processor[q]) => Held(q) # Held(p)
  PROVE  Inv'
<1>1. Kept
  BY MilderKept
<1>2. StreamsInv' /\ RunInv'
  BY <1>1, MovedStreams
<1>3. CancelInv'
  <2>1. \A n \in 1 .. Len(inst) : inst'[n].status = "CANCELLED" /\ inst'[n].arq = "open" =>
          inst[n].status = "CANCELLED" /\ inst[n].arq = "open"
    BY DEF AllMilder, Milder, Over
  <2> QED
    BY <1>1, <2>1, CancelKept
<1>4. LockInv'
  BY LockKept DEF Held, Writing
<1>5. ReplyInv'
  BY <1>1, MildAnswered, ReplyKept
<1> QED
  BY <1>2, <1>3, <1>4, <1>5 DEF Inv

LEMMA OthersSame ==
  ASSUME InstInv, NEW n \in 1 .. Len(inst), NEW f, Milder(inst[n], f), Update(n, f)
  PROVE  AllMilder /\ inst'[n] = f /\ \A m \in 1 .. Len(inst) : m # n => inst'[m] = inst[m]
BY UpdateMild, UpdateOne DEF Milder

(* The handler returns, and did no more than to end its stream.            *)
LEMMA ReturnKeeps ==
  ASSUME Inv, NEW p \in Processor, Return(p), Keep, AllMilder, processor[p].at \notin {"idle", "result"},
         \A n \in 1 .. Len(inst) : n # Held(p) => inst'[n] = inst[n],
         processor[p].at = "late" => Again(p) = 0 \/ inst'[Again(p)].arq # "open"
  PROVE  Inv'
BY ReturnMoves, MildKeeps DEF Resting, Writing

(* It goes on, and did no more.                                            *)
LEMMA StepKeeps ==
  ASSUME Inv, NEW p \in Processor, NEW at \in Place \ {"idle", "write", "result", "ready"}, Step(p, at), Keep, AllMilder,
         processor[p].at \notin {"idle", "result", "late"},
         \A n \in 1 .. Len(inst) : n # Held(p) => inst'[n] = inst[n],
         at \in SocksPlace => protocol = "SOCKS5", at \in TcpPlace => protocol = "TCP"
  PROVE  Inv'
<1> DEFINE v == [processor[p] EXCEPT !.at = at]
<1>1. Moved(p, v) /\ v.at = at /\ v.inst = Held(p)
  BY StepMoves
<1> HIDE DEF v
<1>2. ~Writing(v) /\ Fits(v, inst[Held(p)].replies)
  BY <1>1 DEF Writing, Fits
<1> QED
  BY <1>1, <1>2, MildKeeps

LEMMA AllSame ==
  ASSUME Inv, UNCHANGED inst
  PROVE  AllMilder /\ \A n \in 1 .. Len(inst) : inst'[n] = inst[n]
BY UnchangedMild DEF Inv, StreamsInv

LEMMA LockKeeps == ASSUME Inv, NEW p \in Processor, Lock(p) PROVE Inv'
<1> DEFINE i == inst[Held(p)]
<1>1. processor[p].at = "lock" /\ Unlocked(Held(p)) /\ UNCHANGED inst /\ Keep
  BY DEF Lock
<1>2. AllMilder /\ \A n \in 1 .. Len(inst) : inst'[n] = inst[n]
  BY <1>1, AllSame
<1>3. Held(p) \in 1 .. Len(inst) /\ protocol = "SOCKS5"
  BY <1>1, Holds DEF SocksPlace
<1>4. CASE Step(p, "late")
  BY <1>1, <1>2, <1>3, <1>4, StepKeeps DEF Place, SocksPlace, TcpPlace
<1>5. CASE Return(p)
  BY <1>1, <1>2, <1>5, ReturnKeeps
<1>6. CASE i.status # "CANCELLED" /\ MayAnswer(i, processor[p].ok) /\ Step(p, "write")
  <2> DEFINE v == [processor[p] EXCEPT !.at = "write"]
  <2>1. Moved(p, v) /\ v.at = "write" /\ v.inst = Held(p) /\ v.ok = processor[p].ok
    BY <1>1, <1>3, <1>6, StepMoves DEF Place, SocksPlace, TcpPlace
  <2> HIDE DEF v
  <2>2. \A q \in Processor : Held(q) = Held(p) => ~Writing(processor[q])
    BY <1>1 DEF Unlocked, LockedBy, Writing
  <2>3. Tells(i) /\ i.replies \in {Unread, Won, Failed, Broken}
    BY <1>3, <2>2 DEF Inv, ReplyInv, Held, Writing
  <2>4. Fits(v, i.replies)
    BY <1>6, <2>1, <2>3 DEF Fits, Tells, MayAnswer
  <2> QED
    BY <1>1, <1>2, <2>1, <2>2, <2>4, MildKeeps
<1> QED
  BY <1>4, <1>5, <1>6 DEF Lock

LEMMA WriteKeeps == ASSUME Inv, NEW p \in Processor, Write(p) PROVE Inv'
<1> DEFINE i == inst[Held(p)]
           ok == processor[p].ok
<1>1. processor[p].at = "write" /\ Keep
  BY DEF Write
<1>2. /\ Held(p) \in 1 .. Len(inst) /\ protocol = "SOCKS5" /\ i \in Sound /\ ok \in BOOLEAN
      /\ processor[p] \in ProcessorType
  BY <1>1, Holds DEF SocksPlace, ProcessorType
<1>3. CASE Step(p, "late") /\ UNCHANGED inst
  BY <1>1, <1>2, <1>3, AllSame, StepKeeps DEF Place, SocksPlace, TcpPlace
<1>4. CASE Step(p, "unwritten") /\ UNCHANGED inst
  BY <1>1, <1>2, <1>4, AllSame, StepKeeps DEF Place, SocksPlace, TcpPlace
<1>5. CASE Step(p, "result") /\ Update(Held(p), [i EXCEPT !.replies = Append(@, ok)])
  <2> DEFINE v == [processor[p] EXCEPT !.at = "result"]
             f == [i EXCEPT !.replies = Append(@, ok)]
  <2>1. Moved(p, v) /\ v.at = "result" /\ v.inst = Held(p) /\ v.ok = ok
    BY <1>1, <1>2, <1>5, StepMoves DEF Place, SocksPlace, TcpPlace
  <2>2. IF ok THEN i.replies = Unread ELSE i.replies \in {Unread, Won}
    BY <1>1 DEF Inv, ReplyInv, Fits, Held
  <2>3. IF ok THEN Append(i.replies, ok) = Won ELSE Append(i.replies, ok) \in {Failed, Broken}
    BY <1>2, <2>2, ReplyLonger
  <2>4. f.replies = Append(i.replies, ok) /\ f \in Sound /\ f.sid = i.sid /\ f.arq = i.arq /\ f.status = i.status /\ f.ready = i.ready
    BY <1>2, <2>3, ReplyForm DEF Sound, Stream
  <2>5. Update(Held(p), f)
    BY <1>5
  <2> HIDE DEF v, f
  <2>6. /\ InstInv' /\ Len(inst') = Len(inst) /\ inst'[Held(p)] = f
        /\ \A n \in 1 .. Len(inst) : inst'[n] = IF n = Held(p) THEN f ELSE inst[n]
    BY <1>2, <2>4, <2>5, UpdateOne DEF Inv, StreamsInv
  <2>7. Kept
    BY <2>4, <2>6 DEF Kept
  <2>8. StreamsInv' /\ RunInv'
    BY <2>1, <2>7, MovedStreams
  <2>9. CancelInv'
    BY <1>1, <2>1, <2>4, <2>6, <2>7, CancelKept
  <2>10. \A q \in Processor : q # p /\ Held(q) = Held(p) => ~Writing(processor[q])
    BY <1>1 DEF Inv, LockInv, Writing, Held
  <2>11. LockInv'
    BY <2>1, <2>10, LockKept DEF Held
  <2>12. \A q \in Processor : q # p /\ processor[q].at # "idle" /\ Held(q) = Held(p) => Fits(processor[q], f.replies)
    <3> SUFFICES ASSUME NEW q \in Processor, q # p, processor[q].at # "idle", Held(q) = Held(p)
                 PROVE  Fits(processor[q], f.replies)
      OBVIOUS
    <3>1. processor[q].at = "ready" => i.replies = Won
      BY <2>2, RepliesDiffer DEF Inv, ReplyInv, Fits, Held
    <3>2. processor[q].at = "ready" => f.replies = Broken
      BY <2>2, <2>4, <3>1, RepliesDiffer, ReplyLonger, <1>2
    <3> QED
      BY <2>10, <3>2 DEF Fits, Writing
  <2>13. protocol = "SOCKS5" /\ i.ready => i.replies \in {Won, Broken}
    BY <1>2 DEF Inv, ReplyInv
  <2>14. i.replies = Won => f.replies = Broken
    BY <1>2, <2>2, <2>4, ReplyLonger, RepliesDiffer
  <2>15. f.ready => f.replies \in {Won, Broken}
    BY <1>2, <2>2, <2>4, <2>13, <2>14, RepliesDiffer
  <2>16. Fits(v, f.replies)
    BY <2>1, <2>3, <2>4 DEF Fits
  <2>17. f.replies \in {Unread, Won, Failed, Broken}
    BY <2>3, <2>4
  <2>18. Answered(p, v)
    BY <1>2, <2>1, <2>6, <2>12, <2>15, <2>16, <2>17 DEF Answered
  <2>19. ReplyInv'
    BY <1>1, <2>1, <2>6, <2>7, <2>18, ReplyKept
  <2> QED
    BY <2>8, <2>9, <2>11, <2>19 DEF Inv
<1> QED
  BY <1>3, <1>4, <1>5 DEF Write

LEMMA SetResultKeeps == ASSUME Inv, NEW p \in Processor, SetResult(p) PROVE Inv'
<1> DEFINE i == inst[Held(p)]
           ok == processor[p].ok
           at == IF ok THEN "ready" ELSE "force"
           v == [processor[p] EXCEPT !.at = at]
           s == IF ok THEN "ACTIVE" ELSE "SOCKS_FAILED"
           f == [i EXCEPT !.status = s]
<1>1. processor[p].at = "result" /\ Keep /\ Step(p, at) /\ Update(Held(p), f)
  BY DEF SetResult, SetStatus
<1>2. Held(p) \in 1 .. Len(inst) /\ protocol = "SOCKS5" /\ i \in Sound
  BY <1>1, Holds DEF SocksPlace
<1>3. Moved(p, v) /\ v.at = at /\ v.inst = Held(p)
  <2>1. at \in SocksPlace \ {"idle"} /\ at \in Place /\ at \notin TcpPlace
    BY DEF Place, SocksPlace, TcpPlace
  <2> HIDE DEF at
  <2> QED
    BY <1>1, <1>2, <2>1, StepMoves
<1>4. IF ok THEN i.replies = Won ELSE i.replies \in {Failed, Broken}
  BY <1>1 DEF Inv, ReplyInv, Fits, Held
<1>5. f \in Sound /\ f.sid = i.sid /\ f.arq = i.arq /\ f.status = s /\ f.ready = i.ready /\ f.replies = i.replies
  BY <1>2 DEF Sound, Stream, Statuses
<1> HIDE DEF f, v
<1>6. /\ InstInv' /\ Len(inst') = Len(inst) /\ inst'[Held(p)] = f
      /\ \A n \in 1 .. Len(inst) : inst'[n] = IF n = Held(p) THEN f ELSE inst[n]
  BY <1>1, <1>2, <1>5, UpdateOne DEF Inv, StreamsInv
<1>7. Kept
  BY <1>5, <1>6 DEF Kept
<1>8. StreamsInv' /\ RunInv'
  BY <1>3, <1>7, MovedStreams
<1>9. CancelInv'
  BY <1>1, <1>3, <1>5, <1>6, <1>7, CancelKept
<1>10. LockInv'
  BY <1>3, LockKept DEF Writing
<1>11. Tells(f)
  BY <1>4, <1>5, RepliesDiffer DEF Tells
<1>12. Fits(v, f.replies)
  BY <1>3, <1>4, <1>5 DEF Fits
<1>13. \A q \in Processor : processor[q].at # "idle" /\ Held(q) = Held(p) => Fits(processor[q], i.replies)
  BY DEF Inv, ReplyInv, Held
<1>14. /\ i.replies \in {Unread, Won, Failed, Broken}
       /\ protocol = "SOCKS5" /\ i.ready => i.replies \in {Won, Broken}
  BY <1>2 DEF Inv, ReplyInv
<1>15. Answered(p, v)
  BY <1>2, <1>3, <1>5, <1>6, <1>11, <1>12, <1>13, <1>14 DEF Answered
<1>16. ReplyInv'
  BY <1>1, <1>3, <1>6, <1>7, <1>15, ReplyKept
<1> QED
  BY <1>8, <1>9, <1>10, <1>16 DEF Inv

LEMMA ReadyKeeps == ASSUME Inv, NEW p \in Processor, Ready(p) PROVE Inv'
<1> DEFINE h == Held(p)
           f == [inst[h] EXCEPT !.ready = TRUE]
<1>1. processor[p].at = "ready" /\ Return(p) /\ Keep
  BY DEF Ready
<1>2. h \in 1 .. Len(inst) /\ Again(p) \in {0, h} /\ h # 0 /\ inst[h] \in Sound
  BY <1>1, Holds
<1>3. CASE Again(p) = 0
  BY <1>1, <1>3, AllSame, ReturnKeeps DEF Ready
<1>4. CASE Again(p) = h
  <2>1. Update(h, f)
    BY <1>2, <1>4 DEF Ready
  <2>2. f \in Sound /\ f.sid = inst[h].sid /\ f.arq = inst[h].arq /\ f.status = inst[h].status /\ f.replies = inst[h].replies
    BY <1>2 DEF Sound, Stream
  <2> HIDE DEF f
  <2>3. /\ InstInv' /\ Len(inst') = Len(inst) /\ inst'[h] = f
        /\ \A n \in 1 .. Len(inst) : inst'[n] = IF n = h THEN f ELSE inst[n]
    BY <1>2, <2>1, <2>2, UpdateOne DEF Inv, StreamsInv
  <2>4. Kept
    BY <2>2, <2>3 DEF Kept
  <2>5. Moved(p, Resting)
    BY <1>1, ReturnMoves
  <2>6. StreamsInv' /\ RunInv'
    BY <2>4, <2>5, MovedStreams
  <2>7. CancelInv'
    BY <1>1, <2>2, <2>3, <2>4, <2>5, CancelKept
  <2>8. LockInv'
    BY <2>5, LockKept DEF Writing, Resting
  <2>9. inst[h].replies \in {Won, Broken}
    BY <1>1 DEF Inv, ReplyInv, Fits, Held
  <2>10. /\ Tells(inst[h]) \/ \E q \in Processor : q # p /\ Held(q) = h /\ processor[q].at = "result"
         /\ inst[h].replies \in {Unread, Won, Failed, Broken}
         /\ inst[h].replies # Unread => protocol = "SOCKS5"
         /\ \A q \in Processor : processor[q].at # "idle" /\ Held(q) = h => Fits(processor[q], inst[h].replies)
    BY <1>1, <1>2 DEF Inv, ReplyInv, Held
  <2>11. Tells(inst[h]) => Tells(f)
    BY <2>2 DEF Tells
  <2>12. Answered(p, Resting)
    BY <2>2, <2>3, <2>9, <2>10, <2>11 DEF Answered, Resting
  <2>13. ReplyInv'
    BY <1>1, <2>3, <2>4, <2>5, <2>12, ReplyKept
  <2> QED
    BY <2>6, <2>7, <2>8, <2>13 DEF Inv
<1> QED
  BY <1>2, <1>3, <1>4

LEMMA LateKeeps == ASSUME Inv, NEW p \in Processor, Late(p) PROVE Inv'
<1> DEFINE h == Held(p)
<1>1. processor[p].at = "late" /\ Return(p) /\ Keep
  BY DEF Late
<1>2. h \in 1 .. Len(inst) /\ Again(p) \in {0, h} /\ h # 0 /\ inst[h] \in Sound
  BY <1>1, Holds
<1>3. CASE Again(p) = 0
  BY <1>1, <1>3, AllSame, ReturnKeeps DEF Late
<1>4. CASE Again(p) = h
  <2>1. Update(h, Resetting(inst[h])) /\ Milder(inst[h], Resetting(inst[h])) /\ Resetting(inst[h]).arq # "open"
    BY <1>2, <1>4, ResettingMild DEF Late
  <2>2. AllMilder /\ inst'[h] = Resetting(inst[h]) /\ \A m \in 1 .. Len(inst) : m # h => inst'[m] = inst[m]
    BY <1>2, <2>1, OthersSame DEF Inv, StreamsInv
  <2> QED
    BY <1>1, <1>4, <2>1, <2>2, ReturnKeeps
<1> QED
  BY <1>2, <1>3, <1>4

LEMMA ForceCloseKeeps == ASSUME Inv, NEW p \in Processor, ForceClose(p) PROVE Inv'
<1> DEFINE h == Held(p)
<1>1. processor[p].at = "force" /\ Return(p) /\ Keep
  BY DEF ForceClose
<1>2. h \in 1 .. Len(inst) /\ Again(p) \in {0, h} /\ h # 0 /\ inst[h] \in Sound
  BY <1>1, Holds
<1>3. CASE Again(p) = 0
  BY <1>1, <1>3, AllSame, ReturnKeeps DEF ForceClose
<1>4. CASE Again(p) = h
  <2>1. Update(h, Closed(inst[h])) /\ Milder(inst[h], Closed(inst[h]))
    BY <1>2, <1>4, ClosedMild DEF ForceClose
  <2>2. AllMilder /\ \A m \in 1 .. Len(inst) : m # h => inst'[m] = inst[m]
    BY <1>2, <2>1, OthersSame DEF Inv, StreamsInv
  <2> QED
    BY <1>1, <2>2, ReturnKeeps
<1> QED
  BY <1>2, <1>3, <1>4

LEMMA UnwrittenKeeps == ASSUME Inv, NEW p \in Processor, Unwritten(p) PROVE Inv'
<1> DEFINE h == Held(p)
           f == [inst[h] EXCEPT !.status = "CANCELLED", !.conn = "closed", !.terminal = TRUE]
           v == [processor[p] EXCEPT !.at = "late"]
<1>1. processor[p].at = "unwritten" /\ Keep
  BY DEF Unwritten
<1>2. h \in 1 .. Len(inst) /\ Again(p) \in {0, h} /\ h # 0 /\ inst[h] \in Sound /\ protocol = "SOCKS5"
  BY <1>1, Holds DEF SocksPlace
<1>3. CASE ~(Again(p) # 0 /\ inst[Again(p)].status = "CONNECTING")
  <2>1. Return(p) /\ UNCHANGED inst
    BY <1>3 DEF Unwritten
  <2> QED
    BY <1>1, <2>1, AllSame, ReturnKeeps
<1>4. CASE Again(p) # 0 /\ inst[Again(p)].status = "CONNECTING"
  <2>1. Update(h, f) /\ Step(p, "late") /\ Unlocked(h) /\ inst[h].status = "CONNECTING"
    BY <1>2, <1>4 DEF Unwritten
  <2>2. Moved(p, v) /\ v.at = "late" /\ v.inst = h
    BY <1>1, <1>2, <2>1, StepMoves DEF Place, SocksPlace, TcpPlace
  <2>3. /\ f \in Sound /\ f.sid = inst[h].sid /\ f.arq = inst[h].arq /\ f.replies = inst[h].replies
        /\ f.ready = inst[h].ready
    BY <1>2 DEF Sound, Stream, Statuses
  <2> HIDE DEF f, v
  <2>4. /\ InstInv' /\ Len(inst') = Len(inst) /\ inst'[h] = f
        /\ \A n \in 1 .. Len(inst) : inst'[n] = IF n = h THEN f ELSE inst[n]
    BY <1>2, <2>1, <2>3, UpdateOne DEF Inv, StreamsInv
  <2>5. Kept
    BY <2>3, <2>4 DEF Kept
  <2>6. StreamsInv' /\ RunInv'
    BY <2>2, <2>5, MovedStreams
  <2>7. CancelInv'
    BY <1>1, <2>2, <2>4, <2>5, CancelKept
  <2>8. LockInv'
    BY <2>2, LockKept DEF Writing
  <2>9. Tells(inst[h])
    BY <1>2, <2>1 DEF Inv, ReplyInv, Unlocked, LockedBy, Held
  <2>10. inst[h].replies = Unread
    BY <1>2, <2>1, <2>9 DEF Tells, Over, Inv, ReplyInv
  <2>11. Tells(f)
    BY <2>3, <2>10, RepliesDiffer DEF Tells
  <2>12. /\ protocol = "SOCKS5" /\ inst[h].ready => inst[h].replies \in {Won, Broken}
         /\ \A q \in Processor : processor[q].at # "idle" /\ Held(q) = h => Fits(processor[q], inst[h].replies)
    BY <1>2 DEF Inv, ReplyInv, Held
  <2>13. Fits(v, f.replies)
    BY <2>2 DEF Fits
  <2>14. Answered(p, v)
    BY <1>2, <2>2, <2>3, <2>4, <2>10, <2>11, <2>12, <2>13 DEF Answered
  <2>15. ReplyInv'
    BY <1>1, <2>2, <2>4, <2>5, <2>14, ReplyKept
  <2> QED
    BY <2>6, <2>7, <2>8, <2>15 DEF Inv
<1> QED
  BY <1>3, <1>4

(* A step of the TCP handlers that keeps what was read and sets no doubtful status. *)
LEMMA TcpKeeps ==
  ASSUME Inv, NEW p \in Processor, NEW v, Moved(p, v), NEW f \in Sound, Update(Held(p), f),
         protocol = "TCP", processor[p].at \in TcpPlace,
         f.sid = inst[Held(p)].sid, f.arq = inst[Held(p)].arq, f.replies = inst[Held(p)].replies,
         f.status \in {inst[Held(p)].status, "ACTIVE"},
         v.at \notin {"write", "result", "ready"}, v.at # "idle" => v.inst = Held(p)
  PROVE  Inv'
<1> DEFINE h == Held(p)
<1>1. h \in 1 .. Len(inst) /\ inst[h] \in Sound /\ processor[p].at \notin {"idle", "late", "result"}
  BY Holds DEF TcpPlace
<1>2. /\ InstInv' /\ Len(inst') = Len(inst) /\ inst'[h] = f
      /\ \A n \in 1 .. Len(inst) : inst'[n] = IF n = h THEN f ELSE inst[n]
  BY <1>1, UpdateOne DEF Inv, StreamsInv
<1>3. Kept
  BY <1>2 DEF Kept
<1>4. StreamsInv' /\ RunInv'
  BY <1>3, MovedStreams
<1>5. CancelInv'
  BY <1>1, <1>2, <1>3, CancelKept
<1>6. LockInv'
  BY LockKept DEF Writing
<1>7. f.replies = Unread
  BY <1>1 DEF Inv, ReplyInv
<1>8. Tells(f)
  BY <1>7, RepliesDiffer DEF Tells
<1>9. \A q \in Processor : processor[q].at # "idle" /\ Held(q) = h => Fits(processor[q], f.replies)
  BY DEF Inv, ReplyInv, Held
<1>10. Answered(p, v)
  BY <1>2, <1>7, <1>8, <1>9 DEF Answered, Fits
<1>11. ReplyInv'
  BY <1>1, <1>2, <1>3, <1>10, ReplyKept
<1> QED
  BY <1>4, <1>5, <1>6, <1>11 DEF Inv

LEMMA StreamResultKeeps == ASSUME Inv, NEW p \in Processor, StreamResult(p) PROVE Inv'
<1> DEFINE h == Held(p)
<1>1. processor[p].at \in {"connected", "failed"} /\ Keep
  BY DEF StreamResult
<1>2. h \in 1 .. Len(inst) /\ inst[h] \in Sound /\ protocol = "TCP"
  BY <1>1, Holds DEF TcpPlace
<1>3. CASE Return(p) /\ UNCHANGED inst
  BY <1>1, <1>3, AllSame, ReturnKeeps
<1>4. CASE Return(p) /\ Update(h, Resetting(inst[h]))
  <2>1. AllMilder /\ \A m \in 1 .. Len(inst) : m # h => inst'[m] = inst[m]
    BY <1>2, <1>4, ResettingMild, OthersSame DEF Inv, StreamsInv
  <2> QED
    BY <1>1, <1>4, <2>1, ReturnKeeps
<1>5. CASE Step(p, "active") /\ Update(h, [inst[h] EXCEPT !.ready = TRUE])
  <2> DEFINE v == [processor[p] EXCEPT !.at = "active"]
             f == [inst[h] EXCEPT !.ready = TRUE]
  <2>1. Moved(p, v) /\ v.at = "active" /\ v.inst = h
    BY <1>1, <1>2, <1>5, StepMoves DEF Place, SocksPlace, TcpPlace
  <2>2. f \in Sound /\ f.sid = inst[h].sid /\ f.arq = inst[h].arq /\ f.status = inst[h].status /\ f.replies = inst[h].replies
    BY <1>2 DEF Sound, Stream
  <2>3. Update(Held(p), f)
    BY <1>5
  <2> HIDE DEF v, f
  <2> QED
    BY <1>1, <1>2, <2>1, <2>2, <2>3, TcpKeeps DEF TcpPlace
<1>6. CASE Step(p, "fail") /\ Update(h, [inst[h] EXCEPT !.terminal = TRUE])
  <2>1. AllMilder /\ \A m \in 1 .. Len(inst) : m # h => inst'[m] = inst[m]
    BY <1>2, <1>6, TerminalMild, OthersSame DEF Inv, StreamsInv
  <2> QED
    BY <1>1, <1>2, <1>6, <2>1, StepKeeps DEF Place, SocksPlace, TcpPlace
<1> QED
  BY <1>3, <1>4, <1>5, <1>6 DEF StreamResult

LEMMA StreamActiveKeeps == ASSUME Inv, NEW p \in Processor, StreamActive(p) PROVE Inv'
<1> DEFINE h == Held(p)
           f == [inst[h] EXCEPT !.status = "ACTIVE"]
<1>1. processor[p].at = "active" /\ Keep /\ Return(p) /\ Update(Held(p), f)
  BY DEF StreamActive, SetStatus
<1>2. h \in 1 .. Len(inst) /\ inst[h] \in Sound /\ protocol = "TCP"
  BY <1>1, Holds DEF TcpPlace
<1>3. f \in Sound /\ f.sid = inst[h].sid /\ f.arq = inst[h].arq /\ f.status = "ACTIVE" /\ f.replies = inst[h].replies
  BY <1>2 DEF Sound, Stream, Statuses
<1> HIDE DEF f
<1>4. Moved(p, Resting) /\ Resting.at = "idle"
  BY <1>1, ReturnMoves DEF Resting
<1> QED
  BY <1>1, <1>2, <1>3, <1>4, TcpKeeps DEF TcpPlace

LEMMA StreamFailKeeps == ASSUME Inv, NEW p \in Processor, StreamFail(p) PROVE Inv'
<1> DEFINE h == Held(p)
           i == [inst[h] EXCEPT !.status = "TIME_WAIT"]
<1>1. processor[p].at = "fail" /\ Keep /\ Return(p) /\ Update(h, Closed(i))
  BY DEF StreamFail
<1>2. h \in 1 .. Len(inst) /\ inst[h] \in Sound
  BY <1>1, Holds
<1>3. Milder(inst[h], i) /\ i \in Sound
  BY <1>2, StatusMild DEF Over, Milder
<1>4. Milder(inst[h], Closed(i))
  BY <1>3, ClosedMild, MildTwice
<1>5. AllMilder /\ \A m \in 1 .. Len(inst) : m # h => inst'[m] = inst[m]
  BY <1>1, <1>2, <1>4, OthersSame DEF Inv, StreamsInv
<1> QED
  BY <1>1, <1>5, ReturnKeeps

LEMMA RstKeeps == ASSUME Inv, NEW p \in Processor, Rst(p) PROVE Inv'
<1> DEFINE h == Held(p)
<1>1. processor[p].at = "rst" /\ Keep /\ Step(p, "rstMark") /\ Update(h, Closed(inst[h]))
  BY DEF Rst
<1>2. h \in 1 .. Len(inst) /\ inst[h] \in Sound
  BY <1>1, Holds
<1>3. AllMilder /\ \A m \in 1 .. Len(inst) : m # h => inst'[m] = inst[m]
  BY <1>1, <1>2, ClosedMild, OthersSame DEF Inv, StreamsInv
<1> QED
  BY <1>1, <1>3, StepKeeps DEF Place, SocksPlace, TcpPlace

LEMMA RstMarkKeeps == ASSUME Inv, NEW p \in Processor, RstMark(p) PROVE Inv'
<1> DEFINE h == Held(p)
<1>1. processor[p].at = "rstMark" /\ Keep /\ Update(h, [inst[h] EXCEPT !.terminal = TRUE])
  BY DEF RstMark
<1>2. h \in 1 .. Len(inst) /\ inst[h] \in Sound
  BY <1>1, Holds
<1>3. AllMilder /\ \A m \in 1 .. Len(inst) : m # h => inst'[m] = inst[m]
  BY <1>1, <1>2, TerminalMild, OthersSame DEF Inv, StreamsInv
<1>4. CASE Return(p)
  BY <1>1, <1>3, <1>4, ReturnKeeps
<1>5. CASE Step(p, "rstSet")
  BY <1>1, <1>3, <1>5, StepKeeps DEF Place, SocksPlace, TcpPlace
<1> QED
  BY <1>4, <1>5 DEF RstMark

LEMMA RstSetKeeps == ASSUME Inv, NEW p \in Processor, RstSet(p) PROVE Inv'
<1> DEFINE h == Held(p)
<1>1. processor[p].at = "rstSet" /\ Keep /\ Return(p) /\ Update(h, [inst[h] EXCEPT !.status = "TIME_WAIT"])
  BY DEF RstSet, SetStatus
<1>2. h \in 1 .. Len(inst) /\ inst[h] \in Sound
  BY <1>1, Holds
<1>3. AllMilder /\ \A m \in 1 .. Len(inst) : m # h => inst'[m] = inst[m]
  BY <1>1, <1>2, StatusMild, OthersSame DEF Inv, StreamsInv, Over
<1> QED
  BY <1>1, <1>3, ReturnKeeps

LEMMA ReceiveKeeps ==
  ASSUME Inv, NEW p \in Processor, NEW s \in Sid, NEW type \in Types, Receive(p, s, type) PROVE Inv'
<1> DEFINE at == IF type \in {"socksConnected", "socksFailed"} THEN "lock" ELSE type
           v == [at |-> at, sid |-> s, inst |-> table[s], ok |-> type \in {"connected", "socksConnected"}]
<1>1. /\ processor[p].at = "idle" /\ table[s] # 0 /\ UNCHANGED inst /\ Around
      /\ processor' = [processor EXCEPT ![p] = v] /\ \A a \in Accepted : accepted[a].inst # table[s]
  BY DEF Receive, Around, records
<1>2. table[s] \in 1 .. Len(inst) /\ inst[table[s]].sid = s
  BY <1>1, InTable
<1>3. /\ at \in {"lock", "connected", "failed", "rst"}
      /\ at \in SocksPlace => protocol = "SOCKS5"
      /\ at \in TcpPlace => protocol = "TCP"
  BY DEF Types, SocksPlace, TcpPlace, Inv, StreamsInv, ListInv
<1>4. /\ v.at = at /\ v.sid = s /\ v.inst = table[s] /\ v \in ProcessorType
  BY <1>2, <1>3 DEF ProcessorType, Place, SocksPlace, TcpPlace
<1> HIDE DEF v, at
<1>5. Moved(p, v)
  BY <1>1, <1>2, <1>3, <1>4 DEF Moved, Holding
<1>6. AllMilder /\ \A n \in 1 .. Len(inst) : inst'[n] = inst[n]
  BY <1>1, AllSame
<1>7. Kept
  BY <1>6, MilderKept
<1>8. StreamsInv' /\ RunInv'
  BY <1>5, <1>7, MovedStreams
<1>9. CancelInv'
  BY <1>1, <1>5, <1>6, <1>7, CancelKept
<1>10. LockInv'
  BY <1>3, <1>4, <1>5, LockKept DEF Writing
<1>11. processor'[p] = v /\ \A q \in Processor : q # p => processor'[q] = processor[q]
  BY <1>5, MovedFacts
<1>12. ReplyInv'
  <2>1. inst' = inst /\ accepted' = accepted /\ protocol' = protocol
    BY <1>1 DEF Around
  <2>2. ASSUME NEW n \in 1 .. Len(inst)
        PROVE  Tells(inst[n]) \/ \E q \in Processor : processor'[q].inst = n /\ processor'[q].at = "result"
    BY <1>1, <1>11 DEF Inv, ReplyInv
  <2>3. \A q \in Processor : processor'[q].at # "idle" => Fits(processor'[q], inst[processor'[q].inst].replies)
    BY <1>3, <1>4, <1>11 DEF Inv, ReplyInv, Fits
  <2> QED
    BY <2>1, <2>2, <2>3 DEF Inv, ReplyInv
<1> QED
  BY <1>8, <1>9, <1>10, <1>12 DEF Inv

LEMMA ProcessingKeeps == ASSUME Inv, NEW p \in Processor, Processing(p) PROVE Inv'
BY LockKeeps, WriteKeeps, SetResultKeeps, ReadyKeeps, LateKeeps, ForceCloseKeeps, UnwrittenKeeps,
   StreamResultKeeps, StreamActiveKeeps, StreamFailKeeps, RstKeeps, RstMarkKeeps, RstSetKeeps,
   ReceiveKeeps, CloseAckKeeps, MissingKeeps DEF Processing

-----------------------------------------------------------------------------
(* The inductive invariant. *)

LEMMA InitInv == ASSUME Init PROVE Inv
<1>1. Len(inst) = 0 /\ inst \in Seq(Sound) /\ 1 .. Len(inst) = {} /\ 0 \in 0 .. Len(inst)
  <2>1. inst = <<>>
    BY DEF Init
  <2>2. inst \in Seq(Sound) /\ Len(inst) = 0
    BY <2>1, EmptySeq
  <2> QED
    BY <2>2
<1>2. StreamsInv
  BY <1>1 DEF Init, StreamsInv, InstInv, TableInv, ListInv, AcceptInv, ProcInv, Resting, AcceptPlace, Place, SweepSaw
<1>3. RunInv
  BY <1>1 DEF Init, RunInv
<1>4. CancelInv /\ LockInv /\ ReplyInv
  BY <1>1 DEF Init, CancelInv, LockInv, ReplyInv, Writing, Resting
<1> QED
  BY <1>2, <1>3, <1>4 DEF Inv

LEMMA NextInv == ASSUME Inv, [Next]_vars PROVE Inv'
<1>1. CASE UNCHANGED vars
  <2>1. AllMilder
    BY <1>1, AllSame DEF vars
  <2>2. Fades /\ Handed
    BY <1>1, <2>1, SameTable DEF vars
  <2>3. Paused /\ ListInv'
    BY <1>1 DEF vars, records, Paused, Inv, RunInv, StreamsInv, ListInv, SweepIdle
  <2> QED
    BY <1>1, <2>1, <2>2, <2>3, BesideKeeps DEF vars
<1>2. CASE Next
  BY <1>2, AcceptingKeeps, ProcessingKeeps, EndingKeeps DEF Next
<1> QED
  BY <1>1, <1>2

LEMMA SpecInv == Spec => []Inv
BY InitInv, NextInv, PTL DEF Spec

-----------------------------------------------------------------------------
(* writeSocksConnectResultLocked: in every behaviour, for any number of    *)
(* processors and repeated answers, an application reads one success at    *)
(* most, nothing after a failure, and bytes of the tunnel only behind the  *)
(* reply that says that it is connected.                                   *)
THEOREM AnsweredOnce == Spec => []OneReply
<1>1. ASSUME Inv PROVE OneReply
  <2> SUFFICES ASSUME NEW n \in DOMAIN inst
               PROVE  /\ \A j, k \in DOMAIN inst[n].replies : j < k => inst[n].replies[j] /\ ~inst[n].replies[k] /\ k = 2
                      /\ protocol = "SOCKS5" /\ inst[n].ready => inst[n].replies # <<>> /\ inst[n].replies[1]
    BY DEF OneReply
  <2>1. n \in 1 .. Len(inst)
    BY <1>1, InstFacts DEF Inv, StreamsInv
  <2>2. /\ inst[n].replies \in {Unread, Won, Failed, Broken}
        /\ protocol = "SOCKS5" /\ inst[n].ready => inst[n].replies \in {Won, Broken}
    BY <1>1, <2>1 DEF Inv, ReplyInv
  <2> QED
    BY <2>2, ReplyFacts
<1> QED
  BY <1>1, SpecInv, PTL

(* finalizeAfterARQClose, removeStream, CloseAllStreams: whatever takes a  *)
(* stream out of the table, in every behaviour it is closed or about to    *)
(* be; and the table never names a stream that is not there, or another    *)
(* id's.                                                                   *)
THEOREM NoStreamLost == Spec => []NoneLost
<1>1. ASSUME Inv PROVE NoneLost
  <2>1. DOMAIN inst = 1 .. Len(inst) /\ \A n \in 1 .. Len(inst) : inst[n] \in Sound
    BY <1>1, InstFacts DEF Inv, StreamsInv
  <2>2. TypeOK
    BY <1>1, <2>1 DEF Inv, StreamsInv, TableInv, ListInv, TypeOK, Sound, Stream
  <2>3. \A n \in DOMAIN inst : inst[n].arq = "closed" \/ n \in doomed \/ table[inst[n].sid] = n
    BY <1>1, <2>1 DEF Inv, RunInv
  <2> QED
    BY <2>2, <2>3 DEF NoneLost
<1> QED
  BY <1>1, SpecInv, PTL

(* handlePendingSOCKSLocalClose: in every behaviour a stream that was given *)
(* up is being reset as long as it is in the table and no processor is on  *)
(* its way to do it.                                                       *)
THEOREM GivenUpIsReset == Spec => []CancelledIsReset
<1>1. ASSUME Inv PROVE CancelledIsReset
  <2>1. DOMAIN inst = 1 .. Len(inst)
    BY <1>1, InstFacts DEF Inv, StreamsInv
  <2> QED
    BY <1>1, <2>1 DEF Inv, CancelInv, CancelledIsReset, Quiet, Held
<1> QED
  BY <1>1, SpecInv, PTL
=============================================================================
