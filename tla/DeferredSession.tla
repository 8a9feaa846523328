-------------------------- MODULE DeferredSession --------------------------
(***************************************************************************)
(* udpserver/deferred_session.go: the workers that run stream setup and    *)
(* DNS queries outside the ingress path.  A task belongs to a lane, a      *)
(* session and a stream; while a lane is mapped, its tasks go to one       *)
(* worker.  Removing a lane or a session cancels what runs and compacts    *)
(* the workers' channels: it takes every task out and puts back the ones   *)
(* it keeps, under the lock, while the workers, which need no lock to      *)
(* receive, go on taking tasks.                                            *)
(*                                                                         *)
(* Tasks are numbered in the order in which they are accepted.             *)
(***************************************************************************)
EXTENDS Naturals, Sequences, FiniteSets

CONSTANTS
  Session, Stream,
  Workers,       \* how many workers
  QueueLimit,    \* capacity of a worker's channel
  SessionCap,    \* sessionPendingCap
  MaxTasks, MaxRemovals

ASSUME DeferredAssumption ==
  /\ Workers \in Nat \ {0} /\ QueueLimit \in Nat \ {0} /\ SessionCap \in Nat \ {0}
  /\ MaxTasks \in Nat /\ MaxRemovals \in Nat

VARIABLES
  lane,             \* lane[t]: the lane of task t
  laneWorker,       \* laneWorker[l]: the worker l is mapped to, Workers for none
  cancelled,        \* lanes marked as cancelled
  running,          \* running[l]: the task whose cancel function is kept, 0 for none
  sessionPending,
  nextWorker,
  jobs,             \* jobs[w]: the channel of worker w
  pending,          \* pending[w]: its counter
  worker,           \* worker[w]: what the goroutine of w is doing
  done,             \* tasks whose context is cancelled
  compaction,       \* the removal that holds the lock, at = Workers for none
  removals,
  revoked           \* tasks that a removal of their lane or session was to stop

vars == <<lane, laneWorker, cancelled, running, sessionPending, nextWorker, jobs,
          pending, worker, done, compaction, removals, revoked>>

queues == <<jobs, pending, sessionPending>>
limits == <<nextWorker, removals>>

Worker == 0 .. Workers - 1
Lane   == Session \X Stream

Init ==
  /\ lane = <<>>
  /\ laneWorker = [l \in Lane |-> Workers]
  /\ cancelled = {} /\ running = [l \in Lane |-> 0]
  /\ sessionPending = [s \in Session |-> 0]
  /\ nextWorker = 0
  /\ jobs = [w \in Worker |-> <<>>] /\ pending = [w \in Worker |-> 0]
  /\ worker = [w \in Worker |-> [at |-> "idle", task |-> 0]]
  /\ done = {}
  /\ compaction = [drop |-> {}, at |-> Workers, queued |-> <<>>]
  /\ removals = 0 /\ revoked = {}

Unlocked == compaction.at = Workers

\* The tasks in a worker's hands, queued, or taken out by the compaction.
Held       == {worker[w].task : w \in {v \in Worker : worker[v].at # "idle"}}
Queued     == UNION {{jobs[w][i] : i \in DOMAIN jobs[w]} : w \in Worker}
TakenOut   == {compaction.queued[i] : i \in DOMAIN compaction.queued}
InSystem   == Held \cup Queued \cup TakenOut
SessionOf(t) == lane[t][1]

-----------------------------------------------------------------------------
(* Enqueue *)

\* selectLeastLoadedWorkerLocked: the first from nextWorker on that is least loaded.
LeastLoaded ==
  LET distance(w) == (w + Workers - nextWorker) % Workers
  IN CHOOSE w \in Worker : \A v \in Worker :
       pending[w] < pending[v] \/ (pending[w] = pending[v] /\ distance(w) <= distance(v))

Accept(l, w) ==
  /\ lane' = Append(lane, l)
  /\ laneWorker' = [laneWorker EXCEPT ![l] = w]
  /\ jobs' = [jobs EXCEPT ![w] = Append(@, Len(lane) + 1)]
  /\ pending' = [pending EXCEPT ![w] = @ + 1]
  /\ sessionPending' = [sessionPending EXCEPT ![l[1]] = @ + 1]

Reject == UNCHANGED <<lane, laneWorker, queues>>

\* A task of lane l arrives: it is accepted, or refused because its session has
\* too many or the channel is full.  All of this is under the lock.
Enqueue(l) ==
  LET w == IF laneWorker[l] # Workers THEN laneWorker[l] ELSE LeastLoaded IN
  /\ Unlocked /\ Len(lane) < MaxTasks
  /\ cancelled' = cancelled \ {l}
  /\ IF sessionPending[l[1]] >= SessionCap
     THEN Reject /\ UNCHANGED nextWorker
     ELSE /\ nextWorker' = IF laneWorker[l] # Workers THEN nextWorker ELSE (w + 1) % Workers
          /\ IF Len(jobs[w]) < QueueLimit THEN Accept(l, w) ELSE Reject
  /\ UNCHANGED <<running, worker, done, compaction, removals, revoked>>

-----------------------------------------------------------------------------
(* RemoveSession, RemoveLane, FinalizeLane *)

Compact(lanes) == compaction' = [drop |-> lanes, at |-> 0, queued |-> <<>>]

\* a bug: lanes are told apart by their stream alone
RemoveByStream(lanes, marked) ==
  /\ Unlocked /\ removals < MaxRemovals
  /\ LET all == {m \in Lane : \E l \in lanes : l[2] = m[2]} IN
     /\ done' = done \cup ({running[l] : l \in all} \ {0})
     /\ running' = [l \in Lane |-> IF l \in all THEN 0 ELSE running[l]]
  /\ cancelled' = cancelled \cup marked
  /\ laneWorker' = [l \in Lane |-> IF l \in lanes THEN Workers ELSE laneWorker[l]]
  /\ Compact(lanes)
  /\ removals' = removals + 1
  /\ revoked' = revoked \cup {t \in InSystem : lane[t] \in lanes}
  /\ UNCHANGED <<lane, nextWorker, queues, worker>>

\* Cancel what runs in some lanes, mark others and drop what is queued.
Remove(lanes, marked) ==
  /\ Unlocked /\ removals < MaxRemovals
  /\ done' = done \cup ({running[l] : l \in lanes} \ {0})
  /\ running' = [l \in Lane |-> IF l \in lanes THEN 0 ELSE running[l]]
  /\ cancelled' = cancelled \cup marked
  /\ laneWorker' = [l \in Lane |-> IF l \in lanes THEN Workers ELSE laneWorker[l]]
  /\ Compact(lanes)
  /\ removals' = removals + 1
  /\ revoked' = revoked \cup {t \in InSystem : lane[t] \in lanes}
  /\ UNCHANGED <<lane, nextWorker, queues, worker>>

RemoveSession(s) ==
  LET lanes == {l \in Lane : l[1] = s}
  IN Remove(lanes, {l \in lanes : laneWorker[l] # Workers})

RemoveLane(l) == Remove({l}, {l})

(* A task that has answered drops the duplicates queued behind it. *)
FinalizeLane(w) ==
  LET l == lane[worker[w].task] IN
  /\ Unlocked /\ worker[w].at = "run"
  /\ worker' = [worker EXCEPT ![w].at = "finalized"]
  /\ laneWorker' = [laneWorker EXCEPT ![l] = Workers]
  /\ cancelled' = cancelled \cup {l}
  /\ Compact({l})
  /\ UNCHANGED <<lane, running, queues, done, limits, revoked>>

DropUncounted(t) ==
  /\ pending' = [pending EXCEPT ![compaction.at] = @ - 1]
  /\ laneWorker' = [laneWorker EXCEPT ![lane[t]] = Workers]
  /\ UNCHANGED sessionPending

Drop(t) ==
  /\ pending' = [pending EXCEPT ![compaction.at] = @ - 1]
  /\ laneWorker' = [laneWorker EXCEPT ![lane[t]] = Workers]
  /\ sessionPending' = [sessionPending EXCEPT ![SessionOf(t)] = @ - 1]

\* compactWorkerLocked takes the tasks out one by one...
CompactTake ==
  LET w == compaction.at
      t == Head(jobs[w])
  IN /\ ~Unlocked /\ jobs[w] # <<>>
     /\ jobs' = [jobs EXCEPT ![w] = Tail(@)]
     /\ IF lane[t] \in compaction.drop \cup cancelled
        THEN Drop(t) /\ UNCHANGED compaction
        ELSE /\ compaction' = [compaction EXCEPT !.queued = Append(@, t)]
             /\ UNCHANGED <<pending, laneWorker, sessionPending>>
     /\ UNCHANGED <<lane, cancelled, running, worker, done, limits, revoked>>

\* ... until the channel is empty, and puts back the others.
CompactRefill ==
  LET w == compaction.at IN
  /\ ~Unlocked /\ jobs[w] = <<>>
  /\ jobs' = [jobs EXCEPT ![w] = compaction.queued]
  /\ compaction' = IF w + 1 = Workers THEN [drop |-> {}, at |-> Workers, queued |-> <<>>]
                   ELSE [compaction EXCEPT !.at = w + 1, !.queued = <<>>]
  /\ UNCHANGED <<lane, laneWorker, cancelled, running, sessionPending, pending, worker,
                 done, limits, revoked>>

-----------------------------------------------------------------------------
(* runDeferredWorker *)

Receive(w) ==
  /\ worker[w].at = "idle" /\ jobs[w] # <<>>
  /\ worker' = [worker EXCEPT ![w] = [at |-> "received", task |-> Head(jobs[w])]]
  /\ jobs' = [jobs EXCEPT ![w] = Tail(@)]
  /\ UNCHANGED <<lane, laneWorker, cancelled, running, sessionPending, pending, done,
                 compaction, limits, revoked>>

\* beginTaskContext: a task of a cancelled lane gets a cancelled context and
\* returns at once.
BeginTask(w) ==
  LET t == worker[w].task IN
  /\ Unlocked /\ worker[w].at = "received"
  /\ IF lane[t] \in cancelled
     THEN /\ worker' = [worker EXCEPT ![w].at = "skip"]
          /\ done' = done \cup {t}
          /\ UNCHANGED running
     ELSE /\ worker' = [worker EXCEPT ![w].at = "run"]
          /\ running' = [running EXCEPT ![lane[t]] = t]
          /\ UNCHANGED done
  /\ UNCHANGED <<lane, laneWorker, cancelled, queues, compaction, limits, revoked>>

Return(w) ==
  /\ worker[w].at \in {"run", "skip", "finalized"}
  /\ worker' = [worker EXCEPT ![w].at = "returned"]
  /\ pending' = [pending EXCEPT ![w] = @ - 1]
  /\ UNCHANGED <<lane, laneWorker, cancelled, running, sessionPending, jobs, done,
                 compaction, limits, revoked>>

FinishLaneUnmapped(w) ==
  LET l == lane[worker[w].task] IN
  /\ Unlocked /\ worker[w].at = "returned"
  /\ worker' = [worker EXCEPT ![w].at = "idle", ![w].task = 0]
  /\ done' = done \cup ({running[l]} \ {0})
  /\ running' = [running EXCEPT ![l] = 0]
  /\ cancelled' = cancelled \ {l}
  /\ sessionPending' = [sessionPending EXCEPT ![l[1]] = @ - 1]
  /\ UNCHANGED <<lane, laneWorker, jobs, pending, compaction, limits, revoked>>

FinishLane(w) ==
  LET l == lane[worker[w].task] IN
  /\ Unlocked /\ worker[w].at = "returned"
  /\ worker' = [worker EXCEPT ![w].at = "idle", ![w].task = 0]
  /\ laneWorker' = [laneWorker EXCEPT ![l] = IF @ = w THEN Workers ELSE @]
  /\ done' = done \cup ({running[l]} \ {0})
  /\ running' = [running EXCEPT ![l] = 0]
  /\ cancelled' = cancelled \ {l}
  /\ sessionPending' = [sessionPending EXCEPT ![l[1]] = @ - 1]
  /\ UNCHANGED <<lane, jobs, pending, compaction, limits, revoked>>

Next ==
  \/ \E l \in Lane : Enqueue(l) \/ RemoveLane(l)
  \/ \E s \in Session : RemoveSession(s)
  \/ CompactTake \/ CompactRefill
  \/ \E w \in Worker : \/ Receive(w) \/ BeginTask(w) \/ FinalizeLane(w)
                       \/ Return(w) \/ FinishLane(w)

Spec == Init /\ [][Next]_vars

-----------------------------------------------------------------------------
(* Properties. *)

TypeOK ==
  LET Task0 == 0 .. Len(lane) IN
  /\ lane \in Seq(Lane) /\ Len(lane) <= MaxTasks
  /\ laneWorker \in [Lane -> 0 .. Workers]
  /\ cancelled \subseteq Lane
  /\ running \in [Lane -> Task0]
  /\ sessionPending \in [Session -> 0 .. SessionCap]
  /\ nextWorker \in Worker
  /\ jobs \in [Worker -> Seq(Task0)] /\ \A w \in Worker : Len(jobs[w]) <= QueueLimit
  /\ pending \in [Worker -> Nat]
  /\ worker \in [Worker -> [at : {"idle", "received", "run", "skip", "finalized", "returned"},
                            task : Task0]]
  /\ done \subseteq Task0 /\ revoked \subseteq Task0
  /\ compaction \in [drop : SUBSET Lane, at : 0 .. Workers, queued : Seq(Task0)]
  /\ removals \in 0 .. MaxRemovals

(* The counters by which load is balanced and a busy session is refused     *)
(* agree with the tasks there are, whatever is removed while workers take   *)
(* tasks: a count left behind would shut the session out.  And a removal    *)
(* that puts tasks back finds room for them, so it never blocks with the    *)
(* lock held (compactWorkerLocked).                                         *)
PendingExact ==
  /\ TypeOK
  /\ \A w \in Worker :
       pending[w] = Len(jobs[w])
                    + (IF compaction.at = w THEN Len(compaction.queued) ELSE 0)
                    + (IF worker[w].at \in {"idle", "returned"} THEN 0 ELSE 1)
  /\ \A s \in Session : sessionPending[s] = Cardinality({t \in InSystem : SessionOf(t) = s})
  /\ ~Unlocked => Len(jobs[compaction.at]) + Len(compaction.queued) <= QueueLimit

(* When no task is left, no lane is still mapped to a worker and no cancel  *)
(* function is kept, although a mapping may be replaced while a task of the *)
(* lane is still in a worker's hands (finishLane).                          *)
QuietIsClean ==
  InSystem = {} /\ Unlocked =>
    \A l \in Lane : laneWorker[l] = Workers /\ running[l] = 0

(* A running task is cancelled only by a removal of its lane or session, or *)
(* by the end of another task of its own lane: the cancel functions are     *)
(* kept by lane, and those of other lanes and sessions are never called.    *)
CancelledInLane ==
  \A w \in Worker : worker[w].at = "run" /\ worker[w].task \in done =>
    \/ worker[w].task \in revoked
    \/ \E t \in DOMAIN lane \ InSystem : lane[t] = lane[worker[w].task]
=============================================================================
