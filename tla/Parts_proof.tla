----------------------------- MODULE Parts_proof -----------------------------
(***************************************************************************)
(* Four parts that are checked in one run (MCParts), for any number of     *)
(* workers, sessions, tasks, sizes, queries and resolvers:                 *)
(*                                                                         *)
(*  - the counters of the workers of deferred tasks are exact whatever is  *)
(*    removed while they take tasks, nothing stays mapped when no task is  *)
(*    left, and cancelling keeps to a lane (DeferredSession);              *)
(*  - the bisection of the MTU scan is exact, and the optimizer drops      *)
(*    resolvers only for a gain (MtuSearch);                               *)
(*  - a DNS query is worked on once, lookups are shared and wake who       *)
(*    waits, and fail late (DnsResolver);                                  *)
(*  - copies of a packet go to different resolvers, and the strategies by  *)
(*    score choose the best (ResolverChoice).                              *)
(***************************************************************************)
EXTENDS DeferredSession, DnsResolver, MtuSearch, ResolverChoice,
        FiniteSetTheorems, SequenceTheorems, WellFoundedInduction, TLAPS

-----------------------------------------------------------------------------
(* The workers of deferred tasks. *)

(* Where a task is: in the channel of a worker, in its hands, or taken out *)
(* of the channel by the compaction.                                       *)
Elems(q)    == {q[i] : i \in DOMAIN q}
Once(q)     == \A i, j \in DOMAIN q : q[i] = q[j] => i = j
JobsOf(w)   == Elems(jobs[w])
Hand(w)     == IF worker[w].at = "idle" THEN {} ELSE {worker[w].task}
Taken(w)    == IF compaction.at = w THEN Elems(compaction.queued) ELSE {}
At(w)       == JobsOf(w) \cup Hand(w) \cup Taken(w)

(* What a worker has not begun. *)
Unbegun(w)  == JobsOf(w) \cup Taken(w)
               \cup (IF worker[w].at = "received" THEN {worker[w].task} ELSE {})

Apart(w) == /\ Once(jobs[w])
            /\ JobsOf(w) \cap Hand(w) = {} /\ JobsOf(w) \cap Taken(w) = {}
            /\ Hand(w) \cap Taken(w) = {}

(* Every task is at one place, once. *)
Placed ==
  /\ \A w \in Worker : Apart(w) /\ At(w) \subseteq 1 .. Len(lane)
  /\ \A w, v \in Worker : w # v => At(w) \cap At(v) = {}
  /\ Once(compaction.queued) /\ (Unlocked => compaction.queued = <<>>)

(* The three parts of PendingExact. *)
Load(w) == Len(jobs[w]) + (IF compaction.at = w THEN Len(compaction.queued) ELSE 0)
           + (IF worker[w].at \in {"idle", "returned"} THEN 0 ELSE 1)
Loads == \A w \in Worker : pending[w] = Load(w)

InSession(s) == {t \in InSystem : SessionOf(t) = s}
SessionsCounted == \A s \in Session : sessionPending[s] = Cardinality(InSession(s))

Room == ~Unlocked => Len(jobs[compaction.at]) + Len(compaction.queued) <= QueueLimit

CountInv == TypeOK /\ Placed /\ Loads /\ SessionsCounted /\ Room

-----------------------------------------------------------------------------
LEMMA TailOnce ==
  ASSUME NEW S, NEW q \in Seq(S), q # <<>>, Once(q)
  PROVE  /\ Tail(q) \in Seq(S) /\ Once(Tail(q)) /\ Len(Tail(q)) + 1 = Len(q)
         /\ Head(q) \in Elems(q) /\ Elems(Tail(q)) = Elems(q) \ {Head(q)}
<1>1. /\ Len(q) \in Nat \ {0} /\ DOMAIN q = 1 .. Len(q)
      /\ Tail(q) \in Seq(S) /\ Len(Tail(q)) = Len(q) - 1 /\ Head(q) = q[1]
      /\ DOMAIN Tail(q) = 1 .. Len(q) - 1
      /\ \A i \in 1 .. Len(q) - 1 : Tail(q)[i] = q[i + 1]
  BY HeadTailProperties, LenProperties, EmptySeq
<1>2. Once(Tail(q))
  BY <1>1 DEF Once
<1>3. Elems(Tail(q)) = Elems(q) \ {Head(q)}
  <2>1. ASSUME NEW t \in Elems(Tail(q)) PROVE t \in Elems(q) \ {Head(q)}
    <3>1. PICK i \in 1 .. Len(q) - 1 : t = q[i + 1]
      BY <1>1, <2>1 DEF Elems
    <3> QED
      BY <1>1, <3>1 DEF Elems, Once
  <2>2. ASSUME NEW t \in Elems(q) \ {Head(q)} PROVE t \in Elems(Tail(q))
    <3>1. PICK i \in 1 .. Len(q) : t = q[i] /\ i # 1
      BY <1>1, <2>2 DEF Elems
    <3>2. i - 1 \in 1 .. Len(q) - 1 /\ Tail(q)[i - 1] = t
      BY <1>1, <3>1
    <3> QED
      BY <1>1, <3>2 DEF Elems
  <2> QED
    BY <2>1, <2>2
<1>4. Head(q) \in Elems(q)
  BY <1>1 DEF Elems
<1> QED
  BY <1>1, <1>2, <1>3, <1>4

LEMMA AppendOnce ==
  ASSUME NEW S, NEW q \in Seq(S), NEW t \in S, Once(q), t \notin Elems(q)
  PROVE  /\ Append(q, t) \in Seq(S) /\ Once(Append(q, t)) /\ Len(Append(q, t)) = Len(q) + 1
         /\ Elems(Append(q, t)) = Elems(q) \cup {t}
<1>1. /\ Len(q) \in Nat /\ DOMAIN q = 1 .. Len(q)
      /\ Append(q, t) \in Seq(S) /\ Len(Append(q, t)) = Len(q) + 1
      /\ DOMAIN Append(q, t) = 1 .. Len(q) + 1
      /\ \A i \in 1 .. Len(q) : Append(q, t)[i] = q[i]
      /\ Append(q, t)[Len(q) + 1] = t
  BY AppendProperties, LenProperties
<1>2. Once(Append(q, t))
  BY <1>1 DEF Once, Elems
<1>3. Elems(Append(q, t)) = Elems(q) \cup {t}
  <2>1. ASSUME NEW u \in Elems(q) \cup {t} PROVE u \in Elems(Append(q, t))
    <3>1. CASE u = t
      <4>1. Len(q) + 1 \in DOMAIN Append(q, t)
        BY <1>1
      <4> QED
        BY <1>1, <3>1, <4>1 DEF Elems
    <3>2. CASE u \in Elems(q)
      BY <1>1, <3>2 DEF Elems
    <3> QED
      BY <3>1, <3>2
  <2>2. ASSUME NEW u \in Elems(Append(q, t)) PROVE u \in Elems(q) \cup {t}
    <3>1. PICK i \in 1 .. Len(q) + 1 : u = Append(q, t)[i]
      BY <1>1, <2>2 DEF Elems
    <3> QED
      BY <1>1, <3>1 DEF Elems
  <2> QED
    BY <2>1, <2>2
<1> QED
  BY <1>1, <1>2, <1>3

LEMMA EmptyOnce == Once(<<>>) /\ Elems(<<>>) = {} /\ Len(<<>>) = 0
BY DEF Once, Elems

-----------------------------------------------------------------------------
LEMMA WorkersAre ==
  /\ Worker \subseteq Nat /\ 0 \in Worker /\ Workers \notin Worker /\ Workers \in Nat
  /\ 0 .. Workers = Worker \cup {Workers}
  /\ \A w \in Worker : w + 1 # Workers => w + 1 \in Worker
BY DeferredAssumption DEF Worker

(* A task is in the system when it is at some worker. *)
LEMMA SystemIs ==
  (compaction.at \in Worker \/ compaction.queued = <<>>) =>
    \A t : t \in InSystem <=> \E w \in Worker : t \in At(w)
<1> SUFFICES ASSUME compaction.at \in Worker \/ compaction.queued = <<>>, NEW t
             PROVE  t \in InSystem <=> \E w \in Worker : t \in At(w)
  OBVIOUS
<1>1. t \in Held <=> \E w \in Worker : t \in Hand(w)
  BY DEF Held, Hand
<1>2. t \in Queued <=> \E w \in Worker : t \in JobsOf(w)
  BY DEF Queued, JobsOf, Elems
<1>3. t \in TakenOut <=> \E w \in Worker : t \in Taken(w)
  <2>1. TakenOut = Elems(compaction.queued)
    BY DEF TakenOut, Elems
  <2> QED
    BY <2>1, EmptyOnce DEF Taken
<1> QED
  BY <1>1, <1>2, <1>3 DEF InSystem, At

LEMMA SystemIsNext ==
  ((compaction.at \in Worker \/ compaction.queued = <<>>) =>
    \A t : t \in InSystem <=> \E w \in Worker : t \in At(w))'
BY SystemIs, PTL

(* What the type says of the parts. *)
LEMMA TypeFacts ==
  ASSUME TypeOK
  PROVE  /\ \A w \in Worker : jobs[w] \in Seq(0 .. Len(lane)) /\ Len(jobs[w]) \in Nat
         /\ compaction.queued \in Seq(0 .. Len(lane)) /\ Len(compaction.queued) \in Nat
         /\ compaction.at \in Worker \cup {Workers}
         /\ Len(lane) \in Nat
         /\ \A t \in 1 .. Len(lane) : lane[t] \in Lane /\ SessionOf(t) \in Session
<1>1. \A t \in 1 .. Len(lane) : lane[t] \in Lane
  BY ElementOfSeq DEF TypeOK
<1> QED
  BY <1>1, LenProperties, WorkersAre DEF TypeOK, SessionOf, Lane

LEMMA PlacedFacts ==
  ASSUME TypeOK, Placed
  PROVE  /\ compaction.at \in Worker \/ compaction.queued = <<>>
         /\ \A t : t \in InSystem <=> \E w \in Worker : t \in At(w)
         /\ InSystem \subseteq 1 .. Len(lane)
         /\ \A s : IsFiniteSet(InSession(s)) /\ Cardinality(InSession(s)) \in Nat
<1>1. compaction.at \in Worker \/ compaction.queued = <<>>
  BY TypeFacts DEF Placed, Unlocked
<1>2. \A t : t \in InSystem <=> \E w \in Worker : t \in At(w)
  BY <1>1, SystemIs
<1>3. InSystem \subseteq 1 .. Len(lane)
  BY <1>2 DEF Placed
<1>4. ASSUME NEW s PROVE IsFiniteSet(InSession(s)) /\ Cardinality(InSession(s)) \in Nat
  <2>0. Len(lane) \in Nat
    BY TypeFacts
  <2>1. IsFiniteSet(1 .. Len(lane))
    BY <2>0, FS_Interval
  <2>2. InSession(s) \in SUBSET (1 .. Len(lane))
    BY <1>3 DEF InSession
  <2> QED
    BY <2>1, <2>2, FS_Subset, FS_CardinalityType
<1> QED
  BY <1>1, <1>2, <1>3, <1>4

(* A step that moves tasks at most from one place at their worker to       *)
(* another leaves the count of every session.                              *)
LEMMA SystemSame ==
  ASSUME TypeOK, Placed, UNCHANGED lane,
         compaction'.at \in Worker \/ compaction'.queued = <<>>,
         \A v \in Worker : At(v)' = At(v)
  PROVE  InSystem' = InSystem /\ \A s : InSession(s)' = InSession(s)
<1>1. \A t : t \in InSystem' <=> \E w \in Worker : t \in At(w)'
  BY SystemIsNext
<1>2. InSystem' = InSystem
  BY <1>1, PlacedFacts
<1> QED
  BY <1>2 DEF InSession, SessionOf

(* A step that removes one task. *)
LEMMA SystemLess ==
  ASSUME TypeOK, Placed, UNCHANGED lane, NEW v \in Worker, NEW u \in At(v),
         compaction'.at \in Worker \/ compaction'.queued = <<>>,
         \A w \in Worker : At(w)' = At(w) \ {u}
  PROVE  /\ InSystem' = InSystem \ {u} /\ u \in InSystem
         /\ InSession(SessionOf(u))' = InSession(SessionOf(u)) \ {u}
         /\ u \in InSession(SessionOf(u))
         /\ \A s : s # SessionOf(u) => InSession(s)' = InSession(s)
<1>1. \A t : t \in InSystem' <=> \E w \in Worker : t \in At(w)'
  BY SystemIsNext
<1>2. InSystem' = InSystem \ {u} /\ u \in InSystem
  BY <1>1, PlacedFacts
<1> QED
  BY <1>2 DEF InSession, SessionOf

(* Steps that leave the channels and the counters alone, and move no task  *)
(* into or out of a worker's hands.                                        *)
LEMMA QuietCounts ==
  ASSUME CountInv, TypeOK', UNCHANGED <<lane, queues>>,
         \A v \in Worker : /\ worker'[v].task = worker[v].task
                           /\ worker'[v].at = "idle" <=> worker[v].at = "idle"
                           /\ worker'[v].at = "returned" <=> worker[v].at = "returned",
         UNCHANGED compaction \/ (Unlocked /\ compaction'.at \in Worker /\ compaction'.queued = <<>>)
  PROVE  /\ CountInv'
         /\ \A v \in Worker : At(v)' = At(v)
         /\ (\A v \in Worker : worker'[v].at = "received" => worker[v].at = "received")
              => \A v \in Worker : Unbegun(v)' \subseteq Unbegun(v)
<1>1. UNCHANGED jobs /\ UNCHANGED pending /\ UNCHANGED sessionPending
  BY DEF queues
<1>2. compaction'.queued = compaction.queued /\ (compaction'.at = compaction.at \/ compaction.queued = <<>>)
  BY DEF CountInv, Placed
<1>3. \A v \in Worker : JobsOf(v)' = JobsOf(v) /\ Hand(v)' = Hand(v) /\ Taken(v)' = Taken(v)
  BY <1>1, <1>2, EmptyOnce DEF JobsOf, Hand, Taken
<1>4. Placed'
  <2>1. \A v \in Worker : At(v)' = At(v) /\ Apart(v)'
    BY <1>1, <1>3 DEF At, Apart, CountInv, Placed
  <2>2. Once(compaction.queued)' /\ (Unlocked => compaction.queued = <<>>)'
    BY <1>2, WorkersAre DEF CountInv, Placed, Unlocked
  <2> QED
    BY <2>1, <2>2 DEF CountInv, Placed
<1>5. Loads'
  <2>1. ASSUME NEW v \in Worker PROVE pending'[v] = Load(v)'
    <3>1. pending[v] = Load(v)
      BY DEF CountInv, Loads
    <3>2. (worker[v].at \in {"idle", "returned"})' <=> worker[v].at \in {"idle", "returned"}
      OBVIOUS
    <3>3. (IF compaction.at = v THEN Len(compaction.queued) ELSE 0)'
          = IF compaction.at = v THEN Len(compaction.queued) ELSE 0
      BY <1>2, EmptyOnce
    <3> QED
      BY <1>1, <3>1, <3>2, <3>3 DEF Load
  <2> QED
    BY <2>1 DEF Loads
<1>6. SessionsCounted'
  <2>1. \A v \in Worker : At(v)' = At(v)
    BY <1>3 DEF At
  <2>2. compaction'.at \in Worker \/ compaction'.queued = <<>>
    BY PlacedFacts DEF CountInv
  <2>3. \A s : InSession(s)' = InSession(s)
    BY <2>1, <2>2, SystemSame DEF CountInv
  <2> QED
    BY <1>1, <2>3 DEF CountInv, SessionsCounted
<1>7. Room'
  <2>1. CASE UNCHANGED compaction
    BY <1>1, <2>1 DEF CountInv, Room, Unlocked
  <2>2. CASE Unlocked /\ compaction'.at \in Worker /\ compaction'.queued = <<>>
    <3>1. Len(jobs[compaction'.at]) <= QueueLimit /\ Len(jobs[compaction'.at]) \in Nat
      BY <2>2, TypeFacts DEF CountInv, TypeOK
    <3> QED
      BY <1>1, <2>2, <3>1, EmptyOnce DEF Room
  <2> QED
    BY <2>1, <2>2
<1> QED
  BY <1>3, <1>4, <1>5, <1>6, <1>7 DEF CountInv, At, Unbegun

-----------------------------------------------------------------------------
(* A set of numbers has a least one. *)
LEMMA LeastOf ==
  ASSUME NEW D, D \subseteq Nat, D # {}
  PROVE  \E d \in D : \A e \in D : d <= e
<1> DEFINE R == StrictSubsetOrdering(Nat)
           T == {0 .. d - 1 : d \in D}
<1>1. \A d \in Nat : 0 .. d - 1 \in FiniteSubsetsOf(Nat)
  BY FS_Interval DEF FiniteSubsetsOf
<1>2. T \subseteq FiniteSubsetsOf(Nat) /\ T # {}
  BY <1>1
<1>3. \E x \in T : \A y \in T : ~ (<<y, x>> \in R)
  <2> HIDE DEF R, T
  <2>1. IsWellFoundedOn(R, FiniteSubsetsOf(Nat))
    BY FS_StrictSubsetOrderingWellFounded DEF R
  <2> QED
    BY <1>2, <2>1, WFMin
<1>4. PICK d \in D : \A e \in D : ~ (<<0 .. e - 1, 0 .. d - 1>> \in R)
  BY <1>3
<1>5. ASSUME NEW e \in D, e < d PROVE FALSE
  <2>1. 0 .. e - 1 \subseteq 0 .. d - 1 /\ e \in 0 .. d - 1 /\ e \notin 0 .. e - 1
    BY <1>5
  <2>2. 0 .. e - 1 \in SUBSET Nat /\ 0 .. d - 1 \in SUBSET Nat
    BY <1>5
  <2>3. <<0 .. e - 1, 0 .. d - 1>> \in R
    BY <2>1, <2>2 DEF StrictSubsetOrdering
  <2> QED
    BY <1>4, <2>3
<1> QED
  BY <1>5

(* There is a least loaded worker: of the least loaded ones, the first. *)
LEMMA LeastLoadedType == ASSUME TypeOK PROVE LeastLoaded \in Worker
<1> DEFINE distance(w) == (w + Workers - nextWorker) % Workers
           Better(w, v) == \/ pending[w] < pending[v]
                           \/ pending[w] = pending[v] /\ distance(w) <= distance(v)
<1>1. \A w \in Worker : pending[w] \in Nat /\ distance(w) \in Nat
  <2>1. /\ Workers \in Nat \ {0} /\ nextWorker \in 0 .. Workers - 1
        /\ \A w \in Worker : w \in 0 .. Workers - 1
    BY DeferredAssumption DEF TypeOK, Worker
  <2>2. \A x \in Int : x % Workers \in Nat
    BY <2>1
  <2> QED
    BY <2>1, <2>2 DEF TypeOK
<1> HIDE DEF distance
<1>2. PICK least \in {pending[w] : w \in Worker} : \A e \in {pending[w] : w \in Worker} : least <= e
  <2>1. {pending[w] : w \in Worker} \subseteq Nat /\ {pending[w] : w \in Worker} # {}
    BY <1>1, WorkersAre
  <2> DEFINE D == {pending[w] : w \in Worker}
  <2> HIDE DEF D
  <2>2. \E d \in D : \A e \in D : d <= e
    BY <2>1, LeastOf DEF D
  <2> QED
    BY <2>2 DEF D
<1> DEFINE Close == {distance(w) : w \in {v \in Worker : pending[v] = least}}
<1>3. PICK near \in Close : \A e \in Close : near <= e
  <2>1. Close \subseteq Nat /\ Close # {}
    BY <1>1, <1>2
  <2> HIDE DEF Close
  <2> QED
    BY <2>1, LeastOf
<1>4. PICK w \in Worker : pending[w] = least /\ distance(w) = near
  BY <1>3
<1>5. \A v \in Worker : Better(w, v)
  <2> SUFFICES ASSUME NEW v \in Worker PROVE Better(w, v)
    OBVIOUS
  <2>1. pending[w] <= pending[v] /\ pending[w] \in Nat /\ pending[v] \in Nat
    BY <1>1, <1>2, <1>4
  <2>2. CASE pending[w] = pending[v]
    <3>1. distance(v) \in Close
      BY <1>4, <2>2
    <3> QED
      BY <1>3, <1>4, <2>2, <3>1
  <2>3. CASE pending[w] # pending[v]
    BY <2>1, <2>3
  <2> QED
    BY <2>2, <2>3
<1>6. LeastLoaded = CHOOSE x \in Worker : \A v \in Worker : Better(x, v)
  BY DEF LeastLoaded, distance
<1> HIDE DEF Better
<1> QED
  BY <1>5, <1>6

Doing == {"idle", "received", "run", "skip", "finalized", "returned"}

(* A worker goes on with the task it has. *)
LEMMA WorkerGoes ==
  ASSUME TypeOK, NEW w \in Worker, NEW step \in Doing,
         worker' = [worker EXCEPT ![w].at = step]
  PROVE  /\ worker' \in [Worker -> [at : Doing, task : 0 .. Len(lane)]]
         /\ worker'[w].at = step
         /\ \A v \in Worker : /\ worker'[v].task = worker[v].task
                              /\ v # w => worker'[v] = worker[v]
<1>1. worker \in [Worker -> [at : Doing, task : 0 .. Len(lane)]]
  BY DEF TypeOK, Doing
<1> QED
  BY <1>1

(* Remove and FinalizeLane begin a compaction. *)
LEMMA RemoveCounts ==
  ASSUME CountInv, NEW lanes \in SUBSET Lane, NEW marked \in SUBSET Lane, Remove(lanes, marked)
  PROVE  /\ CountInv'
         /\ \A v \in Worker : At(v)' = At(v) /\ Unbegun(v)' \subseteq Unbegun(v)
<1>1. /\ Unlocked /\ removals < MaxRemovals /\ removals' = removals + 1
      /\ done' = done \cup ({running[l] : l \in lanes} \ {0})
      /\ running' = [l \in Lane |-> IF l \in lanes THEN 0 ELSE running[l]]
      /\ cancelled' = cancelled \cup marked
      /\ laneWorker' = [l \in Lane |-> IF l \in lanes THEN Workers ELSE laneWorker[l]]
      /\ revoked' = revoked \cup {t \in InSystem : lane[t] \in lanes}
      /\ compaction' = [drop |-> lanes, at |-> 0, queued |-> <<>>]
      /\ UNCHANGED <<lane, queues, worker>> /\ UNCHANGED nextWorker
  BY DEF Remove, Compact
<1>2. TypeOK'
  <2>1. running' \in [Lane -> 0 .. Len(lane)] /\ done' \subseteq 0 .. Len(lane)
    <3>1. running \in [Lane -> 0 .. Len(lane)] /\ 0 \in 0 .. Len(lane)
      BY TypeFacts DEF CountInv, TypeOK
    <3> QED
      BY <1>1, <3>1 DEF CountInv, TypeOK
  <2>2. laneWorker' \in [Lane -> 0 .. Workers] /\ cancelled' \subseteq Lane
    BY <1>1, WorkersAre DEF CountInv, TypeOK
  <2>3. revoked' \subseteq 0 .. Len(lane)
    <3>1. \A t \in InSystem : t \in 0 .. Len(lane)
      BY PlacedFacts DEF CountInv
    <3> QED
      BY <1>1, <3>1 DEF CountInv, TypeOK
  <2>4. removals' \in 0 .. MaxRemovals
    BY <1>1, DeferredAssumption DEF CountInv, TypeOK
  <2>5. compaction' \in [drop : SUBSET Lane, at : 0 .. Workers, queued : Seq(0 .. Len(lane))]
    BY <1>1, WorkersAre
  <2> QED
    BY <1>1, <2>1, <2>2, <2>3, <2>4, <2>5 DEF CountInv, TypeOK, queues
<1> QED
  BY <1>1, <1>2, QuietCounts, WorkersAre DEF CountInv

LEMMA FinalizeCounts ==
  ASSUME CountInv, NEW w \in Worker, FinalizeLane(w)
  PROVE  /\ CountInv'
         /\ \A v \in Worker : At(v)' = At(v) /\ Unbegun(v)' \subseteq Unbegun(v)
<1> DEFINE l == lane[worker[w].task]
<1>1. /\ Unlocked /\ worker[w].at = "run"
      /\ worker' = [worker EXCEPT ![w].at = "finalized"]
      /\ laneWorker' = [laneWorker EXCEPT ![l] = Workers]
      /\ cancelled' = cancelled \cup {l}
      /\ compaction' = [drop |-> {l}, at |-> 0, queued |-> <<>>]
      /\ UNCHANGED <<lane, queues>> /\ UNCHANGED <<running, done, limits, revoked>>
  BY DEF FinalizeLane, Compact
<1>2. l \in Lane
  BY <1>1, TypeFacts DEF CountInv, Placed, At, Hand
<1> HIDE DEF l
<1>3. TypeOK'
  <2>1. worker' \in [Worker -> [at : Doing, task : 0 .. Len(lane)]]
    BY <1>1, WorkerGoes DEF CountInv, Doing
  <2>2. laneWorker' \in [Lane -> 0 .. Workers] /\ cancelled' \subseteq Lane
    BY <1>1, <1>2, WorkersAre DEF CountInv, TypeOK
  <2>3. compaction' \in [drop : SUBSET Lane, at : 0 .. Workers, queued : Seq(0 .. Len(lane))]
    BY <1>1, <1>2, WorkersAre
  <2> QED
    BY <1>1, <2>1, <2>2, <2>3 DEF CountInv, TypeOK, queues, limits, Doing
<1>4. \A v \in Worker : /\ worker'[v].task = worker[v].task
                        /\ worker'[v].at = "idle" <=> worker[v].at = "idle"
                        /\ worker'[v].at = "returned" <=> worker[v].at = "returned"
  BY <1>1, WorkerGoes DEF CountInv, Doing
<1> QED
  BY <1>1, <1>3, <1>4, QuietCounts, WorkersAre

LEMMA BeginCounts ==
  ASSUME CountInv, NEW w \in Worker, BeginTask(w)
  PROVE  /\ CountInv'
         /\ \A v \in Worker : At(v)' = At(v) /\ Unbegun(v)' \subseteq Unbegun(v)
<1> DEFINE t == worker[w].task
<1>1. /\ worker[w].at = "received"
      /\ \/ /\ worker' = [worker EXCEPT ![w].at = "skip"]
            /\ done' = done \cup {t} /\ UNCHANGED running
         \/ /\ worker' = [worker EXCEPT ![w].at = "run"]
            /\ running' = [running EXCEPT ![lane[t]] = t] /\ UNCHANGED done
      /\ UNCHANGED <<lane, queues>> /\ UNCHANGED <<laneWorker, cancelled, compaction, limits, revoked>>
  BY DEF BeginTask
<1>2. t \in 1 .. Len(lane)
  BY <1>1 DEF CountInv, Placed, At, Hand
<1>3. TypeOK'
  <2>1. worker' \in [Worker -> [at : Doing, task : 0 .. Len(lane)]]
    BY <1>1, WorkerGoes DEF CountInv, Doing
  <2>2. running' \in [Lane -> 0 .. Len(lane)] /\ done' \subseteq 0 .. Len(lane)
    BY <1>1, <1>2 DEF CountInv, TypeOK
  <2> QED
    BY <1>1, <2>1, <2>2 DEF CountInv, TypeOK, queues, limits, Doing
<1>4. \A v \in Worker : /\ worker'[v].task = worker[v].task
                        /\ worker'[v].at = "idle" <=> worker[v].at = "idle"
                        /\ worker'[v].at = "returned" <=> worker[v].at = "returned"
                        /\ worker'[v].at = "received" => worker[v].at = "received"
  BY <1>1, WorkerGoes DEF CountInv, Doing
<1> QED
  BY <1>1, <1>3, <1>4, QuietCounts

(* A worker takes the first task of its channel into its hands. *)
LEMMA ReceiveCounts ==
  ASSUME CountInv, NEW w \in Worker, Receive(w)
  PROVE  /\ CountInv'
         /\ \A v \in Worker : At(v)' = At(v) /\ Unbegun(v)' \subseteq Unbegun(v)
<1> DEFINE t == Head(jobs[w])
           taking == [at |-> "received", task |-> t]
<1>1. /\ worker[w].at = "idle" /\ jobs[w] # <<>>
      /\ worker' = [worker EXCEPT ![w] = taking]
      /\ jobs' = [jobs EXCEPT ![w] = Tail(jobs[w])]
      /\ UNCHANGED lane /\ UNCHANGED pending /\ UNCHANGED sessionPending /\ UNCHANGED compaction
      /\ UNCHANGED <<laneWorker, cancelled, running, done, limits, revoked>>
  BY DEF Receive
<1>2. /\ Tail(jobs[w]) \in Seq(0 .. Len(lane)) /\ Once(Tail(jobs[w]))
      /\ Len(Tail(jobs[w])) + 1 = Len(jobs[w])
      /\ t \in JobsOf(w) /\ Elems(Tail(jobs[w])) = JobsOf(w) \ {t}
      /\ Len(Tail(jobs[w])) \in Nat /\ t \in 1 .. Len(lane)
  <2>1. jobs[w] \in Seq(0 .. Len(lane)) /\ Once(jobs[w]) /\ JobsOf(w) \subseteq 1 .. Len(lane)
    BY TypeFacts DEF CountInv, Placed, Apart, At
  <2> QED
    BY <1>1, <2>1, TailOnce, LenProperties DEF JobsOf
<1>3. TypeOK'
  <2>1. jobs' \in [Worker -> Seq(0 .. Len(lane))] /\ \A v \in Worker : Len(jobs'[v]) <= QueueLimit
    <3> DEFINE rest == Tail(jobs[w])
    <3>1. /\ rest \in Seq(0 .. Len(lane)) /\ jobs' = [jobs EXCEPT ![w] = rest]
          /\ Len(rest) <= QueueLimit
      BY <1>1, <1>2, DeferredAssumption DEF CountInv, TypeOK
    <3> HIDE DEF rest
    <3> QED
      BY <3>1 DEF CountInv, TypeOK
  <2>2. worker' \in [Worker -> [at : Doing, task : 0 .. Len(lane)]]
    <3>1. taking \in [at : Doing, task : 0 .. Len(lane)]
      BY <1>2 DEF Doing
    <3> QED
      BY <1>1, <3>1 DEF CountInv, TypeOK, Doing
  <2> QED
    BY <1>1, <2>1, <2>2 DEF CountInv, TypeOK, limits, Doing
<1>4. /\ worker'[w].at = "received" /\ worker'[w].task = t
      /\ jobs'[w] = Tail(jobs[w])
      /\ \A v \in Worker : v # w => worker'[v] = worker[v] /\ jobs'[v] = jobs[v]
  BY <1>1 DEF CountInv, TypeOK
<1>5. /\ JobsOf(w)' = JobsOf(w) \ {t} /\ Hand(w) = {} /\ Hand(w)' = {t}
      /\ \A v \in Worker : /\ v # w => JobsOf(v)' = JobsOf(v) /\ Hand(v)' = Hand(v)
                           /\ Taken(v)' = Taken(v)
  BY <1>1, <1>2, <1>4 DEF JobsOf, Hand, Taken
<1>6. \A v \in Worker : At(v)' = At(v) /\ Apart(v)'
  <2>1. \A v \in Worker : Apart(v)
    BY DEF CountInv, Placed
  <2>2. At(w)' = At(w) /\ Apart(w)'
    BY <1>2, <1>4, <1>5, <2>1 DEF At, Apart
  <2>3. \A v \in Worker : v # w => At(v)' = At(v) /\ Apart(v)'
    BY <1>4, <1>5, <2>1 DEF At, Apart
  <2> QED
    BY <2>2, <2>3
<1>7. Placed'
  BY <1>1, <1>6 DEF CountInv, Placed, Unlocked
<1>8. Loads'
  <2>1. Load(w)' = Load(w)
    <3> DEFINE n == Len(jobs[w])
               c == IF compaction.at = w THEN Len(compaction.queued) ELSE 0
    <3>1. n \in Nat /\ c \in Nat
      BY TypeFacts DEF CountInv
    <3>2. Len(jobs'[w]) = n - 1
      <4> DEFINE rest == Tail(jobs[w])
      <4>1. jobs'[w] = rest /\ Len(rest) + 1 = n /\ Len(rest) \in Nat
        BY <1>2, <1>4
      <4> HIDE DEF n, rest
      <4> QED
        BY <4>1, <3>1
    <3>3. Load(w) = n + c + 0 /\ Load(w)' = Len(jobs'[w]) + c + 1
      BY <1>1, <1>4 DEF Load
    <3> HIDE DEF n, c
    <3> QED
      BY <3>1, <3>2, <3>3
  <2>2. \A v \in Worker : v # w => Load(v)' = Load(v)
    BY <1>1, <1>4 DEF Load
  <2> QED
    BY <1>1, <2>1, <2>2 DEF CountInv, Loads
<1>9. SessionsCounted'
  BY <1>1, <1>6, SystemSame, PlacedFacts DEF CountInv, SessionsCounted
<1>10. Room'
  <2> SUFFICES ASSUME ~Unlocked PROVE Len(jobs'[compaction.at]) + Len(compaction.queued) <= QueueLimit
    BY <1>1 DEF Room, Unlocked
  <2>1. compaction.at \in Worker /\ Len(compaction.queued) \in Nat /\ Len(jobs[compaction.at]) \in Nat
    BY TypeFacts DEF CountInv, Unlocked
  <2>2. Len(jobs[compaction.at]) + Len(compaction.queued) <= QueueLimit
    BY DEF CountInv, Room
  <2>3. Len(jobs'[compaction.at]) <= Len(jobs[compaction.at]) /\ Len(jobs'[compaction.at]) \in Nat
    <3>1. CASE compaction.at = w
      <4> DEFINE rest == Tail(jobs[w])
                 n == Len(jobs[w])
      <4>1. /\ jobs'[compaction.at] = rest /\ Len(rest) + 1 = n /\ Len(rest) \in Nat
            /\ n = Len(jobs[compaction.at]) /\ n \in Nat
        BY <1>2, <1>4, <2>1, <3>1
      <4> HIDE DEF rest, n
      <4> QED
        BY <4>1
    <3>2. CASE compaction.at # w
      BY <1>4, <2>1, <3>2
    <3> QED
      BY <3>1, <3>2
  <2> DEFINE x == Len(jobs'[compaction.at])
             y == Len(jobs[compaction.at])
             c == Len(compaction.queued)
  <2>4. /\ x \in Nat /\ y \in Nat /\ c \in Nat /\ QueueLimit \in Nat
        /\ x <= y /\ y + c <= QueueLimit
    BY <2>1, <2>2, <2>3, DeferredAssumption
  <2> HIDE DEF x, y, c
  <2>5. x + c <= QueueLimit
    BY <2>4
  <2> QED
    BY <2>5 DEF x, c
<1>11. \A v \in Worker : Unbegun(v)' \subseteq Unbegun(v)
  BY <1>2, <1>4, <1>5 DEF Unbegun
<1> QED
  BY <1>3, <1>6, <1>7, <1>8, <1>9, <1>10, <1>11 DEF CountInv

(* The worker's counter goes down when the task has returned. *)
LEMMA ReturnCounts ==
  ASSUME CountInv, NEW w \in Worker, Return(w)
  PROVE  /\ CountInv'
         /\ \A v \in Worker : At(v)' = At(v) /\ Unbegun(v)' \subseteq Unbegun(v)
<1>1. /\ worker[w].at \in {"run", "skip", "finalized"}
      /\ worker' = [worker EXCEPT ![w].at = "returned"]
      /\ pending' = [pending EXCEPT ![w] = pending[w] - 1]
      /\ UNCHANGED lane /\ UNCHANGED jobs /\ UNCHANGED sessionPending /\ UNCHANGED compaction
      /\ UNCHANGED <<laneWorker, cancelled, running, done, limits, revoked>>
  BY DEF Return
<1>2. /\ worker' \in [Worker -> [at : Doing, task : 0 .. Len(lane)]]
      /\ worker'[w].at = "returned"
      /\ \A v \in Worker : worker'[v].task = worker[v].task /\ (v # w => worker'[v] = worker[v])
  BY <1>1, WorkerGoes DEF CountInv, Doing
<1>3. Load(w) - 1 \in Nat /\ Load(w)' = Load(w) - 1
  <2> DEFINE n == Len(jobs[w])
             c == IF compaction.at = w THEN Len(compaction.queued) ELSE 0
  <2>1. n \in Nat /\ c \in Nat
    BY TypeFacts DEF CountInv
  <2>2. Load(w) = n + c + 1 /\ Load(w)' = n + c + 0
    BY <1>1, <1>2 DEF Load
  <2> HIDE DEF n, c
  <2> QED
    BY <2>1, <2>2
<1>4. Loads' /\ pending' \in [Worker -> Nat]
  <2>1. \A v \in Worker : pending[v] = Load(v) /\ (v # w => Load(v)' = Load(v))
    BY <1>1, <1>2 DEF CountInv, Loads, Load
  <2> QED
    BY <1>1, <1>3, <2>1 DEF Loads, CountInv, TypeOK
<1>5. TypeOK'
  BY <1>1, <1>2, <1>4 DEF CountInv, TypeOK, limits, Doing
<1>6. \A v \in Worker : JobsOf(v)' = JobsOf(v) /\ Hand(v)' = Hand(v) /\ Taken(v)' = Taken(v)
  BY <1>1, <1>2 DEF JobsOf, Hand, Taken
<1>7. \A v \in Worker : At(v)' = At(v) /\ (Apart(v) => Apart(v)')
  BY <1>1, <1>6 DEF At, Apart
<1>8. Placed'
  BY <1>1, <1>7 DEF CountInv, Placed, Unlocked
<1>9. SessionsCounted'
  BY <1>1, <1>7, SystemSame, PlacedFacts DEF CountInv, SessionsCounted
<1>10. Room'
  BY <1>1 DEF CountInv, Room, Unlocked
<1>11. \A v \in Worker : Unbegun(v)' \subseteq Unbegun(v)
  BY <1>2, <1>6 DEF Unbegun
<1> QED
  BY <1>4, <1>5, <1>7, <1>8, <1>9, <1>10, <1>11 DEF CountInv

(* One task of a session fewer, and its counter one less. *)
LEMMA SessionLess ==
  ASSUME CountInv, UNCHANGED lane, NEW v \in Worker, NEW u \in At(v),
         compaction'.at \in Worker \/ compaction'.queued = <<>>,
         \A w \in Worker : At(w)' = At(w) \ {u},
         sessionPending' = [sessionPending EXCEPT ![SessionOf(u)] = @ - 1]
  PROVE  SessionsCounted' /\ sessionPending' \in [Session -> 0 .. SessionCap]
<1> DEFINE x == SessionOf(u)
<1>1. /\ InSession(x)' = InSession(x) \ {u} /\ u \in InSession(x)
      /\ \A s : s # x => InSession(s)' = InSession(s)
  BY SystemLess DEF CountInv
<1>2. IsFiniteSet(InSession(x)) /\ Cardinality(InSession(x)) \in Nat /\ IsFiniteSet(InSession(x)')
      /\ Cardinality(InSession(x)') = Cardinality(InSession(x)) - 1 /\ Cardinality(InSession(x)') \in Nat
  BY <1>1, PlacedFacts, FS_RemoveElement, FS_CardinalityType DEF CountInv
<1>3. x \in Session
  BY TypeFacts DEF CountInv, Placed
<1>4. /\ sessionPending[x] = Cardinality(InSession(x))
      /\ \A s \in Session : sessionPending[s] = Cardinality(InSession(s))
  BY <1>3 DEF CountInv, SessionsCounted
<1> HIDE DEF x
<1>5. /\ sessionPending' = [sessionPending EXCEPT ![x] = sessionPending[x] - 1]
      /\ sessionPending \in [Session -> 0 .. SessionCap]
  BY DEF x, CountInv, TypeOK
<1>6. sessionPending[x] - 1 \in 0 .. SessionCap
  BY <1>2, <1>3, <1>4, <1>5, DeferredAssumption
<1>7. SessionsCounted'
  <2> SUFFICES ASSUME NEW s \in Session PROVE sessionPending'[s] = Cardinality(InSession(s)')
    BY DEF SessionsCounted
  <2>1. CASE s = x
    <3>1. x' = x
      BY DEF x, SessionOf
    <3> QED
      BY <1>2, <1>3, <1>4, <1>5, <2>1, <3>1
  <2>2. CASE s # x
    BY <1>1, <1>4, <1>5, <2>2
  <2> QED
    BY <2>1, <2>2
<1> QED
  BY <1>3, <1>5, <1>6, <1>7

(* finishLane gives the task up. *)
LEMMA FinishCounts ==
  ASSUME CountInv, NEW w \in Worker, FinishLane(w)
  PROVE  /\ CountInv'
         /\ \A v \in Worker : /\ At(v)' = At(v) \ {worker[w].task}
                              /\ Unbegun(v)' \subseteq Unbegun(v)
         /\ worker'[w].at = "idle" /\ \A v \in Worker : v # w => worker'[v] = worker[v]
<1> DEFINE t == worker[w].task
           l == lane[t]
<1>1. /\ worker[w].at = "returned"
      /\ worker' = [worker EXCEPT ![w].at = "idle", ![w].task = 0]
      /\ laneWorker' = [laneWorker EXCEPT ![l] = IF laneWorker[l] = w THEN Workers ELSE laneWorker[l]]
      /\ done' = done \cup ({running[l]} \ {0})
      /\ running' = [running EXCEPT ![l] = 0]
      /\ cancelled' = cancelled \ {l}
      /\ sessionPending' = [sessionPending EXCEPT ![l[1]] = sessionPending[l[1]] - 1]
      /\ UNCHANGED lane /\ UNCHANGED jobs /\ UNCHANGED pending /\ UNCHANGED compaction
      /\ UNCHANGED limits /\ UNCHANGED revoked
  BY DEF FinishLane
<1>2. t \in At(w) /\ t \in 1 .. Len(lane) /\ l \in Lane /\ 0 \in 0 .. Len(lane)
  <2>1. t \in At(w)
    BY <1>1 DEF At, Hand
  <2> QED
    BY <2>1, TypeFacts DEF CountInv, Placed
<1>3. /\ worker' \in [Worker -> [at : Doing, task : 0 .. Len(lane)]]
      /\ worker'[w].at = "idle" /\ \A v \in Worker : v # w => worker'[v] = worker[v]
  <2>1. worker \in [Worker -> [at : Doing, task : 0 .. Len(lane)]]
    BY DEF CountInv, TypeOK, Doing
  <2> DEFINE given == [worker[w] EXCEPT !.at = "idle", !.task = 0]
  <2>2. given \in [at : Doing, task : 0 .. Len(lane)] /\ given.at = "idle"
    BY <1>2, <2>1 DEF Doing
  <2>3. worker' = [worker EXCEPT ![w] = given]
    BY <1>1
  <2> HIDE DEF given
  <2> QED
    BY <2>1, <2>2, <2>3
<1>4. /\ Hand(w) = {t} /\ Hand(w)' = {}
      /\ \A v \in Worker : /\ JobsOf(v)' = JobsOf(v) /\ Taken(v)' = Taken(v)
                           /\ v # w => Hand(v)' = Hand(v)
  BY <1>1, <1>3 DEF JobsOf, Hand, Taken
<1>5. \A v \in Worker : At(v)' = At(v) \ {t} /\ Apart(v)'
  <2>1. /\ \A v \in Worker : Apart(v)
        /\ \A v \in Worker : v # w => t \notin At(v)
    BY <1>2 DEF CountInv, Placed
  <2>2. At(w)' = At(w) \ {t} /\ Apart(w)'
    BY <1>1, <1>4, <2>1 DEF At, Apart
  <2>3. \A v \in Worker : v # w => At(v)' = At(v) \ {t} /\ Apart(v)'
    BY <1>1, <1>4, <2>1 DEF At, Apart
  <2> QED
    BY <2>2, <2>3
<1>6. SessionsCounted' /\ sessionPending' \in [Session -> 0 .. SessionCap]
  BY <1>1, <1>2, <1>5, SessionLess, PlacedFacts DEF CountInv, SessionOf
<1>7. TypeOK'
  <2>1. laneWorker' \in [Lane -> 0 .. Workers] /\ cancelled' \subseteq Lane
    BY <1>1, <1>2, WorkersAre DEF CountInv, TypeOK
  <2>2. running' \in [Lane -> 0 .. Len(lane)] /\ done' \subseteq 0 .. Len(lane)
    BY <1>1, <1>2 DEF CountInv, TypeOK
  <2> QED
    BY <1>1, <1>3, <1>6, <2>1, <2>2 DEF CountInv, TypeOK, limits, Doing
<1>8. Placed'
  BY <1>1, <1>5 DEF CountInv, Placed, Unlocked
<1>9. Loads'
  <2>1. \A v \in Worker : Load(v)' = Load(v)
    BY <1>1, <1>3 DEF Load
  <2> QED
    BY <1>1, <2>1 DEF CountInv, Loads
<1>10. Room'
  BY <1>1 DEF CountInv, Room, Unlocked
<1>11. \A v \in Worker : Unbegun(v)' \subseteq Unbegun(v)
  BY <1>3, <1>4 DEF Unbegun
<1> QED
  BY <1>3, <1>5, <1>6, <1>7, <1>8, <1>9, <1>10, <1>11 DEF CountInv

-----------------------------------------------------------------------------
(* The compaction takes a task out of the channel: it drops or keeps it. *)
LEMMA TakeCounts ==
  ASSUME CountInv, CompactTake
  PROVE  /\ CountInv'
         /\ \A v \in Worker : Unbegun(v)' \subseteq Unbegun(v)
         /\ \/ UNCHANGED laneWorker /\ \A v \in Worker : At(v)' = At(v)
            \/ \E t \in 1 .. Len(lane) :
                 /\ laneWorker' = [laneWorker EXCEPT ![lane[t]] = Workers]
                 /\ \A v \in Worker : At(v)' = At(v) \ {t}
<1>0. PICK w \in Worker : compaction.at = w
  BY TypeFacts DEF CompactTake, CountInv, Unlocked
<1> DEFINE t == Head(jobs[w])
           rest == Tail(jobs[w])
           c == Len(compaction.queued)
<1>1. /\ ~Unlocked /\ jobs[w] # <<>> /\ jobs' = [jobs EXCEPT ![w] = rest]
      /\ UNCHANGED lane /\ UNCHANGED worker
      /\ UNCHANGED <<cancelled, running, done, limits, revoked>>
  BY <1>0 DEF CompactTake
<1>2. w \in Worker /\ c \in Nat /\ compaction.queued \in Seq(0 .. Len(lane))
  BY TypeFacts DEF CountInv
<1>3. /\ rest \in Seq(0 .. Len(lane)) /\ Once(rest) /\ Len(rest) + 1 = Len(jobs[w])
      /\ t \in JobsOf(w) /\ Elems(rest) = JobsOf(w) \ {t}
      /\ Len(rest) \in Nat /\ t \in 1 .. Len(lane) /\ t \in At(w)
  <2>1. jobs[w] \in Seq(0 .. Len(lane)) /\ Once(jobs[w]) /\ JobsOf(w) \subseteq 1 .. Len(lane)
    BY <1>2, TypeFacts DEF CountInv, Placed, Apart, At
  <2> QED
    BY <1>1, <2>1, TailOnce, LenProperties DEF JobsOf, At
<1>4. Len(rest) + 1 + c <= QueueLimit
  BY <1>0, <1>1, <1>3 DEF CountInv, Room
<1>5. jobs' \in [Worker -> Seq(0 .. Len(lane))] /\ \A v \in Worker : Len(jobs'[v]) <= QueueLimit
  <2>1. rest \in Seq(0 .. Len(lane)) /\ Len(rest) <= QueueLimit
    <3> DEFINE n == Len(rest)
    <3>1. n \in Nat /\ n + 1 + c <= QueueLimit
      BY <1>3, <1>4
    <3> HIDE DEF n, c
    <3>2. n <= QueueLimit
      BY <1>2, <3>1, DeferredAssumption
    <3> QED
      BY <1>3, <3>2 DEF n
  <2> HIDE DEF rest
  <2> QED
    BY <1>1, <2>1 DEF CountInv, TypeOK
<1>6. jobs'[w] = rest /\ \A v \in Worker : v # w => jobs'[v] = jobs[v]
  BY <1>1, <1>2 DEF CountInv, TypeOK
<1>7. /\ JobsOf(w)' = JobsOf(w) \ {t} /\ t \notin Hand(w) /\ t \notin Taken(w)
      /\ \A v \in Worker : /\ v # w => JobsOf(v)' = JobsOf(v) /\ t \notin At(v) /\ Taken(v) = {}
                           /\ Hand(v)' = Hand(v) /\ Apart(v)
  <2>1. /\ \A v \in Worker : Apart(v)
        /\ \A v \in Worker : v # w => At(w) \cap At(v) = {}
    BY DEF CountInv, Placed
  <2>2. /\ JobsOf(w)' = JobsOf(w) \ {t}
        /\ \A v \in Worker : (v # w => JobsOf(v)' = JobsOf(v)) /\ Hand(v)' = Hand(v)
    BY <1>1, <1>3, <1>6 DEF JobsOf, Hand
  <2>3. t \notin Hand(w) /\ t \notin Taken(w)
    BY <1>3, <2>1 DEF Apart
  <2>4. \A v \in Worker : v # w => t \notin At(v) /\ Taken(v) = {}
    BY <1>0, <1>3, <2>1 DEF Taken
  <2> QED
    BY <2>1, <2>2, <2>3, <2>4
<1>8. CASE lane[t] \in compaction.drop \cup cancelled
  <2>1. /\ pending' = [pending EXCEPT ![w] = pending[w] - 1]
        /\ laneWorker' = [laneWorker EXCEPT ![lane[t]] = Workers]
        /\ sessionPending' = [sessionPending EXCEPT ![SessionOf(t)] = sessionPending[SessionOf(t)] - 1]
        /\ UNCHANGED compaction
    BY <1>0, <1>8 DEF CompactTake, Drop
  <2>2. \A v \in Worker : Taken(v)' = Taken(v)
    BY <2>1 DEF Taken
  <2>3. \A v \in Worker : At(v)' = At(v) \ {t} /\ Apart(v)'
    <3>1. At(w)' = At(w) \ {t} /\ Apart(w)'
      BY <1>2, <1>3, <1>6, <1>7, <2>2 DEF At, Apart
    <3>2. \A v \in Worker : v # w => At(v)' = At(v) \ {t} /\ Apart(v)'
      BY <1>6, <1>7, <2>2 DEF At, Apart
    <3> QED
      BY <3>1, <3>2
  <2>4. SessionsCounted' /\ sessionPending' \in [Session -> 0 .. SessionCap]
    <3>1. compaction'.at \in Worker
      BY <1>0, <2>1
    <3>2. UNCHANGED lane
      BY <1>1
    <3> HIDE DEF t
    <3> QED
      BY <1>2, <1>3, <2>1, <2>3, <3>1, <3>2, SessionLess
  <2>5. Placed'
    BY <1>1, <2>1, <2>3 DEF CountInv, Placed, Unlocked
  <2>6. Load(w) - 1 \in Nat /\ Load(w)' = Load(w) - 1
    <3> DEFINE n == Len(rest)
               h == IF worker[w].at \in {"idle", "returned"} THEN 0 ELSE 1
    <3>1. n \in Nat /\ c \in Nat /\ h \in Nat
      BY <1>2, <1>3
    <3>2. Load(w) = (n + 1) + c + h /\ Load(w)' = n + c + h
      BY <1>0, <1>1, <1>3, <1>6, <2>1 DEF Load
    <3> HIDE DEF n, c, h
    <3> QED
      BY <3>1, <3>2
  <2>7. Loads' /\ pending' \in [Worker -> Nat]
    <3>1. \A v \in Worker : pending[v] = Load(v) /\ (v # w => Load(v)' = Load(v))
      BY <1>1, <1>6, <2>1 DEF CountInv, Loads, Load
    <3> QED
      BY <1>2, <2>1, <2>6, <3>1 DEF Loads, CountInv, TypeOK
  <2>8. TypeOK'
    <3>1. laneWorker' \in [Lane -> 0 .. Workers]
      BY <2>1, WorkersAre DEF CountInv, TypeOK
    <3> QED
      BY <1>1, <1>5, <2>1, <2>4, <2>7, <3>1 DEF CountInv, TypeOK, limits
  <2>9. Room'
    <3> DEFINE n == Len(rest)
    <3>1. n \in Nat /\ n + 1 + c <= QueueLimit /\ c \in Nat
      BY <1>2, <1>3, <1>4
    <3>2. (Len(jobs[compaction.at]) + Len(compaction.queued))' = n + c
      BY <1>0, <1>6, <2>1
    <3> HIDE DEF n, c
    <3>3. n + c <= QueueLimit
      BY <3>1, DeferredAssumption
    <3> QED
      BY <3>2, <3>3 DEF Room
  <2> QED
    <3>1. \A v \in Worker : Unbegun(v)' \subseteq Unbegun(v)
      BY <1>1, <1>7, <2>2 DEF Unbegun
    <3> QED
      BY <1>3, <2>1, <2>3, <2>4, <2>5, <2>7, <2>8, <2>9, <3>1 DEF CountInv
<1>9. CASE lane[t] \notin compaction.drop \cup cancelled
  <2> DEFINE more == Append(compaction.queued, t)
  <2>1. /\ compaction' = [compaction EXCEPT !.queued = more]
        /\ UNCHANGED pending /\ UNCHANGED laneWorker /\ UNCHANGED sessionPending
    BY <1>0, <1>9 DEF CompactTake
  <2>2. /\ more \in Seq(0 .. Len(lane)) /\ Once(more) /\ Len(more) = c + 1
        /\ Elems(more) = Elems(compaction.queued) \cup {t} /\ t \in 0 .. Len(lane)
    <3>1. t \notin Elems(compaction.queued) /\ t \in 0 .. Len(lane)
      BY <1>0, <1>3, <1>7 DEF Taken
    <3>2. Once(compaction.queued)
      BY DEF CountInv, Placed
    <3> QED
      BY <1>2, <3>1, <3>2, AppendOnce
  <2> HIDE DEF more
  <2>3. /\ compaction' \in [drop : SUBSET Lane, at : 0 .. Workers, queued : Seq(0 .. Len(lane))]
        /\ compaction'.at = w /\ compaction'.queued = more
    BY <1>0, <2>1, <2>2 DEF CountInv, TypeOK
  <2>4. /\ Taken(w)' = Taken(w) \cup {t}
        /\ \A v \in Worker : v # w => Taken(v)' = Taken(v)
    BY <1>0, <2>2, <2>3 DEF Taken
  <2>5. \A v \in Worker : At(v)' = At(v) /\ Apart(v)'
    <3>1. At(w)' = At(w) /\ Apart(w)'
      BY <1>2, <1>3, <1>6, <1>7, <2>4 DEF At, Apart
    <3>2. \A v \in Worker : v # w => At(v)' = At(v) /\ Apart(v)'
      BY <1>6, <1>7, <2>4 DEF At, Apart
    <3> QED
      BY <3>1, <3>2
  <2>6. SessionsCounted'
    <3>1. compaction'.at \in Worker /\ UNCHANGED lane
      BY <1>1, <1>2, <2>3
    <3>2. \A s : InSession(s)' = InSession(s)
      BY <2>5, <3>1, SystemSame DEF CountInv
    <3> QED
      BY <2>1, <3>2 DEF CountInv, SessionsCounted
  <2>7. Placed'
    BY <1>1, <1>2, <2>2, <2>3, <2>5, WorkersAre DEF CountInv, Placed, Unlocked
  <2>8. Loads'
    <3>1. Load(w)' = Load(w)
      <4> DEFINE n == Len(rest)
                 h == IF worker[w].at \in {"idle", "returned"} THEN 0 ELSE 1
      <4>1. n \in Nat /\ c \in Nat /\ h \in Nat
        BY <1>2, <1>3
      <4>2. Load(w) = (n + 1) + c + h
        BY <1>0, <1>3 DEF Load
      <4>3. Load(w)' = n + (c + 1) + h
        BY <1>1, <1>6, <2>2, <2>3 DEF Load
      <4> HIDE DEF n, c, h
      <4> QED
        BY <4>1, <4>2, <4>3
    <3>2. \A v \in Worker : v # w => Load(v)' = Load(v)
      BY <1>0, <1>1, <1>6, <2>3 DEF Load
    <3> QED
      BY <2>1, <3>1, <3>2 DEF CountInv, Loads
  <2>9. TypeOK'
    BY <1>1, <1>5, <2>1, <2>3 DEF CountInv, TypeOK, limits
  <2>10. Room'
    <3> DEFINE n == Len(rest)
    <3>1. n \in Nat /\ n + 1 + c <= QueueLimit /\ c \in Nat
      BY <1>2, <1>3, <1>4
    <3>2. (Len(jobs[compaction.at]) + Len(compaction.queued))' = n + (c + 1)
      BY <1>6, <2>2, <2>3
    <3> HIDE DEF n, c
    <3>3. n + (c + 1) <= QueueLimit
      BY <3>1, DeferredAssumption
    <3> QED
      BY <3>2, <3>3 DEF Room
  <2> QED
    <3>1. \A v \in Worker : Unbegun(v)' \subseteq Unbegun(v)
      BY <1>1, <1>3, <1>7, <2>4 DEF Unbegun
    <3> QED
      BY <2>1, <2>5, <2>6, <2>7, <2>8, <2>9, <2>10, <3>1 DEF CountInv
<1> QED
  BY <1>8, <1>9

(* The compaction puts the tasks it kept back into the empty channel. *)
LEMMA RefillCounts ==
  ASSUME CountInv, CompactRefill
  PROVE  /\ CountInv'
         /\ \A v \in Worker : At(v)' = At(v) /\ Unbegun(v)' \subseteq Unbegun(v)
<1>0. PICK w \in Worker : compaction.at = w
  BY TypeFacts DEF CompactRefill, CountInv, Unlocked
<1> DEFINE kept == compaction.queued
           next == [compaction EXCEPT !.at = w + 1, !.queued = <<>>]
           over == [drop |-> {}, at |-> Workers, queued |-> <<>>]
<1>1. /\ ~Unlocked /\ jobs[w] = <<>> /\ jobs' = [jobs EXCEPT ![w] = kept]
      /\ compaction' = IF w + 1 = Workers THEN over ELSE next
      /\ UNCHANGED lane /\ UNCHANGED worker /\ UNCHANGED pending /\ UNCHANGED sessionPending
      /\ UNCHANGED <<laneWorker, cancelled, running, done, limits, revoked>>
  BY <1>0 DEF CompactRefill
<1>2. /\ kept \in Seq(0 .. Len(lane)) /\ Len(kept) \in Nat /\ Once(kept)
      /\ Len(jobs[w]) = 0 /\ Len(kept) <= QueueLimit
  <2>1. /\ kept \in Seq(0 .. Len(lane)) /\ Len(kept) \in Nat /\ Once(kept)
        /\ Len(jobs[w]) = 0 /\ Len(jobs[w]) + Len(kept) <= QueueLimit
    BY <1>0, <1>1, TypeFacts, EmptyOnce DEF CountInv, Placed, Room
  <2> DEFINE n == Len(kept)
             m == Len(jobs[w])
  <2>2. m = 0 /\ n \in Nat /\ m + n <= QueueLimit
    BY <2>1
  <2> HIDE DEF n, m
  <2>3. n <= QueueLimit
    BY <2>2, DeferredAssumption
  <2> QED
    BY <2>1, <2>3 DEF n
<1>3. /\ compaction' \in [drop : SUBSET Lane, at : 0 .. Workers, queued : Seq(0 .. Len(lane))]
      /\ compaction'.queued = <<>> /\ compaction'.at # w
      /\ compaction'.at \in Worker \cup {Workers}
  <2>1. next \in [drop : SUBSET Lane, at : 0 .. Workers, queued : Seq(0 .. Len(lane))]
        /\ next.queued = <<>> /\ next.at = w + 1 /\ (w + 1 # Workers => w + 1 \in Worker)
    <3>1. w + 1 # Workers => w + 1 \in Worker
      BY WorkersAre
    <3>2. w + 1 \in 0 .. Workers
      BY <3>1, WorkersAre
    <3>3. /\ compaction \in [drop : SUBSET Lane, at : 0 .. Workers, queued : Seq(0 .. Len(lane))]
          /\ <<>> \in Seq(0 .. Len(lane))
      BY EmptySeq DEF CountInv, TypeOK
    <3> QED
      BY <3>1, <3>2, <3>3
  <2>2. over \in [drop : SUBSET Lane, at : 0 .. Workers, queued : Seq(0 .. Len(lane))]
    BY WorkersAre
  <2>3. w + 1 # w /\ w # Workers
    BY WorkersAre
  <2> HIDE DEF next
  <2> QED
    BY <1>1, <2>1, <2>2, <2>3
<1> HIDE DEF next, over, kept
<1>4. jobs' \in [Worker -> Seq(0 .. Len(lane))] /\ \A v \in Worker : Len(jobs'[v]) <= QueueLimit
  BY <1>1, <1>2 DEF CountInv, TypeOK
<1>5. jobs'[w] = kept /\ \A v \in Worker : v # w => jobs'[v] = jobs[v]
  BY <1>1 DEF CountInv, TypeOK
<1>6. /\ JobsOf(w)' = Taken(w) /\ JobsOf(w) = {}
      /\ \A v \in Worker : /\ v # w => JobsOf(v)' = JobsOf(v) /\ Taken(v) = {}
                           /\ Taken(v)' = {} /\ Hand(v)' = Hand(v)
  BY <1>0, <1>1, <1>3, <1>5, EmptyOnce DEF JobsOf, Hand, Taken, kept
<1>7. \A v \in Worker : At(v)' = At(v) /\ Apart(v)'
  <2>1. \A v \in Worker : Apart(v)
    BY DEF CountInv, Placed
  <2>2. At(w)' = At(w) /\ Apart(w)'
    BY <1>2, <1>5, <1>6, <2>1 DEF At, Apart
  <2>3. \A v \in Worker : v # w => At(v)' = At(v) /\ Apart(v)'
    BY <1>5, <1>6, <2>1 DEF At, Apart
  <2> QED
    BY <2>2, <2>3
<1>8. Placed'
  BY <1>1, <1>3, <1>7, EmptyOnce DEF CountInv, Placed, Unlocked
<1>9. SessionsCounted'
  BY <1>1, <1>3, <1>7, SystemSame DEF CountInv, SessionsCounted
<1>10. Loads'
  <2>1. \A v \in Worker : Load(v)' = Load(v)
    <3>1. Load(w)' = Load(w)
      <4>1. Len(jobs'[w]) = Len(compaction.queued) /\ Len(jobs[w]) = 0 /\ Len(compaction.queued) \in Nat
        BY <1>2, <1>5 DEF kept
      <4> DEFINE n == Len(compaction.queued)
                 h == IF worker[w].at \in {"idle", "returned"} THEN 0 ELSE 1
      <4>2. Load(w) = Len(jobs[w]) + n + h
        BY <1>0 DEF Load
      <4>3. Load(w)' = Len(jobs'[w]) + 0 + h
        BY <1>1, <1>3 DEF Load
      <4>4. n \in Nat /\ h \in Nat /\ Len(jobs[w]) = 0 /\ Len(jobs'[w]) = n
        BY <4>1
      <4> HIDE DEF n, h
      <4> QED
        BY <4>2, <4>3, <4>4
    <3>2. ASSUME NEW v \in Worker, v # w PROVE Load(v)' = Load(v)
      <4>1. (IF compaction.at = v THEN Len(compaction.queued) ELSE 0)' = 0
        BY <1>3, EmptyOnce
      <4>2. (IF compaction.at = v THEN Len(compaction.queued) ELSE 0) = 0
        BY <1>0, <3>2
      <4> QED
        BY <1>1, <1>5, <3>2, <4>1, <4>2 DEF Load
    <3> QED
      BY <3>1, <3>2
  <2> QED
    BY <1>1, <2>1 DEF CountInv, Loads
<1>11. TypeOK'
  BY <1>1, <1>3, <1>4 DEF CountInv, TypeOK, limits
<1>12. Room'
  <2> SUFFICES ASSUME compaction'.at \in Worker
               PROVE  (Len(jobs[compaction.at]) + Len(compaction.queued) <= QueueLimit)'
    BY <1>3 DEF Room, Unlocked
  <2> DEFINE n == Len(jobs'[compaction'.at])
  <2>1. n \in Nat /\ n <= QueueLimit /\ Len(compaction'.queued) = 0
    BY <1>3, <1>4, LenProperties, EmptyOnce
  <2> HIDE DEF n
  <2>2. n + 0 <= QueueLimit
    BY <2>1, DeferredAssumption
  <2> QED
    BY <2>1, <2>2 DEF n
<1>13. \A v \in Worker : Unbegun(v)' \subseteq Unbegun(v)
  BY <1>1, <1>6 DEF Unbegun
<1> QED
  BY <1>7, <1>8, <1>9, <1>10, <1>11, <1>12, <1>13 DEF CountInv

(* The lanes of the tasks there are do not change when one more arrives. *)
LEMMA OneMore ==
  ASSUME TypeOK, NEW l \in Lane, lane' = Append(lane, l)
  PROVE  /\ lane' \in Seq(Lane) /\ Len(lane') = Len(lane) + 1 /\ lane'[Len(lane) + 1] = l
         /\ \A t \in 1 .. Len(lane) : lane'[t] = lane[t]
         /\ 0 .. Len(lane) \subseteq 0 .. Len(lane')
         /\ Seq(0 .. Len(lane)) \subseteq Seq(0 .. Len(lane'))
<1>1. lane \in Seq(Lane) /\ Len(lane) \in Nat
  BY LenProperties DEF TypeOK
<1>2. /\ lane' \in Seq(Lane) /\ Len(lane') = Len(lane) + 1 /\ lane'[Len(lane) + 1] = l
      /\ \A t \in 1 .. Len(lane) : lane'[t] = lane[t]
  BY <1>1, AppendProperties
<1>3. 0 .. Len(lane) \subseteq 0 .. Len(lane')
  BY <1>1, <1>2
<1>4. Seq(0 .. Len(lane)) \subseteq Seq(0 .. Len(lane'))
  BY <1>3, LenProperties, SeqDef
<1> QED
  BY <1>2, <1>3, <1>4

(* A task that is accepted has a number of its own. *)
LEMMA AcceptCounts ==
  ASSUME CountInv, NEW l \in Lane, NEW w \in Worker,
         Unlocked, Len(lane) < MaxTasks, sessionPending[l[1]] < SessionCap,
         Len(jobs[w]) < QueueLimit, Accept(l, w), nextWorker' \in Worker, cancelled' \subseteq Lane,
         UNCHANGED <<running, worker, done, compaction, removals, revoked>>
  PROVE  /\ CountInv' /\ Len(lane') = Len(lane) + 1 /\ lane'[Len(lane) + 1] = l
         /\ \A t \in 1 .. Len(lane) : lane'[t] = lane[t]
         /\ \A v \in Worker : IF v = w THEN /\ At(v)' = At(v) \cup {Len(lane) + 1}
                                            /\ Unbegun(v)' \subseteq Unbegun(v) \cup {Len(lane) + 1}
                                       ELSE At(v)' = At(v) /\ Unbegun(v)' \subseteq Unbegun(v)
<1> DEFINE n == Len(lane) + 1
           more == Append(jobs[w], n)
           x == l[1]
<1>1. /\ lane' = Append(lane, l) /\ laneWorker' = [laneWorker EXCEPT ![l] = w]
      /\ jobs' = [jobs EXCEPT ![w] = more] /\ pending' = [pending EXCEPT ![w] = pending[w] + 1]
      /\ sessionPending' = [sessionPending EXCEPT ![x] = sessionPending[x] + 1]
      /\ UNCHANGED running /\ UNCHANGED worker /\ UNCHANGED done /\ UNCHANGED compaction
      /\ UNCHANGED removals /\ UNCHANGED revoked
  BY DEF Accept
<1>2. /\ lane' \in Seq(Lane) /\ Len(lane') = n /\ lane'[n] = l /\ Len(lane) \in Nat
      /\ \A t \in 1 .. Len(lane) : lane'[t] = lane[t]
      /\ 0 .. Len(lane) \subseteq 0 .. Len(lane')
      /\ Seq(0 .. Len(lane)) \subseteq Seq(0 .. Len(lane'))
      /\ n \in 0 .. Len(lane') /\ n \notin 1 .. Len(lane)
      /\ 1 .. Len(lane') = (1 .. Len(lane)) \cup {n}
  <2>1. /\ lane' \in Seq(Lane) /\ Len(lane') = n /\ lane'[n] = l /\ Len(lane) \in Nat
        /\ \A t \in 1 .. Len(lane) : lane'[t] = lane[t]
        /\ 0 .. Len(lane) \subseteq 0 .. Len(lane')
        /\ Seq(0 .. Len(lane)) \subseteq Seq(0 .. Len(lane'))
    BY <1>1, OneMore, TypeFacts DEF CountInv
  <2>2. \A m \in Nat : /\ m + 1 \in 0 .. m + 1 /\ m + 1 \notin 1 .. m
                      /\ 1 .. m + 1 = (1 .. m) \cup {m + 1}
    OBVIOUS
  <2> QED
    BY <2>1, <2>2
<1>3. \A v \in Worker : n \notin At(v)
  BY <1>2 DEF CountInv, Placed
<1>4. /\ more \in Seq(0 .. Len(lane')) /\ Once(more) /\ Len(more) = Len(jobs[w]) + 1
      /\ Elems(more) = JobsOf(w) \cup {n} /\ Len(jobs[w]) \in Nat
  <2>1. jobs[w] \in Seq(0 .. Len(lane')) /\ Once(jobs[w]) /\ n \notin Elems(jobs[w])
    BY <1>2, <1>3, TypeFacts DEF CountInv, Placed, Apart, At, JobsOf
  <2> QED
    BY <1>2, <2>1, AppendOnce, LenProperties DEF JobsOf
<1>5. x \in Session
  BY DEF Lane
<1> HIDE DEF more, x
<1>6. jobs'[w] = more /\ \A v \in Worker : v # w => jobs'[v] = jobs[v]
  BY <1>1 DEF CountInv, TypeOK
<1>7. compaction.queued = <<>> /\ compaction.at = Workers /\ Workers \notin Worker
  BY WorkersAre DEF CountInv, Placed, Unlocked
<1>8. /\ JobsOf(w)' = JobsOf(w) \cup {n}
      /\ \A v \in Worker : /\ v # w => JobsOf(v)' = JobsOf(v)
                           /\ Taken(v) = {} /\ Taken(v)' = {} /\ Hand(v)' = Hand(v)
  BY <1>1, <1>4, <1>6, <1>7 DEF JobsOf, Hand, Taken
<1>9. /\ At(w)' = At(w) \cup {n} /\ Apart(w)'
      /\ \A v \in Worker : v # w => At(v)' = At(v) /\ Apart(v)'
  <2>1. \A v \in Worker : Apart(v)
    BY DEF CountInv, Placed
  <2>2. At(w)' = At(w) \cup {n} /\ Apart(w)'
    BY <1>3, <1>4, <1>6, <1>8, <2>1 DEF At, Apart
  <2>3. \A v \in Worker : v # w => At(v)' = At(v) /\ Apart(v)'
    BY <1>6, <1>8, <2>1 DEF At, Apart
  <2> QED
    BY <2>2, <2>3
<1>10. Placed'
  <2>1. \A v \in Worker : At(v)' \subseteq 1 .. Len(lane')
    BY <1>2, <1>9 DEF CountInv, Placed
  <2>2. \A u, v \in Worker : u # v => At(u)' \cap At(v)' = {}
    BY <1>3, <1>9 DEF CountInv, Placed
  <2> QED
    BY <1>1, <1>9, <2>1, <2>2 DEF CountInv, Placed, Unlocked
<1>11. InSystem' = InSystem \cup {n} /\ n \notin InSystem
  <2>1. \A t : t \in InSystem' <=> \E v \in Worker : t \in At(v)'
    BY <1>1, <1>7, SystemIsNext
  <2>2. \A t : t \in InSystem <=> \E v \in Worker : t \in At(v)
    BY PlacedFacts DEF CountInv
  <2> QED
    BY <1>3, <1>9, <2>1, <2>2
<1>12. /\ InSession(x)' = InSession(x) \cup {n} /\ n \notin InSession(x)
       /\ \A s : s # x => InSession(s)' = InSession(s)
  <2>1. \A t \in InSystem : lane'[t] = lane[t]
    BY <1>2, PlacedFacts DEF CountInv
  <2> QED
    BY <1>2, <1>11, <2>1 DEF InSession, SessionOf, x
<1>13. SessionsCounted' /\ sessionPending' \in [Session -> 0 .. SessionCap]
  <2>1. IsFiniteSet(InSession(x)) /\ Cardinality(InSession(x)) \in Nat
        /\ Cardinality(InSession(x)') = Cardinality(InSession(x)) + 1
    BY <1>12, PlacedFacts, FS_AddElement DEF CountInv
  <2>2. \A s \in Session : sessionPending[s] = Cardinality(InSession(s))
    BY DEF CountInv, SessionsCounted
  <2>3. sessionPending[x] + 1 \in 0 .. SessionCap /\ sessionPending \in [Session -> 0 .. SessionCap]
    <3>1. sessionPending[x] \in 0 .. SessionCap /\ sessionPending[x] < SessionCap
      BY <1>5 DEF CountInv, TypeOK, x
    <3>2. sessionPending \in [Session -> 0 .. SessionCap]
      BY DEF CountInv, TypeOK
    <3> QED
      BY <3>1, <3>2, DeferredAssumption
  <2>4. SessionsCounted'
    <3> SUFFICES ASSUME NEW s \in Session PROVE sessionPending'[s] = Cardinality(InSession(s)')
      BY DEF SessionsCounted
    <3>1. CASE s = x
      BY <1>1, <2>1, <2>2, <2>3, <3>1
    <3>2. CASE s # x
      BY <1>1, <1>12, <2>2, <2>3, <3>2
    <3> QED
      BY <3>1, <3>2
  <2> QED
    BY <1>1, <2>3, <2>4
<1>14. Loads' /\ pending' \in [Worker -> Nat]
  <2>1. \A v \in Worker : pending[v] = Load(v) /\ pending[v] \in Nat
    BY DEF CountInv, Loads, TypeOK
  <2>2. Load(w)' = Load(w) + 1
    <3> DEFINE m == Len(jobs[w])
               h == IF worker[w].at \in {"idle", "returned"} THEN 0 ELSE 1
    <3>1. Load(w) = m + 0 + h /\ Load(w)' = (m + 1) + 0 + h /\ m \in Nat /\ h \in Nat
      BY <1>1, <1>4, <1>6, <1>7 DEF Load
    <3> HIDE DEF m, h
    <3> QED
      BY <3>1
  <2>3. \A v \in Worker : v # w => Load(v)' = Load(v)
    BY <1>1, <1>6, <1>7 DEF Load
  <2>4. pending \in [Worker -> Nat] /\ pending[w] + 1 \in Nat
    BY <2>1 DEF CountInv, TypeOK
  <2> QED
    BY <1>1, <2>1, <2>2, <2>3, <2>4 DEF Loads
<1>15. TypeOK'
  <2>1. jobs' \in [Worker -> Seq(0 .. Len(lane'))] /\ \A v \in Worker : Len(jobs'[v]) <= QueueLimit
    <3>1. Len(more) <= QueueLimit
      <4> DEFINE m == Len(jobs[w])
      <4>1. m \in Nat /\ m < QueueLimit /\ Len(more) = m + 1
        BY <1>4
      <4> HIDE DEF m
      <4> QED
        BY <4>1, DeferredAssumption
    <3>2. jobs \in [Worker -> Seq(0 .. Len(lane'))]
      BY <1>2 DEF CountInv, TypeOK
    <3> QED
      BY <1>1, <1>4, <3>1, <3>2 DEF CountInv, TypeOK
  <2>2. laneWorker' \in [Lane -> 0 .. Workers]
    BY <1>1, WorkersAre DEF CountInv, TypeOK
  <2>3. worker \in [Worker -> [at : Doing, task : 0 .. Len(lane')]]
    <3>1. [at : Doing, task : 0 .. Len(lane)] \subseteq [at : Doing, task : 0 .. Len(lane')]
      BY <1>2
    <3> QED
      BY <3>1 DEF CountInv, TypeOK, Doing
  <2>4. /\ running \in [Lane -> 0 .. Len(lane')] /\ done \subseteq 0 .. Len(lane')
        /\ revoked \subseteq 0 .. Len(lane')
    BY <1>2 DEF CountInv, TypeOK
  <2>5. compaction \in [drop : SUBSET Lane, at : 0 .. Workers, queued : Seq(0 .. Len(lane'))]
    BY <1>2 DEF CountInv, TypeOK
  <2>6. Len(lane') <= MaxTasks
    BY <1>2, DeferredAssumption
  <2> QED
    BY <1>1, <1>2, <1>13, <1>14, <2>1, <2>2, <2>3, <2>4, <2>5, <2>6 DEF CountInv, TypeOK, Doing
<1>16. Room'
  BY <1>1 DEF Room, Unlocked
<1>17. /\ Unbegun(w)' \subseteq Unbegun(w) \cup {n}
       /\ \A v \in Worker : v # w => Unbegun(v)' \subseteq Unbegun(v)
  BY <1>1, <1>8 DEF Unbegun
<1> QED
  BY <1>2, <1>9, <1>10, <1>13, <1>14, <1>15, <1>16, <1>17 DEF CountInv

(* A task of lane l has come to worker w, and nothing else has moved. *)
Arrived(l, w) ==
  /\ Len(lane') = Len(lane) + 1 /\ lane'[Len(lane) + 1] = l
  /\ \A t \in 1 .. Len(lane) : lane'[t] = lane[t]
  /\ laneWorker' = [laneWorker EXCEPT ![l] = w]
  /\ \A v \in Worker : IF v = w THEN /\ At(v)' = At(v) \cup {Len(lane) + 1}
                                     /\ Unbegun(v)' \subseteq Unbegun(v) \cup {Len(lane) + 1}
                                ELSE At(v)' = At(v) /\ Unbegun(v)' \subseteq Unbegun(v)

(* A task that arrives is refused, or goes to some worker. *)
LEMMA EnqueueCounts ==
  ASSUME CountInv, NEW l \in Lane, Enqueue(l)
  PROVE  /\ CountInv' /\ UNCHANGED <<running, worker, done, revoked>>
         /\ \/ /\ UNCHANGED <<lane, laneWorker>>
               /\ \A v \in Worker : At(v)' = At(v) /\ Unbegun(v)' \subseteq Unbegun(v)
            \/ \E w \in Worker : Arrived(l, w)
<1> DEFINE w == IF laneWorker[l] # Workers THEN laneWorker[l] ELSE LeastLoaded
<1>1. w \in Worker /\ nextWorker \in Worker /\ (w + 1) % Workers \in Worker
  <2>1. w \in Worker /\ nextWorker \in Worker
    BY LeastLoadedType, WorkersAre DEF CountInv, TypeOK
  <2>2. \A v \in Worker : (v + 1) % Workers \in Worker
    BY DeferredAssumption DEF Worker
  <2> QED
    BY <2>1, <2>2
<1>2. /\ Unlocked /\ Len(lane) < MaxTasks /\ cancelled' = cancelled \ {l}
      /\ UNCHANGED <<running, worker, done, compaction, removals, revoked>>
      /\ nextWorker' = nextWorker \/ nextWorker' = (w + 1) % Workers
      /\ Reject \/ /\ ~(sessionPending[l[1]] >= SessionCap)
                   /\ Len(jobs[w]) < QueueLimit /\ Accept(l, w)
  BY DEF Enqueue
<1>3. nextWorker' \in Worker /\ cancelled' \subseteq Lane
  BY <1>1, <1>2 DEF CountInv, TypeOK
<1> HIDE DEF w
<1>4. CASE Reject
  <2>1. TypeOK'
    BY <1>2, <1>3, <1>4 DEF Reject, queues, CountInv, TypeOK
  <2>2. CountInv' /\ \A v \in Worker : At(v)' = At(v) /\ Unbegun(v)' \subseteq Unbegun(v)
    BY <1>2, <1>4, <2>1, QuietCounts DEF Reject
  <2> QED
    BY <1>2, <1>4, <2>2 DEF Reject
<1>5. CASE ~(sessionPending[l[1]] >= SessionCap) /\ Len(jobs[w]) < QueueLimit /\ Accept(l, w)
  <2>1. sessionPending[l[1]] < SessionCap
    <3>1. sessionPending[l[1]] \in 0 .. SessionCap
      BY DEF CountInv, TypeOK, Lane
    <3> QED
      BY <1>5, <3>1, DeferredAssumption
  <2>2. CountInv' /\ Arrived(l, w)
    BY <1>1, <1>2, <1>3, <1>5, <2>1, AcceptCounts DEF Arrived, Accept
  <2> QED
    BY <1>1, <1>2, <2>2
<1> QED
  BY <1>2, <1>4, <1>5

LEMMA CountInit == ASSUME Init PROVE CountInv
<1>1. TypeOK
  <2>1. Len(<<>>) = 0 /\ <<>> \in Seq(Lane) /\ \A S : <<>> \in Seq(S)
    BY EmptySeq
  <2> QED
    BY <2>1, WorkersAre, DeferredAssumption DEF Init, TypeOK
<1>2. \A w \in Worker : JobsOf(w) = {} /\ Hand(w) = {} /\ Taken(w) = {} /\ Once(jobs[w])
  BY WorkersAre, EmptyOnce DEF Init, JobsOf, Hand, Taken
<1>3. Placed
  BY <1>2, EmptyOnce DEF Init, Placed, Apart, At
<1>4. Loads /\ Room
  BY EmptyOnce, WorkersAre DEF Init, Loads, Load, Room, Unlocked
<1>5. SessionsCounted
  <2>1. InSystem = {}
    BY <1>1, <1>2, <1>3, PlacedFacts DEF At
  <2>2. \A s : InSession(s) = {}
    BY <2>1 DEF InSession
  <2> QED
    BY <2>2, FS_EmptySet DEF Init, SessionsCounted
<1> QED
  BY <1>1, <1>3, <1>4, <1>5 DEF CountInv

LEMMA CountNext == ASSUME CountInv, [Next]_vars PROVE CountInv'
<1>1. ASSUME NEW l \in Lane, Enqueue(l) PROVE CountInv'
  BY <1>1, EnqueueCounts
<1>2. ASSUME NEW l \in Lane, RemoveLane(l) PROVE CountInv'
  BY <1>2, RemoveCounts DEF RemoveLane
<1>3. ASSUME NEW s \in Session, RemoveSession(s) PROVE CountInv'
  <2>1. \A lanes \in SUBSET Lane : {l \in lanes : laneWorker[l] # Workers} \in SUBSET Lane
    OBVIOUS
  <2> QED
    BY <1>3, <2>1, RemoveCounts DEF RemoveSession
<1>4. CASE CompactTake \/ CompactRefill
  BY <1>4, TakeCounts, RefillCounts
<1>5. ASSUME NEW w \in Worker,
             Receive(w) \/ BeginTask(w) \/ FinalizeLane(w) \/ Return(w) \/ FinishLane(w)
      PROVE  CountInv'
  BY <1>5, ReceiveCounts, BeginCounts, FinalizeCounts, ReturnCounts, FinishCounts
<1>6. CASE UNCHANGED vars
  <2>1. TypeOK'
    BY <1>6 DEF vars, CountInv, TypeOK
  <2> QED
    BY <1>6, <2>1, QuietCounts DEF vars, queues
<1> QED
  BY <1>1, <1>2, <1>3, <1>4, <1>5, <1>6 DEF Next

(* Whatever is removed while workers take tasks, the pending counters and   *)
(* sessionPending count the tasks there are (finishLane, runDeferredWorker, *)
(* compactWorkerLocked), and what a compaction puts back fits.              *)
THEOREM CountersExact == Spec => []PendingExact
<1>1. CountInv => PendingExact
  BY DEF CountInv, PendingExact, Loads, Load, SessionsCounted, InSession, Room
<1> QED
  BY <1>1, CountInit, CountNext, PTL DEF Spec

-----------------------------------------------------------------------------
(* Lanes. *)

(* A lane is mapped to a worker that has a task of it. *)
Mapped == \A l \in Lane : laneWorker[l] # Workers =>
            \E t \in At(laneWorker[l]) : lane[t] = l

(* A cancel function is that of a task of its lane which has begun. *)
Begun(w) == worker[w].at \in {"run", "finalized", "returned"}
LaneRunning == \A l \in Lane : running[l] # 0 =>
          /\ running[l] \in 1 .. Len(lane) /\ lane[running[l]] = l
          /\ \E w \in Worker : Begun(w) /\ worker[w].task = running[l]

(* The context of a task that has not begun is not cancelled. *)
NotYet == \A w \in Worker : done \cap Unbegun(w) = {}

LaneInv == CountInv /\ Mapped /\ LaneRunning /\ NotYet /\ CancelledInLane

-----------------------------------------------------------------------------
(* A task in a worker's hands that has begun is nowhere else. *)
LEMMA BegunApart ==
  ASSUME CountInv, NEW w \in Worker, worker[w].at \notin {"idle", "received"}
  PROVE  /\ worker[w].task \in At(w) /\ worker[w].task \in InSystem
         /\ worker[w].task \in 1 .. Len(lane)
         /\ \A v \in Worker : worker[w].task \notin Unbegun(v)
         /\ \A v \in Worker : v # w => worker[w].task \notin At(v)
<1>1. worker[w].task \in Hand(w) /\ worker[w].task \in At(w)
  BY DEF Hand, At
<1>2. /\ worker[w].task \in InSystem /\ worker[w].task \in 1 .. Len(lane)
  BY <1>1, PlacedFacts DEF CountInv
<1>3. \A v \in Worker : v # w => worker[w].task \notin At(v)
  BY <1>1 DEF CountInv, Placed
<1>4. \A v \in Worker : worker[w].task \notin Unbegun(v)
  <2>1. worker[w].task \notin Unbegun(w)
    BY <1>1 DEF CountInv, Placed, Apart, Unbegun
  <2>2. \A v \in Worker : Unbegun(v) \subseteq At(v)
    BY DEF Unbegun, At, Hand
  <2> QED
    BY <1>3, <2>1, <2>2
<1> QED
  BY <1>1, <1>2, <1>3, <1>4

LEMMA BegunApartAll ==
  \A w \in Worker : CountInv /\ worker[w].at \notin {"idle", "received"} =>
    \A v \in Worker : worker[w].task \notin Unbegun(v)
BY BegunApart

LEMMA BegunApartNext ==
  (\A w \in Worker : CountInv /\ worker[w].at \notin {"idle", "received"} =>
     \A v \in Worker : worker[w].task \notin Unbegun(v))'
BY BegunApartAll, PTL

LEMMA SystemAt == CountInv => \A t : t \in InSystem <=> \E w \in Worker : t \in At(w)
BY PlacedFacts DEF CountInv

LEMMA SystemAtNext ==
  (CountInv => \A t : t \in InSystem <=> \E w \in Worker : t \in At(w))'
BY SystemAt, PTL

(* A step that gives up the tasks of gone and no other, cancels only what  *)
(* has begun, and unmaps the lanes it takes the last task of.              *)
LEMMA LanesGo ==
  ASSUME LaneInv, CountInv', UNCHANGED lane, NEW gone \in SUBSET InSystem,
         \A v \in Worker : At(v)' = At(v) \ gone /\ Unbegun(v)' \subseteq Unbegun(v),
         \A l \in Lane : laneWorker'[l] # Workers =>
           /\ laneWorker'[l] = laneWorker[l]
           /\ \A t \in At(laneWorker[l]) \cap gone : lane[t] # l,
         \A t \in done' \ done : \A v \in Worker : t \notin Unbegun(v)'
  PROVE  Mapped' /\ NotYet' /\ InSystem' = InSystem \ gone
<1>1. \A l \in Lane : laneWorker[l] \in Worker \cup {Workers}
  BY WorkersAre DEF LaneInv, CountInv, TypeOK
<1>2. Mapped'
  <2> SUFFICES ASSUME NEW l \in Lane, laneWorker'[l] # Workers
               PROVE  \E t \in At(laneWorker[l])' : lane'[t] = l
    BY DEF Mapped
  <2>1. PICK w \in Worker : w = laneWorker[l] /\ w = laneWorker'[l]
    BY <1>1
  <2>2. \E t \in At(w) : lane[t] = l
    BY <2>1 DEF LaneInv, Mapped
  <2>3. \E t \in At(w)' : lane'[t] = l
    BY <2>1, <2>2
  <2> QED
    BY <2>1, <2>3
<1>3. NotYet'
  BY DEF LaneInv, NotYet
<1>4. InSystem' = InSystem \ gone
  BY SystemAt, SystemAtNext DEF LaneInv
<1> QED
  BY <1>2, <1>3, <1>4

LEMMA LanesStay ==
  ASSUME LaneInv, CountInv', UNCHANGED lane,
         \A v \in Worker : At(v)' = At(v) /\ Unbegun(v)' \subseteq Unbegun(v),
         \A l \in Lane : laneWorker'[l] # Workers => laneWorker'[l] = laneWorker[l],
         \A t \in done' \ done : \A v \in Worker : t \notin Unbegun(v)'
  PROVE  Mapped' /\ NotYet' /\ InSystem' = InSystem
<1> DEFINE gone == {}
<1>1. /\ gone \in SUBSET InSystem
      /\ \A v \in Worker : At(v)' = At(v) \ gone /\ Unbegun(v)' \subseteq Unbegun(v)
      /\ \A l \in Lane : laneWorker'[l] # Workers =>
           /\ laneWorker'[l] = laneWorker[l]
           /\ \A t \in At(laneWorker[l]) \cap gone : lane[t] # l
      /\ InSystem \ gone = InSystem
  OBVIOUS
<1> HIDE DEF gone
<1> QED
  BY <1>1, LanesGo

(* ... and of those that still run, none is cancelled without a reason. *)
LEMMA ReasonsStay ==
  ASSUME LaneInv, UNCHANGED lane, InSystem' \subseteq InSystem, revoked \subseteq revoked',
         \A v \in Worker : worker'[v].at = "run" /\ worker'[v].task \in done' =>
           \/ worker[v].at = "run" /\ worker'[v].task = worker[v].task /\ worker[v].task \in done
           \/ worker'[v].task \in revoked'
           \/ \E t \in DOMAIN lane \ InSystem' : lane[t] = lane[worker'[v].task]
  PROVE  CancelledInLane'
BY DEF LaneInv, CancelledInLane

LEMMA RemoveLanes ==
  ASSUME LaneInv, NEW lanes \in SUBSET Lane, NEW marked \in SUBSET Lane, Remove(lanes, marked)
  PROVE  LaneInv'
<1>1. /\ done' = done \cup ({running[l] : l \in lanes} \ {0})
      /\ running' = [l \in Lane |-> IF l \in lanes THEN 0 ELSE running[l]]
      /\ laneWorker' = [l \in Lane |-> IF l \in lanes THEN Workers ELSE laneWorker[l]]
      /\ revoked' = revoked \cup {t \in InSystem : lane[t] \in lanes}
      /\ UNCHANGED lane /\ UNCHANGED worker
  BY DEF Remove
<1>2. CountInv' /\ \A v \in Worker : At(v)' = At(v) /\ Unbegun(v)' \subseteq Unbegun(v)
  BY RemoveCounts DEF LaneInv
<1>3. \A t \in done' \ done : /\ \A v \in Worker : t \notin Unbegun(v)
                              /\ t \in InSystem /\ lane[t] \in lanes
  <2> SUFFICES ASSUME NEW l \in lanes, running[l] # 0
               PROVE  /\ \A v \in Worker : running[l] \notin Unbegun(v)
                      /\ running[l] \in InSystem /\ lane[running[l]] \in lanes
    BY <1>1
  <2>1. PICK w \in Worker : Begun(w) /\ worker[w].task = running[l] /\ lane[running[l]] = l
    BY DEF LaneInv, LaneRunning
  <2> QED
    BY <2>1, BegunApart DEF LaneInv, Begun
<1>4. Mapped' /\ NotYet' /\ InSystem' = InSystem
  <2>1. \A l \in Lane : laneWorker'[l] # Workers => laneWorker'[l] = laneWorker[l]
    BY <1>1
  <2>2. \A t \in done' \ done : \A v \in Worker : t \notin Unbegun(v)'
    BY <1>2, <1>3
  <2> QED
    BY <1>1, <1>2, <2>1, <2>2, LanesStay
<1>5. LaneRunning'
  BY <1>1 DEF LaneInv, LaneRunning, Begun
<1>6. CancelledInLane'
  BY <1>1, <1>3, <1>4, ReasonsStay
<1> QED
  BY <1>2, <1>4, <1>5, <1>6 DEF LaneInv

LEMMA FinalizeLanes == ASSUME LaneInv, NEW w \in Worker, FinalizeLane(w) PROVE LaneInv'
<1>1. /\ worker[w].at = "run" /\ worker' = [worker EXCEPT ![w].at = "finalized"]
      /\ laneWorker' = [laneWorker EXCEPT ![lane[worker[w].task]] = Workers]
      /\ UNCHANGED lane /\ UNCHANGED running /\ UNCHANGED done /\ UNCHANGED revoked
  BY DEF FinalizeLane
<1>2. CountInv' /\ \A v \in Worker : At(v)' = At(v) /\ Unbegun(v)' \subseteq Unbegun(v)
  BY FinalizeCounts DEF LaneInv
<1>3. /\ worker'[w].at = "finalized"
      /\ \A v \in Worker : worker'[v].task = worker[v].task /\ (v # w => worker'[v] = worker[v])
  BY <1>1, WorkerGoes DEF LaneInv, CountInv, Doing
<1>4. Mapped' /\ NotYet' /\ InSystem' = InSystem
  <2>1. \A l \in Lane : laneWorker'[l] # Workers => laneWorker'[l] = laneWorker[l]
    BY <1>1 DEF LaneInv, CountInv, TypeOK
  <2> QED
    BY <1>1, <1>2, <2>1, LanesStay
<1>5. LaneRunning'
  BY <1>1, <1>3 DEF LaneInv, LaneRunning, Begun
<1>6. CancelledInLane'
  BY <1>1, <1>3, <1>4, ReasonsStay
<1> QED
  BY <1>2, <1>4, <1>5, <1>6 DEF LaneInv

LEMMA BeginLanes == ASSUME LaneInv, NEW w \in Worker, BeginTask(w) PROVE LaneInv'
<1> DEFINE t == worker[w].task
<1>0. PICK step \in {"skip", "run"} :
        /\ worker[w].at = "received" /\ worker' = [worker EXCEPT ![w].at = step]
        /\ IF step = "skip" THEN done' = done \cup {t} /\ UNCHANGED running
                            ELSE running' = [running EXCEPT ![lane[t]] = t] /\ UNCHANGED done
        /\ UNCHANGED lane /\ UNCHANGED laneWorker /\ UNCHANGED revoked
  BY DEF BeginTask
<1>1. t \in Hand(w) /\ t \in 1 .. Len(lane) /\ lane[t] \in Lane /\ t # 0
  <2>1. t \in Hand(w)
    BY <1>0 DEF Hand
  <2> QED
    BY <2>1, TypeFacts DEF LaneInv, CountInv, Placed, At
<1>2. CountInv' /\ \A v \in Worker : At(v)' = At(v) /\ Unbegun(v)' \subseteq Unbegun(v)
  BY BeginCounts DEF LaneInv
<1>3. /\ worker'[w].at = step
      /\ \A v \in Worker : worker'[v].task = worker[v].task /\ (v # w => worker'[v] = worker[v])
  BY <1>0, WorkerGoes DEF LaneInv, CountInv, Doing
<1>4. \A v \in Worker : t \notin Unbegun(v)'
  <2>1. (worker[w].at \notin {"idle", "received"})'
    BY <1>3
  <2> QED
    BY <1>2, <1>3, <2>1, BegunApartNext
<1>5. Mapped' /\ NotYet' /\ InSystem' = InSystem
  <2>1. \A u \in done' \ done : \A v \in Worker : u \notin Unbegun(v)'
    BY <1>0, <1>4
  <2> QED
    BY <1>0, <1>2, <2>1, LanesStay
<1>6. LaneRunning'
  <2> SUFFICES ASSUME NEW l \in Lane, running'[l] # 0
               PROVE  /\ running'[l] \in 1 .. Len(lane) /\ lane[running'[l]] = l
                      /\ \E v \in Worker : Begun(v)' /\ worker'[v].task = running'[l]
    BY <1>0 DEF LaneRunning
  <2>1. CASE step = "run" /\ l = lane[t]
    <3>1. running'[l] = t
      BY <1>0, <2>1 DEF LaneInv, CountInv, TypeOK
    <3> QED
      BY <1>1, <1>3, <2>1, <3>1 DEF Begun
  <2>2. CASE ~(step = "run" /\ l = lane[t])
    <3>1. running'[l] = running[l]
      BY <1>0, <2>2 DEF LaneInv, CountInv, TypeOK
    <3>2. PICK v \in Worker : Begun(v) /\ worker[v].task = running[l]
      BY <3>1 DEF LaneInv, LaneRunning
    <3>3. Begun(v)' /\ worker'[v].task = running[l]
      BY <1>0, <1>3, <3>2 DEF Begun
    <3> QED
      BY <3>1, <3>3 DEF LaneInv, LaneRunning
  <2> QED
    BY <2>1, <2>2
<1>7. CancelledInLane'
  <2>1. t \notin done
    BY <1>0 DEF LaneInv, NotYet, Unbegun
  <2>2. \A v \in Worker : v # w /\ worker[v].at = "run" => worker[v].task # t
    BY <1>1, BegunApart DEF LaneInv, At
  <2>3. \A v \in Worker : worker'[v].at = "run" /\ worker'[v].task \in done' =>
          worker[v].at = "run" /\ worker'[v].task = worker[v].task /\ worker[v].task \in done
    BY <1>0, <1>3, <2>1, <2>2
  <2> QED
    BY <1>0, <1>5, <2>3, ReasonsStay
<1> QED
  BY <1>2, <1>5, <1>6, <1>7 DEF LaneInv

LEMMA ReturnLanes == ASSUME LaneInv, NEW w \in Worker, Return(w) PROVE LaneInv'
<1>1. /\ worker[w].at \in {"run", "skip", "finalized"}
      /\ worker' = [worker EXCEPT ![w].at = "returned"]
      /\ UNCHANGED lane /\ UNCHANGED laneWorker /\ UNCHANGED running /\ UNCHANGED done
      /\ UNCHANGED revoked
  BY DEF Return
<1>2. CountInv' /\ \A v \in Worker : At(v)' = At(v) /\ Unbegun(v)' \subseteq Unbegun(v)
  BY ReturnCounts DEF LaneInv
<1>3. /\ worker'[w].at = "returned"
      /\ \A v \in Worker : worker'[v].task = worker[v].task /\ (v # w => worker'[v] = worker[v])
  BY <1>1, WorkerGoes DEF LaneInv, CountInv, Doing
<1>4. Mapped' /\ NotYet' /\ InSystem' = InSystem
  BY <1>1, <1>2, LanesStay
<1>5. LaneRunning'
  BY <1>1, <1>3 DEF LaneInv, LaneRunning, Begun
<1>6. CancelledInLane'
  BY <1>1, <1>3, <1>4, ReasonsStay
<1> QED
  BY <1>2, <1>4, <1>5, <1>6 DEF LaneInv

LEMMA ReceiveLanes == ASSUME LaneInv, NEW w \in Worker, Receive(w) PROVE LaneInv'
<1>1. /\ worker[w].at = "idle"
      /\ worker' = [worker EXCEPT ![w] = [at |-> "received", task |-> Head(jobs[w])]]
      /\ UNCHANGED lane /\ UNCHANGED laneWorker /\ UNCHANGED running /\ UNCHANGED done
      /\ UNCHANGED revoked
  BY DEF Receive
<1>2. CountInv' /\ \A v \in Worker : At(v)' = At(v) /\ Unbegun(v)' \subseteq Unbegun(v)
  BY ReceiveCounts DEF LaneInv
<1>3. worker'[w].at = "received" /\ \A v \in Worker : v # w => worker'[v] = worker[v]
  BY <1>1 DEF LaneInv, CountInv, TypeOK
<1>4. Mapped' /\ NotYet' /\ InSystem' = InSystem
  BY <1>1, <1>2, LanesStay
<1>5. LaneRunning'
  BY <1>1, <1>3 DEF LaneInv, LaneRunning, Begun
<1>6. CancelledInLane'
  BY <1>1, <1>3, <1>4, ReasonsStay
<1> QED
  BY <1>2, <1>4, <1>5, <1>6 DEF LaneInv

(* The task that is given up cancels another of its own lane at most. *)
LEMMA FinishLanes == ASSUME LaneInv, NEW w \in Worker, FinishLane(w) PROVE LaneInv'
<1> DEFINE t == worker[w].task
           l == lane[t]
<1>1. /\ worker[w].at = "returned"
      /\ laneWorker' = [laneWorker EXCEPT ![l] = IF laneWorker[l] = w THEN Workers ELSE laneWorker[l]]
      /\ done' = done \cup ({running[l]} \ {0})
      /\ running' = [running EXCEPT ![l] = 0]
      /\ UNCHANGED lane /\ UNCHANGED revoked
  BY DEF FinishLane
<1>2. /\ CountInv' /\ \A v \in Worker : At(v)' = At(v) \ {t} /\ Unbegun(v)' \subseteq Unbegun(v)
      /\ worker'[w].at = "idle" /\ \A v \in Worker : v # w => worker'[v] = worker[v]
  BY FinishCounts DEF LaneInv
<1>3. /\ t \in At(w) /\ t \in InSystem /\ t \in 1 .. Len(lane) /\ l \in Lane
      /\ \A v \in Worker : v # w => t \notin At(v)
  BY <1>1, BegunApart, TypeFacts DEF LaneInv, CountInv
<1>4. \A m \in Lane : /\ laneWorker'[m] # Workers => laneWorker'[m] = laneWorker[m]
                      /\ laneWorker'[l] # w
                      /\ running'[m] = IF m = l THEN 0 ELSE running[m]
                      /\ laneWorker[m] \in Worker \cup {Workers}
  BY <1>1, <1>3, WorkersAre DEF LaneInv, CountInv, TypeOK
<1>5. \A u \in done' \ done : /\ u = running[l] /\ lane[u] = l
                              /\ \A v \in Worker : u \notin Unbegun(v)
  <2> SUFFICES ASSUME running[l] # 0
               PROVE  lane[running[l]] = l /\ \A v \in Worker : running[l] \notin Unbegun(v)
    BY <1>1
  <2>1. PICK v \in Worker : Begun(v) /\ worker[v].task = running[l] /\ lane[running[l]] = l
    BY <1>3 DEF LaneInv, LaneRunning
  <2> QED
    BY <2>1, BegunApart DEF LaneInv, Begun
<1>6. Mapped' /\ NotYet' /\ InSystem' = InSystem \ {t}
  <2>1. \A m \in Lane : laneWorker'[m] # Workers =>
           /\ laneWorker'[m] = laneWorker[m]
           /\ \A u \in At(laneWorker[m]) \cap {t} : lane[u] # m
    <3> SUFFICES ASSUME NEW m \in Lane, laneWorker'[m] # Workers, t \in At(laneWorker[m])
                 PROVE  lane[t] # m
      BY <1>4
    <3>1. laneWorker[m] = w /\ laneWorker'[m] = w
      BY <1>3, <1>4
    <3> QED
      BY <1>3, <1>4, <3>1
  <2>2. {t} \in SUBSET InSystem
    BY <1>3
  <2>3. \A u \in done' \ done : \A v \in Worker : u \notin Unbegun(v)'
    BY <1>2, <1>5
  <2> HIDE DEF t, l
  <2> QED
    BY <1>1, <1>2, <2>1, <2>2, <2>3, LanesGo
<1>7. LaneRunning'
  <2> SUFFICES ASSUME NEW m \in Lane, running'[m] # 0
               PROVE  /\ running'[m] \in 1 .. Len(lane) /\ lane[running'[m]] = m
                      /\ \E v \in Worker : Begun(v)' /\ worker'[v].task = running'[m]
    BY <1>1 DEF LaneRunning
  <2>1. m # l /\ running'[m] = running[m]
    BY <1>4
  <2>2. PICK v \in Worker : Begun(v) /\ worker[v].task = running[m] /\ lane[running[m]] = m
    BY <2>1 DEF LaneInv, LaneRunning
  <2>3. v # w
    BY <2>1, <2>2
  <2> QED
    BY <1>2, <2>1, <2>2, <2>3 DEF LaneInv, LaneRunning, Begun
<1>8. CancelledInLane'
  <2>1. DOMAIN lane = 1 .. Len(lane)
    BY LenProperties DEF LaneInv, CountInv, TypeOK
  <2>2. t \in DOMAIN lane \ InSystem'
    BY <1>3, <1>6, <2>1
  <2>3. \A v \in Worker : worker'[v].at = "run" /\ worker'[v].task \in done' =>
           \/ worker[v].at = "run" /\ worker'[v].task = worker[v].task /\ worker[v].task \in done
           \/ worker'[v].task \in revoked'
           \/ \E u \in DOMAIN lane \ InSystem' : lane[u] = lane[worker'[v].task]
    BY <1>2, <1>5, <2>2
  <2> QED
    BY <1>1, <1>6, <2>3, ReasonsStay
<1> QED
  BY <1>2, <1>6, <1>7, <1>8 DEF LaneInv

LEMMA TakeLanes == ASSUME LaneInv, CompactTake PROVE LaneInv'
<1>1. UNCHANGED lane /\ UNCHANGED running /\ UNCHANGED worker /\ UNCHANGED done /\ UNCHANGED revoked
  BY DEF CompactTake
<1>2. /\ CountInv'
      /\ \A v \in Worker : Unbegun(v)' \subseteq Unbegun(v)
      /\ \/ UNCHANGED laneWorker /\ \A v \in Worker : At(v)' = At(v)
         \/ \E t \in 1 .. Len(lane) :
              /\ laneWorker' = [laneWorker EXCEPT ![lane[t]] = Workers]
              /\ \A v \in Worker : At(v)' = At(v) \ {t}
  BY TakeCounts DEF LaneInv
<1>3. LaneRunning'
  BY <1>1 DEF LaneInv, LaneRunning, Begun
<1>4. Mapped' /\ NotYet' /\ InSystem' \subseteq InSystem
  <2>1. CASE UNCHANGED laneWorker /\ \A v \in Worker : At(v)' = At(v)
    BY <1>1, <1>2, <2>1, LanesStay
  <2>2. ASSUME NEW t \in 1 .. Len(lane), laneWorker' = [laneWorker EXCEPT ![lane[t]] = Workers],
               \A v \in Worker : At(v)' = At(v) \ {t}
        PROVE  Mapped' /\ NotYet' /\ InSystem' \subseteq InSystem
    <3> DEFINE gone == {t} \cap InSystem
    <3>1. \A v \in Worker : At(v)' = At(v) \ gone /\ Unbegun(v)' \subseteq Unbegun(v)
      BY <1>2, <2>2, SystemAt DEF LaneInv
    <3>2. \A m \in Lane : laneWorker'[m] # Workers =>
           /\ laneWorker'[m] = laneWorker[m]
           /\ \A u \in At(laneWorker[m]) \cap gone : lane[u] # m
      BY <2>2 DEF LaneInv, CountInv, TypeOK
    <3>3. gone \in SUBSET InSystem
      OBVIOUS
    <3> HIDE DEF gone
    <3> QED
      BY <1>1, <1>2, <3>1, <3>2, <3>3, LanesGo
  <2> QED
    BY <1>2, <2>1, <2>2
<1>5. CancelledInLane'
  BY <1>1, <1>4, ReasonsStay
<1> QED
  BY <1>2, <1>3, <1>4, <1>5 DEF LaneInv

LEMMA RefillLanes == ASSUME LaneInv, CompactRefill PROVE LaneInv'
<1>1. /\ UNCHANGED lane /\ UNCHANGED laneWorker /\ UNCHANGED running /\ UNCHANGED worker
      /\ UNCHANGED done /\ UNCHANGED revoked
  BY DEF CompactRefill
<1>2. CountInv' /\ \A v \in Worker : At(v)' = At(v) /\ Unbegun(v)' \subseteq Unbegun(v)
  BY RefillCounts DEF LaneInv
<1>3. Mapped' /\ NotYet' /\ InSystem' = InSystem
  BY <1>1, <1>2, LanesStay
<1>4. LaneRunning' /\ CancelledInLane'
  BY <1>1, <1>3, ReasonsStay DEF LaneInv, LaneRunning, Begun
<1> QED
  BY <1>2, <1>3, <1>4 DEF LaneInv

(* The task that arrives is new: no context of it is cancelled, and the     *)
(* worker it goes to has it.                                                *)
LEMMA EnqueueLanes == ASSUME LaneInv, NEW l \in Lane, Enqueue(l) PROVE LaneInv'
<1>1. /\ CountInv' /\ UNCHANGED running /\ UNCHANGED worker /\ UNCHANGED done /\ UNCHANGED revoked
      /\ \/ /\ UNCHANGED lane /\ UNCHANGED laneWorker
            /\ \A v \in Worker : At(v)' = At(v) /\ Unbegun(v)' \subseteq Unbegun(v)
         \/ \E w \in Worker : Arrived(l, w)
  BY EnqueueCounts DEF LaneInv
<1>2. CASE /\ UNCHANGED lane /\ UNCHANGED laneWorker
           /\ \A v \in Worker : At(v)' = At(v) /\ Unbegun(v)' \subseteq Unbegun(v)
  <2>1. Mapped' /\ NotYet' /\ InSystem' = InSystem
    BY <1>1, <1>2, LanesStay
  <2>2. LaneRunning' /\ CancelledInLane'
    BY <1>1, <1>2, <2>1, ReasonsStay DEF LaneInv, LaneRunning, Begun
  <2> QED
    BY <1>1, <2>1, <2>2 DEF LaneInv
<1>3. ASSUME NEW w \in Worker, Arrived(l, w) PROVE LaneInv'
  <2> DEFINE n == Len(lane) + 1
  <2>1. /\ Len(lane') = n /\ lane'[n] = l /\ \A t \in 1 .. Len(lane) : lane'[t] = lane[t]
        /\ laneWorker' = [laneWorker EXCEPT ![l] = w]
        /\ \A v \in Worker : At(v) \subseteq At(v)' /\ Unbegun(v)' \subseteq Unbegun(v) \cup {n}
                             /\ At(v)' \subseteq At(v) \cup {n}
        /\ n \in At(w)'
    BY <1>3 DEF Arrived
  <2>2. /\ n \notin done /\ 1 .. Len(lane) \subseteq 1 .. n /\ n \notin 1 .. Len(lane)
        /\ \A v \in Worker : At(v) \subseteq 1 .. Len(lane)
        /\ DOMAIN lane = 1 .. Len(lane) /\ DOMAIN lane' = 1 .. n
    <3>1. /\ lane \in Seq(Lane) /\ lane' \in Seq(Lane) /\ done \subseteq 0 .. Len(lane)
          /\ \A v \in Worker : At(v) \subseteq 1 .. Len(lane)
      BY <1>1 DEF LaneInv, CountInv, TypeOK, Placed
    <3>2. Len(lane) \in Nat /\ DOMAIN lane = 1 .. Len(lane) /\ DOMAIN lane' = 1 .. n
      BY <2>1, <3>1, LenProperties
    <3> QED
      BY <3>1, <3>2
  <2> HIDE DEF n
  <2>3. Mapped'
    <3> SUFFICES ASSUME NEW m \in Lane, laneWorker'[m] # Workers
                 PROVE  \E t \in At(laneWorker[m])' : lane'[t] = m
      BY DEF Mapped
    <3>1. CASE m = l
      <4>1. laneWorker'[m] = w
        BY <2>1, <3>1 DEF LaneInv, CountInv, TypeOK
      <4> QED
        BY <2>1, <3>1, <4>1
    <3>2. CASE m # l
      <4>1. PICK v \in Worker : v = laneWorker[m] /\ v = laneWorker'[m]
        BY <2>1, <3>2, WorkersAre DEF LaneInv, CountInv, TypeOK
      <4>2. \E t \in At(v) : lane[t] = m
        BY <4>1 DEF LaneInv, Mapped
      <4>3. \E t \in At(v)' : lane'[t] = m
        BY <2>1, <2>2, <4>2
      <4> QED
        BY <4>1, <4>3
    <3> QED
      BY <3>1, <3>2
  <2>4. LaneRunning'
    <3> SUFFICES ASSUME NEW m \in Lane, running[m] # 0
                 PROVE  /\ running[m] \in 1 .. n /\ lane'[running[m]] = m
                        /\ \E v \in Worker : Begun(v)' /\ worker'[v].task = running[m]
      BY <1>1, <2>1 DEF LaneRunning
    <3> QED
      BY <1>1, <2>1, <2>2 DEF LaneInv, LaneRunning, Begun
  <2>5. NotYet'
    BY <1>1, <2>1, <2>2 DEF LaneInv, NotYet
  <2>6. CancelledInLane'
    <3>1. \A t \in 1 .. Len(lane) : t \in InSystem' <=> t \in InSystem
      BY <1>1, <2>1, <2>2, SystemAt, SystemAtNext DEF LaneInv
    <3> SUFFICES ASSUME NEW v \in Worker, worker[v].at = "run", worker[v].task \in done,
                        worker[v].task \notin revoked
                 PROVE  \E t \in DOMAIN lane' \ InSystem' : lane'[t] = lane'[worker[v].task]
      BY <1>1 DEF CancelledInLane
    <3>2. PICK t \in DOMAIN lane \ InSystem : lane[t] = lane[worker[v].task]
      BY DEF LaneInv, CancelledInLane
    <3>3. worker[v].task \in 1 .. Len(lane)
      BY BegunApart DEF LaneInv
    <3> QED
      BY <2>1, <2>2, <3>1, <3>2, <3>3
  <2> QED
    BY <1>1, <2>3, <2>4, <2>5, <2>6 DEF LaneInv
<1> QED
  BY <1>1, <1>2, <1>3

LEMMA LaneInit == ASSUME Init PROVE LaneInv
<1>1. CountInv
  BY CountInit
<1>2. Mapped /\ LaneRunning /\ NotYet /\ CancelledInLane
  BY DEF Init, Mapped, LaneRunning, NotYet, CancelledInLane
<1> QED
  BY <1>1, <1>2 DEF LaneInv

LEMMA LaneNext == ASSUME LaneInv, [Next]_vars PROVE LaneInv'
<1>1. ASSUME NEW l \in Lane, Enqueue(l) PROVE LaneInv'
  BY <1>1, EnqueueLanes
<1>2. ASSUME NEW l \in Lane, RemoveLane(l) PROVE LaneInv'
  BY <1>2, RemoveLanes DEF RemoveLane
<1>3. ASSUME NEW s \in Session, RemoveSession(s) PROVE LaneInv'
  <2>1. \A lanes \in SUBSET Lane : {l \in lanes : laneWorker[l] # Workers} \in SUBSET Lane
    OBVIOUS
  <2> QED
    BY <1>3, <2>1, RemoveLanes DEF RemoveSession
<1>4. CASE CompactTake \/ CompactRefill
  BY <1>4, TakeLanes, RefillLanes
<1>5. ASSUME NEW w \in Worker,
             Receive(w) \/ BeginTask(w) \/ FinalizeLane(w) \/ Return(w) \/ FinishLane(w)
      PROVE  LaneInv'
  BY <1>5, ReceiveLanes, BeginLanes, FinalizeLanes, ReturnLanes, FinishLanes
<1>6. CASE UNCHANGED vars
  <2>1. CountInv'
    BY <1>6, CountNext DEF LaneInv
  <2>2. TypeOK' /\ UNCHANGED queues
    BY <1>6, <2>1 DEF CountInv, vars, queues
  <2>3. \A v \in Worker : At(v)' = At(v) /\ Unbegun(v)' \subseteq Unbegun(v)
    BY <1>6, <2>2, QuietCounts DEF LaneInv, vars
  <2>4. Mapped' /\ NotYet' /\ InSystem' = InSystem
    BY <1>6, <2>1, <2>3, LanesStay DEF vars
  <2>5. LaneRunning' /\ CancelledInLane'
    BY <1>6, <2>4, ReasonsStay DEF LaneInv, LaneRunning, Begun, vars
  <2> QED
    BY <2>1, <2>4, <2>5 DEF LaneInv
<1> QED
  BY <1>1, <1>2, <1>3, <1>4, <1>5, <1>6 DEF Next

LEMMA LanesAlways == Spec => []LaneInv
BY LaneInit, LaneNext, PTL DEF Spec

(* A lane that is mapped has a task at its worker, and a cancel function    *)
(* that is kept belongs to a task in some worker's hands: when the last     *)
(* task is gone, so are both (finishLane, compactWorkerLocked), and a lane  *)
(* that comes again is placed anew.                                         *)
THEOREM NothingLeftMapped == Spec => []QuietIsClean
<1>1. ASSUME LaneInv, InSystem = {}, NEW l \in Lane
      PROVE  laneWorker[l] = Workers /\ running[l] = 0
  <2>1. \A w \in Worker : At(w) = {} /\ ~Begun(w)
    BY <1>1, SystemAt, BegunApart DEF LaneInv, Begun
  <2>2. laneWorker[l] \in Worker \cup {Workers}
    BY <1>1, WorkersAre DEF LaneInv, CountInv, TypeOK
  <2> QED
    BY <1>1, <2>1, <2>2 DEF LaneInv, Mapped, LaneRunning
<1>2. LaneInv => QuietIsClean
  BY <1>1 DEF QuietIsClean
<1> QED
  BY <1>2, LanesAlways, PTL

(* Whatever tasks come, go and are removed, the cancel function that        *)
(* RemoveLane, RemoveSession or finishLane calls is that of a task of the   *)
(* lane at hand: the tasks of other lanes and sessions run on.              *)
THEOREM CancelledForAReason == Spec => []CancelledInLane
<1>1. LaneInv => CancelledInLane
  BY DEF LaneInv
<1> QED
  BY <1>1, LanesAlways, PTL

-----------------------------------------------------------------------------
(* The bisection of the MTU scan. *)

SearchType ==
  search \in [at : {"high", "low", "middle", "done"}, left : Int, right : Int, best : Int, top : Int]

(* Nothing is known yet; the whole range failed; or everything left of     *)
(* `left` that was tried passed, `best` last, and `right + 1` failed.      *)
Untried == search.at = "high" => search.left = Low /\ search.right = search.top

TopFailed == search.at = "low" =>
  /\ search.left = Low /\ search.right = search.top /\ Low < search.top
  /\ search.top \notin carries

Bracketed == search.at = "middle" =>
  /\ search.best = search.left - 1 /\ search.best \in passed
  /\ Low <= search.best /\ search.best <= search.right /\ search.right < search.top
  /\ search.right + 1 \notin carries

SearchInv ==
  /\ SearchType /\ passed \subseteq carries
  /\ Untried /\ TopFailed /\ Bracketed /\ SearchExact

-----------------------------------------------------------------------------
(* A search starts with the invariant, and one that gave up keeps it. *)
LEMMA Started == ASSUME Low \in Int, NEW top \in Int
                 PROVE  Fresh(top) \in [at : {"high", "low", "middle", "done"}, left : Int,
                                        right : Int, best : Int, top : Int]
BY DEF Fresh

(* A search that ends with a size that it may return keeps it too. *)
LEMMA EndWith ==
  ASSUME SearchInv, NEW b \in Int, search' = Result(b), carries' = carries,
         passed' \subseteq carries, b # 0 => b \in passed',
         ~stopped' => \A most \in Low .. search.top :
           carries \cap (Low .. search.top) = Low .. most => b = most
  PROVE  SearchInv'
<1>1. /\ search'.at = "done" /\ search'.best = b /\ search'.top = search.top
      /\ SearchType'
  BY DEF SearchInv, SearchType, Result
<1>2. QED
  BY <1>1 DEF SearchInv, Untried, TopFailed, Bracketed, SearchExact

(* The range is not empty, so the whole of it is tried first. *)
LEMMA HighKeeps == ASSUME Low \in Int, SearchInv, ProbeHigh PROVE SearchInv'
<1>1. /\ search.right \in Int /\ search.top \in Int /\ search.left = Low /\ search.right = search.top
      /\ Low <= search.top /\ carries' = carries
  BY DEF SearchInv, SearchType, Untried, ProbeHigh, Probe
<1>2. CASE search.right \in carries
  <2>1. search' = Result(search.right) /\ passed' = passed \cup {search.right}
    BY <1>2 DEF ProbeHigh, Probe
  <2>2. ASSUME NEW most \in Low .. search.top, carries \cap (Low .. search.top) = Low .. most
        PROVE  search.right = most
    <3>1. search.top \in Low .. most
      BY <1>1, <1>2, <2>2
    <3>2. QED BY <1>1, <3>1
  <2>3. QED
    BY <1>1, <1>2, <2>1, <2>2, EndWith DEF SearchInv
<1>3. CASE search.right \notin carries /\ search.left = search.right
  <2>1. search' = Result(0) /\ passed' = passed
    BY <1>3 DEF ProbeHigh, Probe
  <2>2. ASSUME NEW most \in Low .. search.top, carries \cap (Low .. search.top) = Low .. most
        PROVE  FALSE
    BY <1>1, <1>3, <2>2
  <2>3. QED
    BY <1>1, <2>1, <2>2, EndWith DEF SearchInv
<1>4. CASE search.right \notin carries /\ search.left # search.right
  <2>1. search' = [search EXCEPT !.at = "low"] /\ passed' = passed
    BY <1>4 DEF ProbeHigh, Probe
  <2>2. /\ search'.at = "low" /\ search'.left = search.left /\ search'.right = search.right
        /\ search'.top = search.top /\ SearchType'
    BY <2>1 DEF SearchInv, SearchType
  <2>3. QED
    BY <1>1, <1>4, <2>1, <2>2 DEF SearchInv, Untried, TopFailed, Bracketed, SearchExact
<1>5. QED BY <1>2, <1>3, <1>4

(* Then the smallest. *)
LEMMA LowKeeps == ASSUME Low \in Int, SearchInv, ProbeLow PROVE SearchInv'
<1>1. /\ search.left = Low /\ search.right = search.top /\ search.top \in Int
      /\ Low < search.top /\ search.top \notin carries /\ carries' = carries
  BY DEF SearchInv, SearchType, TopFailed, ProbeLow, Probe
<1>2. CASE search.left \in carries
  <2>1. /\ search' = [search EXCEPT !.at = "middle", !.left = @ + 1, !.right = @ - 1, !.best = search.left]
        /\ passed' = passed \cup {search.left}
    BY <1>2 DEF ProbeLow, Probe
  <2>2. /\ search'.at = "middle" /\ search'.left = Low + 1 /\ search'.right = search.top - 1
        /\ search'.best = Low /\ search'.top = search.top /\ SearchType'
    <3>1. search' = [at |-> "middle", left |-> Low + 1, right |-> search.top - 1, best |-> Low,
                     top |-> search.top]
      BY <1>1, <2>1 DEF SearchInv, SearchType
    <3>2. QED BY <1>1, <3>1 DEF SearchType
  <2>3. QED
    BY <1>1, <1>2, <2>1, <2>2 DEF SearchInv, Untried, TopFailed, Bracketed, SearchExact
<1>3. CASE search.left \notin carries
  <2>1. search' = Result(0) /\ passed' = passed
    BY <1>3 DEF ProbeLow, Probe
  <2>2. ASSUME NEW most \in Low .. search.top, carries \cap (Low .. search.top) = Low .. most
        PROVE  FALSE
    BY <1>1, <1>3, <2>2
  <2>3. QED
    BY <1>1, <2>1, <2>2, EndWith DEF SearchInv
<1>4. QED BY <1>2, <1>3

(* The bisection keeps its bracket. *)
LEMMA MiddleKeeps == ASSUME Low \in Int, SearchInv, ProbeMiddle PROVE SearchInv'
<1> DEFINE mid == (search.left + search.right) \div 2
<1>1. mid \in Int /\ search.left <= mid /\ mid <= search.right
  BY DEF SearchInv, SearchType, ProbeMiddle
<1> HIDE DEF mid
<1>2. CASE mid \in carries
  <2>1. /\ search' = [search EXCEPT !.best = mid, !.left = mid + 1]
        /\ passed' = passed \cup {mid} /\ carries' = carries
    BY <1>2 DEF ProbeMiddle, Probe, mid
  <2>2. /\ search'.at = "middle" /\ search'.left = mid + 1 /\ search'.right = search.right
        /\ search'.best = mid /\ search'.top = search.top /\ SearchType'
    <3>1. search' = [at |-> "middle", left |-> mid + 1, right |-> search.right, best |-> mid,
                     top |-> search.top]
      BY <1>1, <2>1 DEF ProbeMiddle, SearchInv, SearchType
    <3>2. QED BY <1>1, <3>1 DEF SearchInv, SearchType
  <2>3. Bracketed'
    BY <1>1, <1>2, <2>1, <2>2 DEF SearchInv, SearchType, Bracketed, ProbeMiddle
  <2>4. QED
    BY <1>2, <2>1, <2>2, <2>3 DEF SearchInv, Untried, TopFailed, SearchExact
<1>3. CASE mid \notin carries
  <2>1. search' = [search EXCEPT !.right = mid - 1] /\ passed' = passed /\ carries' = carries
    BY <1>3 DEF ProbeMiddle, Probe, mid
  <2>2. /\ search'.at = "middle" /\ search'.left = search.left /\ search'.right = mid - 1
        /\ search'.best = search.best /\ search'.top = search.top /\ SearchType'
    BY <1>1, <2>1 DEF ProbeMiddle, SearchInv, SearchType
  <2>3. Bracketed'
    BY <1>1, <1>3, <2>1, <2>2 DEF SearchInv, SearchType, Bracketed, ProbeMiddle
  <2>4. QED
    BY <2>1, <2>2, <2>3 DEF SearchInv, Untried, TopFailed, SearchExact
<1>4. QED BY <1>2, <1>3

(* When the bracket is empty, `best` is the last size that passes: if the  *)
(* sizes that pass are those up to `most`, then `most` is in the bracket.  *)
LEMMA EndKeeps == ASSUME Low \in Int, SearchInv, SearchEnds PROVE SearchInv'
<1>1. /\ search' = Result(search.best) /\ UNCHANGED <<carries, passed, stopped>>
      /\ search.best \in Int /\ search.best \in passed
  BY DEF SearchEnds, SearchInv, SearchType, Bracketed
<1>2. ASSUME NEW most \in Low .. search.top, carries \cap (Low .. search.top) = Low .. most
      PROVE  search.best = most
  <2>1. search.best \in carries /\ search.best \in Low .. search.top
    BY DEF SearchEnds, SearchInv, SearchType, Bracketed
  <2>2. search.right + 1 \in Low .. search.top /\ search.right + 1 \notin carries
    BY DEF SearchEnds, SearchInv, SearchType, Bracketed
  <2>3. search.best <= most
    BY <1>2, <2>1
  <2>4. most <= search.right
    BY <1>2, <2>2 DEF SearchInv, SearchType
  <2>5. QED
    BY <2>3, <2>4 DEF SearchEnds, SearchInv, SearchType, Bracketed
<1>3. QED
  BY <1>1, <1>2, EndWith DEF SearchInv

-----------------------------------------------------------------------------
(* One step of the scan keeps the invariant. *)
LEMMA StepKeeps == ASSUME Low \in Int, Tops \subseteq Int, SearchInv, [ScanNext]_scanVars
                   PROVE  SearchInv'
<1>1. CASE EmptyRange
  <2>1. /\ search' = Result(0) /\ UNCHANGED <<carries, passed>>
        /\ search.top < Low /\ search.top \in Int
    BY <1>1 DEF EmptyRange, SearchInv, SearchType, Untried
  <2>2. QED
    BY <2>1, EndWith DEF SearchInv
<1>2. CASE Cancel
  BY <1>2, EndWith DEF Cancel, SearchInv
<1>3. CASE UploadDone
  <2>1. CASE Accepted
    <3>1. PICK top \in Tops : search' = Fresh(top)
      BY <1>3, <2>1 DEF UploadDone
    <3>2. passed' = {} /\ search'.at = "high" /\ search'.left = Low /\ search'.right = search'.top
      BY <1>3, <2>1, <3>1 DEF UploadDone, Fresh
    <3>3. SearchType'
      BY <3>1, Started DEF SearchType
    <3>4. QED
      BY <3>2, <3>3 DEF SearchInv, Untried, TopFailed, Bracketed, SearchExact
  <2>2. CASE ~Accepted
    BY <1>3, <2>2 DEF UploadDone, SearchInv, SearchType, Untried, TopFailed, Bracketed, SearchExact
  <2>3. QED BY <2>1, <2>2
<1>4. CASE DownloadDone \/ Optimize \/ UNCHANGED scanVars
  BY <1>4 DEF DownloadDone, Optimize, Apply, scanVars, SearchInv, SearchType, Untried, TopFailed, Bracketed, SearchExact
<1>5. QED
  BY <1>1, <1>2, <1>3, <1>4, HighKeeps, LowKeeps, MiddleKeeps, EndKeeps DEF ScanNext

LEMMA SearchAlways == ASSUME Low \in Int, Tops \subseteq Int PROVE ScanSpec => []SearchInv
<1>1. ScanInit => SearchInv
  <2> SUFFICES ASSUME ScanInit PROVE SearchInv
    OBVIOUS
  <2>1. PICK top \in Tops : search = Fresh(top)
    BY DEF ScanInit
  <2>2. SearchType
    BY <2>1, Started DEF SearchType
  <2>3. QED
    BY <2>1, <2>2 DEF ScanInit, Fresh, SearchInv, Untried, TopFailed, Bracketed, SearchExact
<1>2. SearchInv /\ [ScanNext]_scanVars => SearchInv'
  BY StepKeeps
<1>3. QED
  BY <1>1, <1>2, PTL DEF ScanSpec

(* binarySearchMTU returns a size that it probed, and the largest that     *)
(* passes if all the smaller ones pass, for every range and every set of   *)
(* sizes that pass.                                                        *)
THEOREM BisectionExact == ASSUME Low \in Int, Tops \subseteq Int PROVE ScanSpec => []SearchExact
<1>1. SearchInv => SearchExact
  BY DEF SearchInv
<1>2. QED
  BY <1>1, SearchAlways, PTL

-----------------------------------------------------------------------------
(* The optimizer of the MTU scan: ranks by counting. *)
Sizes == [up : Nat, down : Nat, valid : BOOLEAN]
Field == {"up", "down"}

(* A finite set of numbers has a greatest one: the one with the fewest above it. *)
LEMMA GreatestOf ==
  ASSUME NEW D, D \subseteq Nat, D # {}, IsFiniteSet(D)
  PROVE  \E d \in D : \A e \in D : e <= d
<1> DEFINE Above(d) == {e \in D : e > d}
           Counts == {Cardinality(Above(d)) : d \in D}
<1>1. \A d \in D : IsFiniteSet(Above(d)) /\ Cardinality(Above(d)) \in Nat
  <2> TAKE d \in D
  <2>1. IsFiniteSet(Above(d))
    BY FS_Subset
  <2> QED
    BY <2>1, FS_CardinalityType
<1>2. Counts \subseteq Nat /\ Counts # {}
  <2> HIDE DEF Above
  <2> QED
    BY <1>1
<1>3. PICK n \in Counts : \A c \in Counts : n <= c
  <2> HIDE DEF Counts
  <2> QED
    BY <1>2, LeastOf
<1>4. PICK d \in D : n = Cardinality(Above(d))
  BY <1>3
<1>5. ASSUME NEW e \in D, ~ (e <= d) PROVE FALSE
  <2>1. Above(e) \subseteq Above(d) /\ e \in Above(d) /\ e \notin Above(e)
    <3>1. d \in Nat /\ e \in Nat /\ e > d /\ \A x \in D : x \in Nat
      BY <1>5
    <3>2. \A x \in D : x > e => x > d
      BY <3>1
    <3>3. e \in Above(d) /\ e \notin Above(e)
      BY <3>1
    <3>4. Above(e) \subseteq Above(d)
      BY <3>2
    <3> HIDE DEF Above
    <3> QED
      BY <3>3, <3>4
  <2> HIDE DEF Above
  <2>2. Cardinality(Above(d)) <= Cardinality(Above(e))
    BY <1>3, <1>4
  <2>3. /\ Cardinality(Above(e)) <= Cardinality(Above(d))
        /\ Cardinality(Above(d)) = Cardinality(Above(e)) => Above(d) = Above(e)
    BY <1>1, <2>1, FS_Subset
  <2> QED
    BY <1>1, <2>1, <2>2, <2>3
<1> QED
  BY <1>5

LEMMA MinOfSizes ==
  ASSUME NEW D, D \subseteq Nat, D # {}
  PROVE  Min(D) \in D /\ \A e \in D : Min(D) <= e
<1>1. \E d \in D : \A e \in D : d <= e
  BY LeastOf
<1> QED
  BY <1>1 DEF Min

(* The resolvers that carry something, and their sizes in a direction. *)
LEMMA ValidIs ==
  ASSUME found \in Seq(Sizes), NEW f \in Field
  PROVE  /\ IsFiniteSet(Valid) /\ Cardinality(Valid) \in Nat
         /\ \A r \in Valid : found[r][f] \in Nat /\ found[r].up \in Nat /\ found[r].down \in Nat
         /\ \A R \in SUBSET Valid : IsFiniteSet(R) /\ Cardinality(R) \in Nat
<1>1. Len(found) \in Nat /\ DOMAIN found = 1 .. Len(found) /\ \A r \in 1 .. Len(found) : found[r] \in Sizes
  BY LenProperties, ElementOfSeq
<1>2. IsFiniteSet(Valid)
  <2>1. IsFiniteSet(1 .. Len(found)) /\ Valid \subseteq 1 .. Len(found)
    BY <1>1, FS_Interval DEF Valid
  <2> QED
    BY <2>1, FS_Subset
<1>3. \A r \in Valid : found[r].up \in Nat /\ found[r].down \in Nat
  BY <1>1 DEF Valid, Sizes
<1>4. \A r \in Valid : found[r][f] \in Nat
  BY <1>3 DEF Field
<1>5. \A R \in SUBSET Valid : IsFiniteSet(R) /\ Cardinality(R) \in Nat
  BY <1>2, FS_Subset, FS_CardinalityType
<1> QED
  BY <1>2, <1>3, <1>4, <1>5

(* Every place of the sorted sizes is taken by a size: the least of which enough are *)
(* no greater. Fewer than that many are smaller, as the greatest of those would do.  *)
LEMMA SmallestIs ==
  ASSUME found \in Seq(Sizes), NEW f \in Field, NEW i \in Nat, 1 <= i, i <= Cardinality(Valid)
  PROVE  /\ Smallest(i, f) \in {found[r][f] : r \in Valid}
         /\ Cardinality({r \in Valid : found[r][f] < Smallest(i, f)}) < i
<1> DEFINE V == {found[r][f] : r \in Valid}
           Lower(v) == {r \in Valid : found[r][f] < v}
           UpTo(v) == {r \in Valid : found[r][f] <= v}
           D == {v \in V : Cardinality(UpTo(v)) >= i}
<1>1. /\ IsFiniteSet(Valid) /\ Cardinality(Valid) \in Nat
      /\ \A r \in Valid : found[r][f] \in Nat
      /\ \A R \in SUBSET Valid : IsFiniteSet(R) /\ Cardinality(R) \in Nat
  BY ValidIs
<1>2. V \subseteq Nat
  BY <1>1
<1>3. \A R \in SUBSET Valid : IsFiniteSet({found[r][f] : r \in R})
  <2> TAKE R \in SUBSET Valid
  <2> DEFINE g == [r \in R |-> found[r][f]]
             W == {found[r][f] : r \in R}
  <2>1. g \in Surjection(R, W)
    BY DEF Surjection
  <2>2. IsFiniteSet(R)
    BY <1>1
  <2> HIDE DEF g, W
  <2>3. IsFiniteSet(W)
    BY <2>1, <2>2, FS_Surjection
  <2> QED
    BY <2>3 DEF W
<1>4. D \subseteq Nat /\ D # {}
  <2>1. Valid # {}
    <3>1. ASSUME Valid = {} PROVE FALSE
      BY <3>1, FS_EmptySet
    <3> QED
      BY <3>1
  <2>2. V # {} /\ IsFiniteSet(V)
    BY <1>3, <2>1
  <2>3. PICK v \in V : \A w \in V : w <= v
    <3> HIDE DEF V
    <3> QED
      BY <1>2, <2>2, GreatestOf
  <2>4. UpTo(v) = Valid
    BY <2>3
  <2>5. v \in D
    <3> HIDE DEF UpTo
    <3> QED
      BY <1>1, <2>3, <2>4
  <2> HIDE DEF V, UpTo
  <2> QED
    BY <1>2, <2>5
<1>5. PICK v \in D : \A w \in D : v <= w
  <2> HIDE DEF D
  <2> QED
    BY <1>4, LeastOf
<1>6. v \in V /\ v \in Nat /\ Cardinality(UpTo(v)) >= i
  BY <1>2, <1>5
<1>7. Cardinality(Lower(v)) < i
  <2> SUFFICES ASSUME ~ (Cardinality(Lower(v)) < i) PROVE FALSE
    OBVIOUS
  <2>1. Lower(v) \in SUBSET Valid /\ Cardinality(Lower(v)) \in Nat
    BY <1>1
  <2> DEFINE W == {found[r][f] : r \in Lower(v)}
  <2>2. Lower(v) # {}
    <3> HIDE DEF Lower
    <3>1. ASSUME Lower(v) = {} PROVE FALSE
      <4>1. Cardinality(Lower(v)) = 0
        BY <3>1, FS_EmptySet
      <4> QED
        BY <4>1
    <3> QED
      BY <3>1
  <2>3. W # {} /\ IsFiniteSet(W) /\ W \subseteq Nat
    <3>1. \A r \in Lower(v) : found[r][f] \in Nat
      BY <1>1
    <3> HIDE DEF Lower
    <3> QED
      BY <1>3, <2>1, <2>2, <3>1
  <2>4. PICK w \in W : \A x \in W : x <= w
    <3> HIDE DEF W
    <3> QED
      BY <2>3, GreatestOf
  <2>5. w \in V /\ w < v
    BY <2>4
  <2>6. UpTo(w) = Lower(v)
    <3>1. \A r \in Valid : found[r][f] < v => found[r][f] <= w
      BY <2>4
    <3>2. \A r \in Valid : found[r][f] <= w => found[r][f] < v
      BY <1>1, <1>2, <1>6, <2>5
    <3> QED
      BY <3>1, <3>2
  <2>7. w \in D
    <3> HIDE DEF UpTo, Lower, V
    <3> QED
      BY <2>1, <2>5, <2>6
  <2> HIDE DEF D, W, Lower, UpTo
  <2> QED
    BY <1>2, <1>5, <1>6, <2>5, <2>7
<1>8. \E x \in V : Cardinality(Lower(x)) < i /\ Cardinality(UpTo(x)) >= i
  <2> HIDE DEF V, Lower, UpTo
  <2> QED
    BY <1>6, <1>7
<1>9. Smallest(i, f) = CHOOSE x \in V : Cardinality(Lower(x)) < i /\ Cardinality(UpTo(x)) >= i
  BY DEF Smallest
<1>10. Smallest(i, f) \in V /\ Cardinality(Lower(Smallest(i, f))) < i
  <2> HIDE DEF V, Lower, UpTo
  <2> QED
    BY <1>8, <1>9
<1> QED
  BY <1>10

(* Fewer may be dropped than there are, of five or more. *)
LEMMA LimitsAre ==
  ASSUME found \in Seq(Sizes)
  PROVE  /\ Limits.up \in Nat /\ Limits.down \in Nat /\ MaxDrops \in Nat
         /\ Cardinality(Valid) >= 5 => MaxDrops < Cardinality(Valid)
<1> DEFINE n == Cardinality(Valid)
<1>1. n \in Nat
  BY ValidIs DEF Field
<1>2. Limits.up \in Nat /\ Limits.down \in Nat /\ Limits.drop \in 20 .. 35
  <2> DEFINE Rows == [drop : 20 .. 35, tolerance : Nat, up : Nat, down : Nat]
             row(drop, up, down) == [drop |-> drop, tolerance |-> drop + 50, up |-> up, down |-> down]
  <2>1. Limits \in {row(35, 24, 64), row(30, 32, 96), row(28, 40, 96), row(27, 44, 104),
                    row(26, 46, 112), row(25, 48, 128), row(22, 56, 128), row(20, 64, 160)}
    <3> HIDE DEF row, n
    <3>1. Limits = CASE n > 1000 -> row(35, 24, 64)
                     [] n > 200 /\ n <= 1000 -> row(30, 32, 96)
                     [] n > 150 /\ n <= 200  -> row(28, 40, 96)
                     [] n > 100 /\ n <= 150  -> row(27, 44, 104)
                     [] n > 75 /\ n <= 100   -> row(26, 46, 112)
                     [] n > 50 /\ n <= 75    -> row(25, 48, 128)
                     [] n >= 25 /\ n <= 50   -> row(22, 56, 128)
                     [] OTHER -> row(20, 64, 160)
      BY DEF Limits, row, n
    <3> QED
      BY <3>1
  <2>2. /\ row(35, 24, 64) \in Rows /\ row(30, 32, 96) \in Rows
        /\ row(28, 40, 96) \in Rows /\ row(27, 44, 104) \in Rows
        /\ row(26, 46, 112) \in Rows /\ row(25, 48, 128) \in Rows
        /\ row(22, 56, 128) \in Rows /\ row(20, 64, 160) \in Rows
    OBVIOUS
  <2> HIDE DEF row, Rows
  <2>3. Limits \in Rows
    BY <2>1, <2>2
  <2> QED
    BY <2>3 DEF Rows
<1> DEFINE d == Limits.drop
<1>3. n * d \in Nat /\ n * d <= n * 35
  <2>1. \A x \in Nat, y \in 20 .. 35 : x * y \in Nat /\ x * y <= x * 35
    BY SMT
  <2> HIDE DEF n, d
  <2>2. d \in 20 .. 35
    BY <1>2 DEF d
  <2> QED
    BY <1>1, <2>1, <2>2
<1>4. MaxDrops = IF (n * d) \div 100 < 1 THEN 1 ELSE (n * d) \div 100
  BY DEF MaxDrops
<1> HIDE DEF n, d
<1>5. (n * d) \div 100 \in Nat /\ (n >= 5 => (n * d) \div 100 < n)
  <2> DEFINE x == n * d
  <2>1. x \in Nat /\ x <= n * 35
    BY <1>3
  <2> HIDE DEF x
  <2>2. x \div 100 \in Nat /\ (n >= 5 => x \div 100 < n)
    BY <1>1, <2>1
  <2> QED
    BY <2>2 DEF x
<1>6. MaxDrops \in Nat /\ (n >= 5 => MaxDrops < n)
  BY <1>1, <1>4, <1>5
<1> QED
  BY <1>2, <1>6 DEF n

(* One direction drops no more than may go. *)
LEMMA TargetIs ==
  ASSUME found \in Seq(Sizes), Cardinality(Valid) >= 5, NEW f \in Field
  PROVE  /\ Target(f) \in Nat /\ Drops(f) \in Nat
         /\ Cardinality({r \in Valid : found[r][f] < Target(f)}) <= MaxDrops
<1> DEFINE bad == {r \in Valid : found[r][f] * Unit < Outlier(f)}
           low == {r \in Valid : found[r][f] < Target(f)}
<1>1. /\ \A r \in Valid : found[r][f] \in Nat
      /\ \A R \in SUBSET Valid : IsFiniteSet(R) /\ Cardinality(R) \in Nat
      /\ Cardinality(Valid) \in Nat
  BY ValidIs
<1>2. MaxDrops \in Nat /\ MaxDrops < Cardinality(Valid)
  BY LimitsAre
<1>3. bad \in SUBSET Valid /\ low \in SUBSET Valid
  OBVIOUS
<1>4. Drops(f) = IF Cardinality(bad) > MaxDrops THEN MaxDrops ELSE Cardinality(bad)
  BY DEF Drops
<1> HIDE DEF bad
<1>5. Drops(f) \in Nat /\ Drops(f) <= MaxDrops
  BY <1>1, <1>2, <1>3, <1>4
<1>6. Drops(f) + 1 \in Nat /\ 1 <= Drops(f) + 1 /\ Drops(f) + 1 <= Cardinality(Valid)
  BY <1>1, <1>2, <1>5
<1>7. Target(f) \in {found[r][f] : r \in Valid} /\ Cardinality(low) < Drops(f) + 1
  BY <1>6, SmallestIs DEF Target
<1>8. Target(f) \in Nat
  BY <1>1, <1>7
<1> HIDE DEF low
<1>9. Cardinality(low) <= MaxDrops
  BY <1>1, <1>2, <1>3, <1>5, <1>7
<1> QED
  BY <1>5, <1>8, <1>9 DEF low

-----------------------------------------------------------------------------
(* What is kept: at most the share is dropped, and for a gain. *)
Pays(f, kept) ==
  LET gain == Least(kept, f) - Least(Valid, f) IN
  gain * Unit >= Limits[f] \/ 100 * gain >= 35 * Least(Valid, f)

LEMMA LeastIs ==
  ASSUME found \in Seq(Sizes), NEW f \in Field, NEW R \in SUBSET Valid, R # {}
  PROVE  Least(R, f) \in {found[r][f] : r \in R} /\ \A r \in R : found[r][f] >= Least(R, f)
<1> DEFINE D == {found[r][f] : r \in R}
<1>1. D \subseteq Nat /\ D # {}
  BY ValidIs
<1>2. Least(R, f) = Min(D)
  BY DEF Least
<1>3. \A r \in R : found[r][f] \in D
  OBVIOUS
<1> HIDE DEF D
<1>4. Min(D) \in D /\ \A e \in D : Min(D) <= e
  BY <1>1, MinOfSizes
<1> QED
  BY <1>1, <1>2, <1>3, <1>4 DEF D

LEMMA ChosenDropFew ==
  ASSUME found \in Seq(Sizes), Cardinality(Valid) >= 5
  PROVE  /\ Chosen \subseteq {f \in Field : WorthIt(f)}
         /\ Cardinality(Below(Chosen)) <= MaxDrops
<1> DEFINE worth == {f \in Field : WorthIt(f)}
           upGainsMore == Gain("up") * Least(Valid, "down") >= Gain("down") * Least(Valid, "up")
<1>1. Chosen = IF Cardinality(Below(worth)) <= MaxDrops THEN worth
               ELSE worth \ {IF upGainsMore THEN "down" ELSE "up"}
  BY DEF Chosen, Field
<1> HIDE DEF upGainsMore
<1>2. CASE Cardinality(Below(worth)) <= MaxDrops
  BY <1>1, <1>2
<1>3. CASE ~ (Cardinality(Below(worth)) <= MaxDrops)
  <2>1. PICK f \in Field : Chosen \subseteq {f} /\ Chosen \subseteq worth
    BY <1>1, <1>3 DEF Field
  <2>2. Below(Chosen) \subseteq {r \in Valid : found[r][f] < Target(f)}
    BY <2>1 DEF Below
  <2> DEFINE low == {r \in Valid : found[r][f] < Target(f)}
  <2>3. Cardinality(low) <= MaxDrops /\ MaxDrops \in Nat /\ low \in SUBSET Valid
    BY TargetIs, LimitsAre
  <2> HIDE DEF low
  <2>4. IsFiniteSet(low) /\ Cardinality(low) \in Nat
    BY <2>3, ValidIs DEF Field
  <2>5. /\ Cardinality(Below(Chosen)) <= Cardinality(low)
        /\ IsFiniteSet(Below(Chosen)) /\ Cardinality(Below(Chosen)) \in Nat
    BY <2>2, <2>4, FS_Subset, FS_CardinalityType DEF low
  <2> QED
    BY <2>1, <2>3, <2>4, <2>5
<1> QED
  BY <1>2, <1>3

LEMMA KeptPays ==
  ASSUME found \in Seq(Sizes), NEW kept, kept = Kept \/ kept = Valid, kept # {}
  PROVE  /\ kept \subseteq Valid /\ Cardinality(Valid \ kept) <= MaxDrops
         /\ \A r \in kept : found[r].up >= Least(kept, "up") /\ found[r].down >= Least(kept, "down")
         /\ Valid \ kept # {} => \E f \in Field : Pays(f, kept)
<1>1. kept \subseteq Valid
  BY DEF Kept
<1>2. \A r \in kept : found[r].up >= Least(kept, "up") /\ found[r].down >= Least(kept, "down")
  <2>1. "up" \in Field /\ "down" \in Field
    BY DEF Field
  <2> QED
    BY <1>1, <2>1, LeastIs
<1>3. CASE Valid \ kept = {}
  <2>1. Cardinality(Valid \ kept) = 0 /\ MaxDrops \in Nat
    BY <1>3, FS_EmptySet, LimitsAre
  <2> QED
    BY <1>1, <1>2, <1>3, <2>1
<1>4. CASE Valid \ kept # {}
  <2>1. kept = Valid \ Below(Chosen) /\ ~ (Cardinality(Valid) < 5)
    BY <1>4 DEF Kept
  <2>2. Cardinality(Valid) >= 5 /\ Below(Chosen) \subseteq Valid
    BY <2>1, ValidIs DEF Field, Below
  <2>3. /\ Chosen \subseteq {f \in Field : WorthIt(f)}
        /\ Cardinality(Below(Chosen)) <= MaxDrops
    BY <2>2, ChosenDropFew
  <2>4. Valid \ kept = Below(Chosen)
    BY <2>1, <2>2
  <2>5. PICK f \in Chosen : f \in Field /\ WorthIt(f)
    BY <1>4, <2>3, <2>4 DEF Below
  <2>6. \A r \in kept : ~ (found[r][f] < Target(f))
    BY <1>1, <2>1 DEF Below
  <2> DEFINE least == Least(kept, f)
             before == Least(Valid, f)
             target == Target(f)
  <2>7. least \in Nat /\ before \in Nat /\ target \in Nat /\ least >= target
    <3>1. \A r \in Valid : found[r][f] \in Nat
      BY <2>5, ValidIs
    <3>2. least \in {found[r][f] : r \in kept}
      BY <1>1, <2>5, LeastIs
    <3>3. before \in {found[r][f] : r \in Valid}
      BY <1>4, <2>5, LeastIs
    <3>4. target \in Nat
      BY <2>2, <2>5, TargetIs
    <3> HIDE DEF least, before, target
    <3>5. least \in Nat /\ before \in Nat
      BY <1>1, <3>1, <3>2, <3>3
    <3>6. least >= target
      BY <1>1, <2>6, <3>1, <3>2, <3>4 DEF target
    <3> QED
      BY <3>4, <3>5, <3>6
  <2>8. Pays(f, kept)
    <3>1. (target - before) * Unit >= Limits[f] \/ 100 * (target - before) >= 35 * before
      BY <2>5 DEF WorthIt, Gain
    <3>2. Limits[f] \in Nat
      BY <2>5, LimitsAre DEF Field
    <3> DEFINE limit == Limits[f]
    <3>3. /\ Unit \in Nat /\ target - before \in Int /\ least - before \in Int
          /\ least - before >= target - before
      BY <2>7, ScanAssumption
    <3> HIDE DEF least, before, target, limit
    <3>4. (least - before) * Unit >= (target - before) * Unit
      <4>1. \A x, y \in Int, z \in Nat : x >= y => x * z >= y * z
        BY SMT
      <4> QED
        BY <3>3, <4>1
    <3>5. (least - before) * Unit \in Int /\ (target - before) * Unit \in Int
      <4>1. \A x \in Int, z \in Nat : x * z \in Int
        OBVIOUS
      <4> QED
        BY <3>3, <4>1
    <3>6. (least - before) * Unit >= limit \/ 100 * (least - before) >= 35 * before
      <4>1. CASE (target - before) * Unit >= limit
        <5> DEFINE a == (least - before) * Unit
                   b == (target - before) * Unit
        <5>1. a \in Int /\ b \in Int /\ a >= b /\ b >= limit /\ limit \in Nat
          BY <3>2, <3>4, <3>5, <4>1 DEF limit
        <5> HIDE DEF a, b
        <5>2. a >= limit
          BY <5>1
        <5> QED
          BY <5>2 DEF a
      <4>2. CASE 100 * (target - before) >= 35 * before
        BY <2>7, <4>2
      <4> QED
        BY <3>1, <4>1, <4>2 DEF limit
    <3> QED
      BY <3>6 DEF Pays, least, before, limit
  <2> QED
    BY <1>1, <1>2, <2>3, <2>4, <2>5, <2>8
<1> QED
  BY <1>3, <1>4

-----------------------------------------------------------------------------
(* What was scanned does not change any more when it is judged. *)
FoundType ==
  /\ found \in Seq(Sizes)
  /\ direction = "down" => found # <<>>
  /\ synced # NoSync => direction = "scanned"

DropsInv == SearchInv /\ FoundType /\ DropsPay

LEMMA NotSynced == NoSync.at # "synced"
  BY DEF NoSync

LEMMA OptimizeKeeps ==
  ASSUME FoundType, NEW kept, kept = Kept \/ kept = Valid, Apply(kept)
  PROVE  FoundType' /\ DropsPay'
<1>1. /\ direction = "scanned" /\ direction' = direction /\ found' = found
      /\ synced' = [at |-> IF kept = {} THEN "failed" ELSE "synced",
                    up |-> Least(kept, "up"), down |-> Least(kept, "down"), kept |-> kept]
  BY DEF Apply
<1>2. FoundType'
  BY <1>1 DEF FoundType
<1>3. Valid' = Valid /\ MaxDrops' = MaxDrops /\ Limits' = Limits
      /\ \A f : Least(Valid, f)' = Least(Valid, f)
  BY <1>1 DEF Valid, MaxDrops, Limits, Least
<1>4. CASE kept = {}
  BY <1>1, <1>2, <1>4 DEF DropsPay
<1>5. CASE kept # {}
  <2>1. /\ kept \subseteq Valid /\ Cardinality(Valid \ kept) <= MaxDrops
        /\ \A r \in kept : found[r].up >= Least(kept, "up") /\ found[r].down >= Least(kept, "down")
        /\ Valid \ kept # {} => \E f \in Field : Pays(f, kept)
    BY <1>5, KeptPays DEF FoundType
  <2>2. /\ synced'.kept = kept /\ synced'.up = Least(kept, "up") /\ synced'.down = Least(kept, "down")
        /\ \A f \in Field : synced'[f] = Least(kept, f)
    BY <1>1 DEF Field
  <2>3. Valid \ kept # {} => \E f \in {"up", "down"} :
          LET gain == synced'[f] - Least(Valid, f)' IN
          gain * Unit >= Limits'[f] \/ 100 * gain >= 35 * Least(Valid, f)'
    BY <1>3, <2>1, <2>2 DEF Pays, Field
  <2> QED
    BY <1>1, <1>2, <1>3, <1>5, <2>1, <2>2, <2>3 DEF DropsPay
<1> QED
  BY <1>4, <1>5

LEMMA ScanKeeps ==
  ASSUME DropsInv, [ScanNext]_scanVars PROVE FoundType' /\ DropsPay'
<1> USE DEF DropsInv
<1>1. search.best \in Int /\ found \in Seq(Sizes) /\ Low \in Nat
  BY ScanAssumption DEF SearchInv, SearchType, FoundType
<1>2. (IF Accepted THEN search.best ELSE 0) \in Nat
  BY <1>1 DEF Accepted
<1>3. CASE UNCHANGED <<direction, found, synced>>
  <2>1. Valid' = Valid /\ MaxDrops' = MaxDrops /\ Limits' = Limits
        /\ \A f : Least(Valid, f)' = Least(Valid, f)
    BY <1>3 DEF Valid, MaxDrops, Limits, Least
  <2> QED
    BY <1>3, <2>1 DEF FoundType, DropsPay
<1>4. CASE UploadDone
  <2> DEFINE e == [up |-> IF Accepted THEN search.best ELSE 0, down |-> 0, valid |-> FALSE]
  <2>1. e \in Sizes
    BY <1>2 DEF Sizes
  <2>2. found' = Append(found, e) /\ synced' = synced /\ direction = "up"
    BY <1>4 DEF UploadDone
  <2> HIDE DEF e
  <2>3. found' \in Seq(Sizes) /\ found' # <<>>
    BY <1>1, <2>1, <2>2, AppendProperties
  <2>4. synced' = NoSync
    BY <2>2 DEF FoundType
  <2> QED
    BY <2>3, <2>4, NotSynced DEF FoundType, DropsPay
<1>5. CASE DownloadDone
  <2> DEFINE n == Len(found)
             e == [found[n] EXCEPT !.down = IF Accepted THEN search.best ELSE 0, !.valid = Accepted]
  <2>1. direction = "down" /\ synced' = synced /\ direction' = "scanned" /\ found # <<>>
    BY <1>5 DEF DownloadDone, FoundType
  <2>2. n \in 1 .. Len(found) /\ found[n] \in Sizes
    BY <1>1, <2>1, EmptySeq, LenProperties, ElementOfSeq
  <2>3. Accepted \in BOOLEAN
    BY DEF Accepted
  <2>4. e \in Sizes
    BY <1>2, <2>2, <2>3 DEF Sizes
  <2>5. found' = [found EXCEPT ![n] = e]
    BY <1>5 DEF DownloadDone
  <2> HIDE DEF n, e
  <2>6. found' \in Seq(Sizes)
    BY <1>1, <2>2, <2>4, <2>5, ExceptSeq
  <2>7. synced' = NoSync
    BY <2>1 DEF FoundType
  <2> QED
    BY <2>1, <2>6, <2>7, NotSynced DEF FoundType, DropsPay
<1>6. CASE Optimize
  BY <1>6, OptimizeKeeps DEF Optimize
<1>7. QED
  BY <1>3, <1>4, <1>5, <1>6
     DEF ScanNext, ProbeHigh, ProbeLow, ProbeMiddle, SearchEnds, EmptyRange, Cancel, Probe, scanVars

(* For every set of resolvers that were scanned: the optimizer drops at most its share *)
(* and never all, what is kept carries the sizes it sets, and if it drops anything a   *)
(* direction gains the bytes or the third that are worth it.                           *)
THEOREM OptimizerPays == ScanSpec => []DropsPay
<1>1. Low \in Int /\ Tops \subseteq Int
  BY ScanAssumption
<1>2. ScanInit => FoundType /\ DropsPay
  <2>1. ASSUME ScanInit PROVE FoundType
    BY <2>1, ScanAssumption DEF ScanInit, FoundType, Sizes
  <2>2. ASSUME ScanInit PROVE DropsPay
    BY <2>2, NotSynced DEF ScanInit, DropsPay
  <2> QED
    BY <2>1, <2>2
<1>3. SearchInv /\ FoundType /\ DropsPay /\ [ScanNext]_scanVars => FoundType' /\ DropsPay'
  BY ScanKeeps DEF DropsInv
<1> QED
  BY <1>1, <1>2, <1>3, SearchAlways, PTL DEF ScanSpec

-----------------------------------------------------------------------------
(* The tasks that answer DNS queries. *)

Status == {"none", "queued", "dropped", "answers", "follows", "asks", "resolved", "fails", "late", "done"}

Task == [st : Status, on : Query \cup {None}, launched : Int, received : Int, hedged : BOOLEAN,
         entry : {"open", "value", "empty"}, runs : Nat]

JobType == /\ topic \in [Query -> Topic] /\ flight \in [Topic -> Query \cup {None}]
           /\ job \in [Query -> Task]

(* A query that was worked on is remembered, or never comes again. *)
RunsKnown == \A n \in Query :
  /\ job[n].runs <= 1
  /\ n \notin whole => job[n].runs = 0 \/ \A f \in 1 .. Parts[n] : <<n, f>> \notin sent

(* The in-flight manager holds exactly the lookups that run, by question,  *)
(* and their entries are open.                                             *)
FlightExact ==
  /\ \A n \in Query : job[n].st = "asks" => flight[topic[n]] = n
  /\ \A t \in Topic : flight[t] # None =>
       /\ job[flight[t]].st = "asks" /\ topic[flight[t]] = t
       /\ job[flight[t]].entry = "open"

(* A follower waits for a lookup, and for an open entry only as long as    *)
(* its lookup runs.                                                        *)
FollowersLead == \A n \in Query : job[n].st = "follows" =>
  /\ job[n].on \in Query
  /\ job[job[n].on].entry = "open" => job[job[n].on].st = "asks"

(* Whoever starts a lookup has an open entry for it, and has asked nobody. *)
QueuedOpen == \A n \in Query : job[n].st = "queued" =>
  job[n].entry = "open" /\ job[n].received = 0 /\ ~job[n].hedged

(* Until the others are launched the first server has not failed, and no   *)
(* more results come than queries were launched.                           *)
Asking(j) == IF j.hedged THEN j.launched = Upstreams /\ j.received <= Upstreams
                         ELSE j.launched = 1 /\ j.received = 0

LoopExact == \A n \in Query : job[n].st = "asks" => Asking(job[n])

TasksInv == /\ JobType /\ RunsKnown /\ QueuedOpen /\ FlightExact /\ FollowersLead
            /\ LoopExact /\ FailsAfterAll

Assumed == None \notin Query /\ Upstreams \in Nat \ {0}

-----------------------------------------------------------------------------
LEMMA InvImplies == ASSUME Assumed, TasksInv PROVE WorkedOnce /\ SharedLookup /\ FailsAfterAll
<1>1. WorkedOnce /\ FailsAfterAll
  BY DEF TasksInv, RunsKnown, WorkedOnce
<1>2. ASSUME NEW m \in Query, NEW n \in Query, m # n, job[m].st = "asks", job[n].st = "asks"
      PROVE  topic[m] # topic[n]
  BY <1>2 DEF TasksInv, FlightExact
<1>3. ASSUME NEW n \in Query, job[n].st = "follows", job[job[n].on].entry = "open"
      PROVE  job[job[n].on].st = "asks"
  BY <1>3 DEF TasksInv, FollowersLead
<1>4. QED
  BY <1>1, <1>2, <1>3 DEF SharedLookup

(* One field of a task is set. *)
LEMMA SetStatus ==
  ASSUME NEW j \in Task, NEW s \in Status
  PROVE  /\ [j EXCEPT !.st = s] \in Task
         /\ [j EXCEPT !.st = s].st = s
         /\ [j EXCEPT !.st = s].on = j.on
         /\ [j EXCEPT !.st = s].launched = j.launched
         /\ [j EXCEPT !.st = s].received = j.received
         /\ [j EXCEPT !.st = s].hedged = j.hedged
         /\ [j EXCEPT !.st = s].entry = j.entry
         /\ [j EXCEPT !.st = s].runs = j.runs
BY DEF Task

LEMMA SetLaunched ==
  ASSUME NEW j \in Task, NEW k \in Int
  PROVE  /\ [j EXCEPT !.launched = k] \in Task
         /\ [j EXCEPT !.launched = k].st = j.st
         /\ [j EXCEPT !.launched = k].on = j.on
         /\ [j EXCEPT !.launched = k].launched = k
         /\ [j EXCEPT !.launched = k].received = j.received
         /\ [j EXCEPT !.launched = k].hedged = j.hedged
         /\ [j EXCEPT !.launched = k].entry = j.entry
         /\ [j EXCEPT !.launched = k].runs = j.runs
BY DEF Task

LEMMA SetReceived ==
  ASSUME NEW j \in Task, NEW k \in Int
  PROVE  /\ [j EXCEPT !.received = k] \in Task
         /\ [j EXCEPT !.received = k].st = j.st
         /\ [j EXCEPT !.received = k].on = j.on
         /\ [j EXCEPT !.received = k].launched = j.launched
         /\ [j EXCEPT !.received = k].received = k
         /\ [j EXCEPT !.received = k].hedged = j.hedged
         /\ [j EXCEPT !.received = k].entry = j.entry
         /\ [j EXCEPT !.received = k].runs = j.runs
BY DEF Task

LEMMA SetHedged ==
  ASSUME NEW j \in Task, NEW h \in BOOLEAN
  PROVE  /\ [j EXCEPT !.hedged = h] \in Task
         /\ [j EXCEPT !.hedged = h].st = j.st
         /\ [j EXCEPT !.hedged = h].on = j.on
         /\ [j EXCEPT !.hedged = h].launched = j.launched
         /\ [j EXCEPT !.hedged = h].received = j.received
         /\ [j EXCEPT !.hedged = h].hedged = h
         /\ [j EXCEPT !.hedged = h].entry = j.entry
         /\ [j EXCEPT !.hedged = h].runs = j.runs
BY DEF Task

LEMMA SetRuns ==
  ASSUME NEW j \in Task, NEW k \in Nat
  PROVE  /\ [j EXCEPT !.runs = k] \in Task
         /\ [j EXCEPT !.runs = k].st = j.st
         /\ [j EXCEPT !.runs = k].on = j.on
         /\ [j EXCEPT !.runs = k].launched = j.launched
         /\ [j EXCEPT !.runs = k].received = j.received
         /\ [j EXCEPT !.runs = k].hedged = j.hedged
         /\ [j EXCEPT !.runs = k].entry = j.entry
         /\ [j EXCEPT !.runs = k].runs = k
BY DEF Task

LEMMA SetEntry ==
  ASSUME NEW j \in Task, NEW e \in {"open", "value", "empty"}
  PROVE  /\ [j EXCEPT !.entry = e] \in Task
         /\ [j EXCEPT !.entry = e].st = j.st
         /\ [j EXCEPT !.entry = e].on = j.on
         /\ [j EXCEPT !.entry = e].launched = j.launched
         /\ [j EXCEPT !.entry = e].received = j.received
         /\ [j EXCEPT !.entry = e].hedged = j.hedged
         /\ [j EXCEPT !.entry = e].entry = e
         /\ [j EXCEPT !.entry = e].runs = j.runs
BY DEF Task

(* Steps that leave the tasks and the in-flight manager alone, and neither *)
(* forget a query nor let one come again.                                  *)
LEMMA IdleKeeps ==
  ASSUME TasksInv, UNCHANGED <<topic, job, flight>>, whole \subseteq whole', sent' \subseteq sent
  PROVE  TasksInv'
<1>1. JobType' /\ QueuedOpen' /\ FlightExact' /\ FollowersLead'
  BY DEF TasksInv, JobType, QueuedOpen, FlightExact, FollowersLead
<1>2. LoopExact' /\ FailsAfterAll'
  BY DEF TasksInv, LoopExact, Asking, FailsAfterAll
<1>3. RunsKnown'
  BY DEF TasksInv, RunsKnown
<1>4. QED
  BY <1>1, <1>2, <1>3 DEF TasksInv

(* A query that becomes whole was not worked on, and nobody follows the    *)
(* task that it starts.                                                    *)
LEMMA ReceiveKeeps ==
  ASSUME Assumed, TasksInv, NEW n \in Query, NEW f \in 1 .. Parts[n], ReceiveQuery(n, f)
  PROVE  TasksInv'
<1>1. UNCHANGED <<topic, sent, flight>>
  BY DEF ReceiveQuery
<1>2. CASE UNCHANGED job
  BY <1>1, <1>2, IdleKeeps DEF ReceiveQuery, Remembered
<1>3. CASE ~UNCHANGED job
  <2> DEFINE fresh == [NoJob EXCEPT !.st = "queued", !.runs = job[n].runs + 1]
  <2>1. /\ job' = [job EXCEPT ![n] = fresh] /\ whole' = whole \cup {n} /\ n \notin whole
        /\ <<n, f>> \in sent
        /\ job[n].st \in {"none", "done", "dropped"}
        /\ \A m \in Query : job[m].st = "follows" => job[m].on # n
    BY <1>3 DEF ReceiveQuery, Queue, Remembered
  <2>2. job[n].runs = 0
    BY <2>1 DEF TasksInv, RunsKnown
  <2>3. /\ fresh \in Task /\ fresh.st = "queued" /\ fresh.entry = "open" /\ fresh.runs = 1
        /\ fresh.received = 0 /\ ~fresh.hedged
    <3> DEFINE queued == [NoJob EXCEPT !.st = "queued"]
    <3>1. /\ NoJob \in Task /\ "queued" \in Status
          /\ NoJob.entry = "open" /\ NoJob.received = 0 /\ ~NoJob.hedged
      BY DEF NoJob, Task, Status
    <3>2. /\ queued \in Task /\ queued.st = "queued" /\ queued.entry = "open"
          /\ queued.received = 0 /\ ~queued.hedged
      BY <3>1, SetStatus
    <3>3. fresh = [queued EXCEPT !.runs = 1]
      BY <2>2
    <3> HIDE DEF queued, fresh
    <3>4. QED
      BY <3>2, <3>3, SetRuns
  <2> HIDE DEF fresh
  <2>4. JobType'
    BY <1>1, <2>1, <2>3 DEF TasksInv, JobType
  <2>5. RunsKnown'
    BY <1>1, <2>1, <2>3 DEF TasksInv, JobType, RunsKnown
  <2>6. FlightExact'
    BY <1>1, <2>1, <2>3 DEF TasksInv, JobType, FlightExact
  <2>7. FollowersLead'
    BY <2>1, <2>3 DEF TasksInv, JobType, FollowersLead
  <2>8. LoopExact' /\ FailsAfterAll'
    BY <2>1, <2>3 DEF TasksInv, JobType, LoopExact, Asking, FailsAfterAll
  <2>9. QueuedOpen'
    BY <2>1, <2>3 DEF TasksInv, JobType, QueuedOpen
  <2>10. QED
    BY <2>4, <2>5, <2>6, <2>7, <2>8, <2>9 DEF TasksInv
<1>4. QED BY <1>2, <1>3

(* A record expires together with what it counted. *)
LEMMA PurgeKeeps == ASSUME TasksInv, NEW n \in Query, Purge(n) PROVE TasksInv'
<1>1. UNCHANGED <<topic, sent, flight>>
  BY DEF Purge
<1>2. CASE UNCHANGED job /\ UNCHANGED whole
  BY <1>1, <1>2, IdleKeeps
<1>3. CASE job' = [job EXCEPT ![n].runs = 0] /\ whole' = whole \ {n}
  <2>1. JobType'
    BY <1>1, <1>3 DEF TasksInv, JobType, Task
  <2>2. RunsKnown'
    BY <1>1, <1>3 DEF TasksInv, JobType, RunsKnown
  <2>3. \A m \in Query : /\ job'[m].st = job[m].st /\ job'[m].entry = job[m].entry
                         /\ job'[m].on = job[m].on
                         /\ job'[m].launched = job[m].launched
                         /\ job'[m].received = job[m].received
                         /\ job'[m].hedged = job[m].hedged
    BY <1>3 DEF TasksInv, JobType, Task
  <2>4. FlightExact'
    BY <1>1, <2>3 DEF TasksInv, JobType, FlightExact
  <2>5. QueuedOpen' /\ FollowersLead' /\ LoopExact' /\ FailsAfterAll'
    BY <2>3 DEF TasksInv, QueuedOpen, FollowersLead, LoopExact, Asking, FailsAfterAll
  <2>6. QED
    BY <2>1, <2>2, <2>4, <2>5 DEF TasksInv
<1>4. QED BY <1>2, <1>3 DEF Purge

(* After the end of the session nothing arrives. *)
LEMMA SessionEndKeeps == ASSUME TasksInv, EndSession PROVE TasksInv'
<1>1. /\ UNCHANGED <<topic, flight>> /\ sent' = {}
      /\ job' = [n \in Query |-> IF job[n].st = "queued" THEN [job[n] EXCEPT !.st = "dropped"]
                                 ELSE job[n]]
  BY DEF EndSession
<1>2. \A m \in Query : /\ job'[m] \in Task
                       /\ job'[m].st = job[m].st \/ (job[m].st = "queued" /\ job'[m].st = "dropped")
                       /\ job'[m].entry = job[m].entry /\ job'[m].runs = job[m].runs
                       /\ job'[m].on = job[m].on
                       /\ job'[m].launched = job[m].launched
                       /\ job'[m].received = job[m].received
                       /\ job'[m].hedged = job[m].hedged
  BY <1>1 DEF TasksInv, JobType, Task, Status
<1>3. JobType'
  BY <1>1, <1>2 DEF TasksInv, JobType
<1>4. RunsKnown'
  BY <1>1, <1>2 DEF TasksInv, RunsKnown
<1>5. FlightExact'
  BY <1>1, <1>2 DEF TasksInv, JobType, FlightExact
<1>6. QueuedOpen' /\ FollowersLead' /\ LoopExact' /\ FailsAfterAll'
  BY <1>2 DEF TasksInv, QueuedOpen, FollowersLead, LoopExact, Asking, FailsAfterAll
<1>7. QED
  BY <1>3, <1>4, <1>5, <1>6 DEF TasksInv

-----------------------------------------------------------------------------
(* One task changes, which is neither queued again nor ends a lookup: what *)
(* has to be shown of the new state of the task.                           *)
LEMMA TaskKeeps ==
  ASSUME TasksInv, NEW n \in Query, NEW j \in Task, job' = [job EXCEPT ![n] = j],
         UNCHANGED <<topic, sent, whole, flight>>, j.runs = job[n].runs,
         j.entry = job[n].entry, j.st # "queued", j.st # "asks", job[n].st # "asks",
         j.st = "follows" => j.on \in Query \ {n} /\ job[j.on].st = "asks",
         j.st = "fails" => j.received = Upstreams
  PROVE  TasksInv'
<1>1. JobType'
  BY DEF TasksInv, JobType
<1>2. RunsKnown'
  BY DEF TasksInv, JobType, RunsKnown
<1>3. FlightExact'
  BY DEF TasksInv, JobType, FlightExact
<1>4. FollowersLead'
  <2>1. /\ job'[n] = j
        /\ \A m \in Query \ {n} : job'[m] = job[m]
    BY DEF TasksInv, JobType
  <2>2. ASSUME NEW m \in Query, job'[m].st = "follows"
        PROVE  job'[m].on \in Query /\ (job'[job'[m].on].entry = "open" => job'[job'[m].on].st = "asks")
    <3>1. CASE m = n
      BY <2>1, <2>2, <3>1
    <3>2. CASE m # n /\ job[m].on = n
      BY <2>1, <2>2, <3>2 DEF TasksInv, FollowersLead
    <3>3. CASE m # n /\ job[m].on # n
      BY <2>1, <2>2, <3>3 DEF TasksInv, FollowersLead
    <3>4. QED BY <3>1, <3>2, <3>3
  <2>3. QED BY <2>2 DEF FollowersLead
<1>5. LoopExact' /\ FailsAfterAll'
  BY DEF TasksInv, JobType, LoopExact, FailsAfterAll
<1>6. QueuedOpen'
  BY DEF TasksInv, JobType, QueuedOpen
<1>7. QED
  BY <1>1, <1>2, <1>3, <1>4, <1>5, <1>6 DEF TasksInv

(* A task starts: its question is answered, or under way, or looked up.    *)
LEMMA StartKeeps == ASSUME Assumed, TasksInv, NEW n \in Query, Start(n) PROVE TasksInv'
<1>1. /\ UNCHANGED <<topic, sent, whole>> /\ job[n].st = "queued" /\ job[n] \in Task
      /\ topic[n] \in Topic
  BY DEF Start, TasksInv, JobType
<1>2. CASE job' = [job EXCEPT ![n].st = "answers"] /\ UNCHANGED flight
  <2> DEFINE j == [job[n] EXCEPT !.st = "answers"]
  <2>1. j \in Task /\ j.st = "answers" /\ j.runs = job[n].runs /\ j.entry = job[n].entry
    BY <1>1 DEF Task, Status
  <2>2. job' = [job EXCEPT ![n] = j]
    BY <1>2 DEF TasksInv, JobType
  <2>3. QED
    BY <1>1, <1>2, <2>1, <2>2, TaskKeeps
<1>3. CASE /\ flight[topic[n]] # None /\ UNCHANGED flight
           /\ job' = [job EXCEPT ![n].st = "follows", ![n].on = flight[topic[n]]]
  <2> DEFINE j == [job[n] EXCEPT !.st = "follows", !.on = flight[topic[n]]]
  <2>1. flight[topic[n]] \in Query \ {n} /\ job[flight[topic[n]]].st = "asks"
    <3>1. flight[topic[n]] \in Query /\ job[flight[topic[n]]].st = "asks"
      BY <1>1, <1>3 DEF TasksInv, JobType, FlightExact
    <3>2. QED BY <1>1, <3>1
  <2>2. /\ j \in Task /\ j.st = "follows" /\ j.on = flight[topic[n]]
        /\ j.runs = job[n].runs /\ j.entry = job[n].entry
    BY <1>1, <2>1 DEF Task, Status
  <2>3. job' = [job EXCEPT ![n] = j]
    BY <1>3 DEF TasksInv, JobType
  <2>4. QED
    BY <1>1, <1>3, <2>1, <2>2, <2>3, TaskKeeps
<1>4. CASE /\ flight[topic[n]] = None /\ flight' = [flight EXCEPT ![topic[n]] = n]
           /\ job' = [job EXCEPT ![n].st = "asks", ![n].launched = 1]
  <2> DEFINE j == [job[n] EXCEPT !.st = "asks", !.launched = 1]
  <2>1. /\ j \in Task /\ j.st = "asks" /\ j.runs = job[n].runs /\ j.entry = job[n].entry
        /\ Asking(j)
    <3> DEFINE asks == [job[n] EXCEPT !.st = "asks"]
    <3>0. job[n].received = 0 /\ ~job[n].hedged /\ "asks" \in Status
      BY <1>1 DEF Status, TasksInv, QueuedOpen
    <3>1. /\ asks \in Task /\ asks.st = "asks" /\ asks.runs = job[n].runs
          /\ asks.entry = job[n].entry /\ asks.received = 0 /\ ~asks.hedged
      BY <1>1, <3>0, SetStatus
    <3>2. j = [asks EXCEPT !.launched = 1]
      OBVIOUS
    <3> HIDE DEF asks, j
    <3>3. QED
      BY <3>1, <3>2, SetLaunched DEF Asking
  <2>2. job' = [job EXCEPT ![n] = j]
    BY <1>4 DEF TasksInv, JobType
  <2> HIDE DEF j
  <2>3. JobType'
    BY <1>1, <1>4, <2>1, <2>2 DEF TasksInv, JobType
  <2>4. RunsKnown'
    BY <1>1, <2>1, <2>2 DEF TasksInv, JobType, RunsKnown
  <2>5. job[n].entry = "open"
    BY <1>1 DEF TasksInv, QueuedOpen
  <2>6. FlightExact'
    <3>1. /\ job'[n] = j /\ flight'[topic[n]] = n
          /\ \A m \in Query \ {n} : job'[m] = job[m]
          /\ \A t \in Topic \ {topic[n]} : flight'[t] = flight[t]
      BY <1>1, <1>4, <2>2 DEF TasksInv, JobType
    <3>2. \A m \in Query \ {n} : job[m].st = "asks" => flight[topic[m]] = m /\ topic[m] # topic[n]
      BY <1>4 DEF TasksInv, FlightExact, Assumed
    <3>3. \A t \in Topic \ {topic[n]} : flight[t] # n
      BY <1>1 DEF TasksInv, FlightExact, Assumed
    <3>4. \A m \in Query : job'[m].st = "asks" => flight'[topic[m]] = m
      BY <1>1, <2>1, <3>1, <3>2 DEF TasksInv, JobType
    <3>5. ASSUME NEW t \in Topic, flight'[t] # None
          PROVE  /\ job'[flight'[t]].st = "asks" /\ topic[flight'[t]] = t
                 /\ job'[flight'[t]].entry = "open"
      <4>1. CASE t = topic[n]
        BY <2>1, <2>5, <3>1, <4>1
      <4>2. CASE t # topic[n]
        BY <3>1, <3>3, <3>5, <4>2 DEF TasksInv, JobType, FlightExact
      <4>3. QED BY <4>1, <4>2
    <3>6. QED
      BY <1>1, <3>4, <3>5 DEF FlightExact
  <2>7. FollowersLead'
    BY <1>1, <2>1, <2>2 DEF TasksInv, JobType, FollowersLead
  <2>8. LoopExact' /\ FailsAfterAll'
    BY <2>1, <2>2 DEF TasksInv, JobType, LoopExact, FailsAfterAll
  <2>9. QueuedOpen'
    BY <2>1, <2>2 DEF TasksInv, JobType, QueuedOpen
  <2>10. QED
    BY <2>3, <2>4, <2>6, <2>7, <2>8, <2>9 DEF TasksInv
<1>5. QED
  BY <1>2, <1>3, <1>4 DEF Start, Acquire

(* A lookup that ends leaves the in-flight manager and closes its entry.   *)
LEMMA EndsKeeps ==
  ASSUME Assumed, TasksInv, NEW n \in Query, job[n].st = "asks",
         NEW j \in Task, j.runs = job[n].runs, j.st \in {"resolved", "fails", "late"},
         j.st = "fails" => j.received = Upstreams,
         NEW outcome \in {"value", "empty"}, Ends(n, outcome, [job EXCEPT ![n] = j]),
         UNCHANGED <<topic, sent, whole>>
  PROVE  TasksInv'
<1> DEFINE ended == [j EXCEPT !.entry = outcome]
<1>1. flight[topic[n]] = n /\ topic[n] \in Topic
  BY DEF TasksInv, JobType, FlightExact
<1>2. job' = [job EXCEPT ![n] = ended] /\ flight' = [flight EXCEPT ![topic[n]] = None]
  BY <1>1 DEF Ends, Closed, TasksInv, JobType
<1>3. /\ ended \in Task /\ ended.st = j.st /\ ended.entry # "open" /\ ended.runs = j.runs
      /\ ended.received = j.received
  <2>1. outcome \in {"open", "value", "empty"} /\ outcome # "open"
    OBVIOUS
  <2>2. QED BY <2>1, SetEntry
<1> HIDE DEF ended
<1>4. /\ job'[n] = ended /\ flight'[topic[n]] = None
      /\ \A m \in Query \ {n} : job'[m] = job[m]
      /\ \A t \in Topic \ {topic[n]} : flight'[t] = flight[t]
  BY <1>1, <1>2 DEF TasksInv, JobType
<1>5. JobType'
  BY <1>1, <1>2, <1>3 DEF TasksInv, JobType
<1>6. RunsKnown'
  BY <1>3, <1>4 DEF TasksInv, RunsKnown
<1>7. QueuedOpen' /\ LoopExact' /\ FailsAfterAll'
  BY <1>3, <1>4 DEF TasksInv, QueuedOpen, LoopExact, FailsAfterAll
<1>8. FlightExact'
  <2>1. ASSUME NEW m \in Query, job'[m].st = "asks" PROVE flight'[topic[m]] = m
    <3>1. m # n /\ job[m].st = "asks"
      BY <1>3, <1>4, <2>1
    <3>2. flight[topic[m]] = m /\ topic[m] \in Topic
      BY <3>1 DEF TasksInv, JobType, FlightExact
    <3>3. QED BY <1>1, <1>4, <3>1, <3>2
  <2>2. ASSUME NEW t \in Topic, flight'[t] # None
        PROVE  /\ job'[flight'[t]].st = "asks" /\ topic[flight'[t]] = t
               /\ job'[flight'[t]].entry = "open"
    <3>1. t # topic[n] /\ flight'[t] = flight[t]
      BY <1>4, <2>2
    <3>2. /\ job[flight[t]].st = "asks" /\ topic[flight[t]] = t /\ job[flight[t]].entry = "open"
          /\ flight[t] \in Query
      BY <2>2, <3>1 DEF TasksInv, JobType, FlightExact
    <3>3. QED BY <1>4, <3>1, <3>2
  <2>3. QED
    BY <2>1, <2>2 DEF FlightExact
<1>9. FollowersLead'
  <2>1. ASSUME NEW m \in Query, job'[m].st = "follows"
        PROVE  job'[m].on \in Query /\ (job'[job'[m].on].entry = "open" => job'[job'[m].on].st = "asks")
    <3>1. m # n /\ job'[m] = job[m] /\ job[m].on \in Query
      BY <1>3, <1>4, <2>1 DEF TasksInv, FollowersLead
    <3>2. CASE job[m].on = n
      BY <1>3, <1>4, <3>1, <3>2
    <3>3. CASE job[m].on # n
      BY <1>4, <2>1, <3>1, <3>3 DEF TasksInv, FollowersLead
    <3>4. QED BY <3>2, <3>3
  <2>2. QED BY <2>1 DEF FollowersLead
<1>10. QED
  BY <1>5, <1>6, <1>7, <1>8, <1>9 DEF TasksInv

(* A lookup that goes on changes only its counts. *)
LEMMA AskingKeeps ==
  ASSUME TasksInv, NEW n \in Query, NEW j \in Task, job' = [job EXCEPT ![n] = j],
         UNCHANGED <<topic, sent, whole, flight>>, job[n].st = "asks",
         j.st = "asks", j.entry = job[n].entry, j.runs = job[n].runs, Asking(j)
  PROVE  TasksInv'
<1>1. JobType'
  BY DEF TasksInv, JobType
<1>2. \A m \in Query : /\ job'[m].st = job[m].st /\ job'[m].entry = job[m].entry
                       /\ job'[m].runs = job[m].runs /\ (m # n => job'[m] = job[m])
  BY DEF TasksInv, JobType
<1>3. RunsKnown' /\ QueuedOpen'
  BY <1>2 DEF TasksInv, RunsKnown, QueuedOpen
<1>4. FlightExact'
  BY <1>2 DEF TasksInv, JobType, FlightExact
<1>5. FollowersLead'
  BY <1>2 DEF TasksInv, FollowersLead
<1>6. LoopExact' /\ FailsAfterAll'
  BY <1>2 DEF TasksInv, JobType, LoopExact, FailsAfterAll
<1>7. QED
  BY <1>1, <1>3, <1>4, <1>5, <1>6 DEF TasksInv

(* The others are launched, once. *)
LEMMA HedgedIs ==
  ASSUME Assumed, NEW j \in Task, j.hedged \/ j.launched = 1
  PROVE  /\ Hedged(j) \in Task /\ Hedged(j).st = j.st /\ Hedged(j).entry = j.entry
         /\ Hedged(j).runs = j.runs /\ Hedged(j).received = j.received /\ Hedged(j).hedged
         /\ Hedged(j).launched = IF j.hedged THEN j.launched ELSE Upstreams
<1>1. CASE j.hedged
  BY <1>1 DEF Hedged
<1>2. CASE ~j.hedged
  <2> DEFINE i == [j EXCEPT !.hedged = TRUE]
  <2>1. /\ i \in Task /\ i.hedged /\ i.launched = 1 /\ i.st = j.st /\ i.entry = j.entry
        /\ i.runs = j.runs /\ i.received = j.received
    BY <1>2, SetHedged
  <2>2. Hedged(j) = [i EXCEPT !.launched = Upstreams]
    <3>1. j.launched + Upstreams - 1 = Upstreams
      BY <1>2 DEF Assumed
    <3> QED
      BY <1>2, <3>1 DEF Hedged
  <2> HIDE DEF i
  <2>3. Upstreams \in Int
    BY DEF Assumed
  <2> QED
    BY <1>2, <2>1, <2>2, <2>3, SetLaunched
<1> QED
  BY <1>1, <1>2

(* The end of the loop, an answer, a failure, the hedge timer, the deadline. *)
LEMMA LookUpKeeps == ASSUME Assumed, TasksInv, NEW n \in Query, LookUp(n) PROVE TasksInv'
<1>1. /\ UNCHANGED <<topic, sent, whole>> /\ job[n].st = "asks" /\ job[n] \in Task
      /\ Asking(job[n]) /\ Upstreams \in Nat \ {0}
  BY DEF LookUp, TasksInv, JobType, LoopExact, Assumed
<1>2. ASSUME NEW st \in {"resolved", "late", "fails"}, NEW outcome \in {"value", "empty"},
             Ends(n, outcome, [job EXCEPT ![n].st = st]),
             st = "fails" => job[n].received >= job[n].launched
      PROVE  TasksInv'
  <2> DEFINE j == [job[n] EXCEPT !.st = st]
  <2>1. /\ j \in Task /\ j.st = st /\ j.runs = job[n].runs /\ j.received = job[n].received
    <3>1. st \in Status
      BY DEF Status
    <3>2. QED BY <1>1, <3>1, SetStatus
  <2>2. [job EXCEPT ![n].st = st] = [job EXCEPT ![n] = j]
    BY DEF TasksInv, JobType
  <2>3. st = "fails" => job[n].received = Upstreams
    BY <1>1, <1>2 DEF Asking, Task
  <2> HIDE DEF j
  <2>4. Ends(n, outcome, [job EXCEPT ![n] = j])
    BY <1>2, <2>2
  <2>5. QED
    BY <1>1, <2>1, <2>3, <2>4, EndsKeeps
<1>3. CASE /\ job[n].received < job[n].launched
           /\ job' = [job EXCEPT ![n] = LaunchedAfter([job[n] EXCEPT !.received = @ + 1])]
           /\ UNCHANGED flight
  <2> DEFINE i == [job[n] EXCEPT !.received = job[n].received + 1]
  <2>1. /\ i \in Task /\ i.st = "asks" /\ i.runs = job[n].runs /\ i.entry = job[n].entry
        /\ i.hedged = job[n].hedged /\ i.launched = job[n].launched
        /\ i.received = job[n].received + 1
    <3>1. job[n].received + 1 \in Int
      BY <1>1 DEF Task
    <3>2. QED BY <1>1, <3>1, SetReceived
  <2>2. job' = [job EXCEPT ![n] = Hedged(i)]
    BY <1>3 DEF LaunchedAfter
  <2> HIDE DEF i
  <2>3. i.hedged \/ i.launched = 1
    BY <1>1, <2>1 DEF Asking
  <2> DEFINE j == Hedged(i)
  <2>4. /\ j \in Task /\ j.st = "asks" /\ j.runs = job[n].runs /\ j.entry = job[n].entry
        /\ j.hedged /\ j.received = job[n].received + 1 /\ j.launched = Upstreams
    BY <1>1, <2>1, <2>3, HedgedIs DEF Asking
  <2>5. job' = [job EXCEPT ![n] = j]
    BY <2>2
  <2> HIDE DEF j
  <2>6. Asking(j)
    BY <1>1, <1>3, <2>4 DEF Asking, Task
  <2>7. QED
    BY <1>1, <1>3, <2>4, <2>5, <2>6, AskingKeeps
<1>4. CASE /\ ~job[n].hedged /\ job' = [job EXCEPT ![n] = Hedged(job[n])] /\ UNCHANGED flight
  <2> DEFINE j == Hedged(job[n])
  <2>1. job[n].hedged \/ job[n].launched = 1
    BY <1>1 DEF Asking
  <2>2. /\ j \in Task /\ j.st = "asks" /\ j.runs = job[n].runs /\ j.entry = job[n].entry
        /\ j.hedged /\ j.received = job[n].received /\ j.launched = Upstreams
    BY <1>1, <1>4, <2>1, HedgedIs
  <2>3. job' = [job EXCEPT ![n] = j]
    BY <1>4
  <2> HIDE DEF j
  <2>4. Asking(j)
    BY <1>1, <1>4, <2>2 DEF Asking
  <2>5. QED
    BY <1>1, <1>4, <2>2, <2>3, <2>4, AskingKeeps
<1>5. QED
  BY <1>2, <1>3, <1>4 DEF LookUp

(* A task that ends keeps its entry closed and its count. *)
LEMMA RespondKeeps == ASSUME TasksInv, NEW n \in Query, Respond(n) PROVE TasksInv'
<1> DEFINE i == [NoJob EXCEPT !.st = "done"]
           k == [i EXCEPT !.entry = job[n].entry]
           j == [k EXCEPT !.runs = job[n].runs]
<1>1. /\ UNCHANGED <<topic, sent, whole, flight>> /\ job' = [job EXCEPT ![n] = j]
      /\ job[n].st # "asks" /\ job[n] \in Task
  BY DEF Respond, TasksInv, JobType
<1>2. i \in Task /\ i.st = "done"
  <2>1. NoJob \in Task /\ "done" \in Status
    BY DEF NoJob, Task, Status
  <2>2. QED BY <2>1, SetStatus
<1> HIDE DEF i
<1>3. job[n].entry \in {"open", "value", "empty"} /\ job[n].runs \in Nat
  BY <1>1 DEF Task
<1>4. k \in Task /\ k.st = "done" /\ k.entry = job[n].entry
  BY <1>2, <1>3, SetEntry
<1> HIDE DEF k
<1>5. j \in Task /\ j.st = "done" /\ j.entry = job[n].entry /\ j.runs = job[n].runs
  BY <1>3, <1>4, SetRuns
<1> HIDE DEF j
<1>6. QED
  BY <1>1, <1>5, TaskKeeps

(* A follower goes on to answer. *)
LEMMA FollowKeeps == ASSUME TasksInv, NEW n \in Query, Follow(n) PROVE TasksInv'
<1> DEFINE j == [job[n] EXCEPT !.st = "answers"]
<1>1. /\ UNCHANGED <<topic, sent, whole, flight>> /\ job' = [job EXCEPT ![n] = j]
      /\ job[n].st # "asks" /\ job[n] \in Task
  BY DEF Follow, TasksInv, JobType
<1>2. j \in Task /\ j.st = "answers" /\ j.entry = job[n].entry /\ j.runs = job[n].runs
  BY <1>1, SetStatus DEF Status
<1> HIDE DEF j
<1>3. QED
  BY <1>1, <1>2, TaskKeeps

-----------------------------------------------------------------------------
(* One step keeps the invariant. *)
LEMMA ResolverStepKeeps == ASSUME Assumed, TasksInv, [ResolverNext]_resolverVars PROVE TasksInv'
<1>1. ASSUME NEW n \in Query, Stop(n) PROVE TasksInv'
  BY <1>1, IdleKeeps DEF Stop
<1>2. ASSUME NEW t \in Topic, Forget(t) PROVE TasksInv'
  BY <1>2, IdleKeeps DEF Forget
<1>3. CASE UNCHANGED resolverVars
  BY <1>3, IdleKeeps DEF resolverVars
<1>4. QED
  BY <1>1, <1>2, <1>3, ReceiveKeeps, PurgeKeeps, SessionEndKeeps, StartKeeps, LookUpKeeps, FollowKeeps,
     RespondKeeps DEF ResolverNext

LEMMA ResolverStarts == ASSUME ResolverInit PROVE TasksInv
<1>1. NoJob \in Task
  BY DEF NoJob, Task, Status
<1>2. \A n \in Query : job[n] = NoJob
  BY DEF ResolverInit
<1>3. QED
  BY <1>1, <1>2 DEF ResolverInit, NoJob, TasksInv, JobType, RunsKnown, QueuedOpen, FlightExact,
                    FollowersLead, LoopExact, FailsAfterAll

THEOREM TasksInvariance == ASSUME Assumed PROVE ResolverSpec => []TasksInv
<1>1. ResolverInit => TasksInv
  BY ResolverStarts
<1>2. TasksInv /\ [ResolverNext]_resolverVars => TasksInv'
  BY ResolverStepKeeps
<1>3. QED
  BY <1>1, <1>2, PTL DEF ResolverSpec

(* A query starts one task while it is remembered (Store.Collect).         *)
THEOREM QueriesWorkedOnce == ASSUME Assumed PROVE ResolverSpec => []WorkedOnce
<1>1. TasksInv => WorkedOnce
  BY InvImplies
<1>2. QED
  BY <1>1, TasksInvariance, PTL

(* Lookups of one question never run together, and one that ends wakes all *)
(* who wait for it (inflight.Manager).                                     *)
THEOREM LookupsShared == ASSUME Assumed PROVE ResolverSpec => []SharedLookup
<1>1. TasksInv => SharedLookup
  BY InvImplies
<1>2. QED
  BY <1>1, TasksInvariance, PTL

(* A lookup fails before its deadline only if every upstream server was    *)
(* asked and failed (resolveDNSUpstream).                                  *)
THEOREM LookupsPersist == ASSUME Assumed PROVE ResolverSpec => []FailsAfterAll
<1>1. TasksInv => FailsAfterAll
  BY InvImplies
<1>2. QED
  BY <1>1, TasksInvariance, PTL

-----------------------------------------------------------------------------
(* The choice of resolvers: quotients and remainders. *)
LEMMA Quotients ==
  ASSUME NEW m \in Nat \ {0}, NEW x \in Nat
  PROVE  x \div m \in Nat /\ x % m \in 0 .. m - 1 /\ x = (m * (x \div m)) + (x % m)
  BY SMT

LEMMA RemainderIs ==
  ASSUME NEW m \in Nat \ {0}, NEW q \in Nat, NEW r \in 0 .. m - 1
  PROVE  ((m * q) + r) % m = r
<1> DEFINE x == (m * q) + r
           p == x \div m
           t == x % m
<1>1. m * q \in Nat /\ x \in Nat
  BY SMT
<1>2. p \in Nat /\ t \in 0 .. m - 1 /\ x = (m * p) + t
  BY <1>1, Quotients
<1>3. \A y, z \in Nat : y >= z + 1 => m * y >= (m * z) + m
  BY SMT
<1>4. m * p \in Nat
  BY <1>2, SMT
<1> HIDE DEF p, t
<1>5. CASE p >= q + 1
  BY <1>1, <1>2, <1>3, <1>4, <1>5
<1>6. CASE q >= p + 1
  BY <1>1, <1>2, <1>3, <1>4, <1>6
<1>7. CASE p = q
  BY <1>1, <1>2, <1>7 DEF t
<1> QED
  BY <1>2, <1>5, <1>6, <1>7

(* The turn is that of rrCounter itself: counting modulo Cycle changes no rotation of a *)
(* list that is as long as Order or shorter.                                            *)
LEMMA CycleHides ==
  ASSUME NEW c \in Nat, NEW m \in 1 .. ActiveCount
  PROVE  (c % Cycle) % m = c % m
<1> DEFINE q == c \div Cycle
           r == c % Cycle
           d == Cycle \div m
           p == r \div m
           t == r % m
<1>1. Cycle \in Nat \ {0} /\ m \in Nat \ {0} /\ Cycle % m = 0
  BY ChoiceAssumption DEF ActiveCount
<1>2. q \in Nat /\ r \in Nat /\ c = (Cycle * q) + r
  <2>1. q \in Nat /\ r \in 0 .. Cycle - 1 /\ c = (Cycle * q) + r
    BY <1>1, Quotients
  <2> HIDE DEF q, r
  <2> QED
    BY <1>1, <2>1
<1>3. d \in Nat /\ Cycle = (m * d) + 0
  BY <1>1, Quotients
<1> HIDE DEF q, r
<1>4. p \in Nat /\ t \in 0 .. m - 1 /\ r = (m * p) + t
  BY <1>1, <1>2, Quotients
<1> HIDE DEF d, p, t
<1>5. /\ d * q \in Nat /\ (d * q) + p \in Nat
      /\ (m * d) * q = m * (d * q) /\ m * ((d * q) + p) = (m * (d * q)) + (m * p)
  <2>1. \A x, y, z \in Nat : x * y \in Nat /\ (z * x) * y = z * (x * y)
    BY SMT
  <2>2. \A x, y, z \in Nat : z * (x + y) = (z * x) + (z * y)
    BY SMT
  <2> QED
    BY <1>1, <1>2, <1>3, <1>4, <2>1, <2>2
<1>6. c = (m * ((d * q) + p)) + t
  <2>1. m * d \in Nat /\ m * (d * q) \in Nat /\ m * p \in Nat /\ Cycle = m * d
    <3>1. \A x, y \in Nat : x * y \in Nat
      BY SMT
    <3> QED
      BY <1>1, <1>3, <1>4, <1>5, <3>1
  <2>2. Cycle * q = m * (d * q)
    BY <1>5, <2>1
  <2> QED
    BY <1>2, <1>4, <1>5, <2>1, <2>2
<1>7. ((m * ((d * q) + p)) + t) % m = t
  BY <1>1, <1>4, <1>5, RemainderIs
<1> QED
  BY <1>6, <1>7 DEF t, r

(* The place that follows place i of a list of length m, c places on. *)
LEMMA TurnIs ==
  ASSUME NEW m \in Nat \ {0}, NEW c \in Nat, NEW i \in 1 .. m
  PROVE  (c + i - 1) % m = IF (c % m) + i <= m THEN (c % m) + i - 1 ELSE (c % m) + i - 1 - m
<1> DEFINE q == c \div m
           r == c % m
<1>1. q \in Nat /\ r \in 0 .. m - 1 /\ c = (m * q) + r
  BY Quotients
<1>2. m * q \in Nat
  BY <1>1, SMT
<1> HIDE DEF q, r
<1>3. CASE r + i <= m
  <2>1. r + i - 1 \in 0 .. m - 1 /\ c + i - 1 = (m * q) + (r + i - 1)
    BY <1>1, <1>2, <1>3
  <2>2. ((m * q) + (r + i - 1)) % m = r + i - 1
    BY <1>1, <2>1, RemainderIs
  <2> QED
    BY <1>3, <2>1, <2>2 DEF r
<1>4. CASE ~ (r + i <= m)
  <2>1. r + i - 1 - m \in 0 .. m - 1 /\ q + 1 \in Nat
    BY <1>1, <1>4
  <2>2. m * (q + 1) = (m * q) + m
    BY <1>1, SMT
  <2>3. c + i - 1 = (m * (q + 1)) + (r + i - 1 - m)
    BY <1>1, <1>2, <2>2
  <2>4. ((m * (q + 1)) + (r + i - 1 - m)) % m = r + i - 1 - m
    BY <2>1, RemainderIs
  <2> QED
    BY <1>4, <2>3, <2>4 DEF r
<1> QED
  BY <1>3, <1>4

-----------------------------------------------------------------------------
(* Lists of resolvers. *)
List(s, A) == s \in Seq(A) /\ IsInjective(s)

(* A list without repetition is as long as the set of what is on it. *)
LEMMA ListCounts ==
  ASSUME NEW A, NEW s, List(s, A)
  PROVE  /\ Len(s) \in Nat /\ DOMAIN s = 1 .. Len(s) /\ \A i \in 1 .. Len(s) : s[i] \in Range(s)
         /\ Range(s) \subseteq A /\ IsFiniteSet(Range(s)) /\ Cardinality(Range(s)) = Len(s)
         /\ (s = <<>> <=> Len(s) = 0) /\ (s = <<>> <=> Range(s) = {})
<1>1. /\ Len(s) \in Nat /\ DOMAIN s = 1 .. Len(s) /\ s \in [1 .. Len(s) -> A]
  BY LenProperties DEF List
<1>2. /\ \A i \in 1 .. Len(s) : s[i] \in Range(s)
      /\ Range(s) \subseteq A
  BY <1>1 DEF Range
<1>3. s \in Bijection(1 .. Len(s), Range(s))
  BY <1>1 DEF Range, List, IsInjective, Bijection, Injection, Surjection
<1>4. IsFiniteSet(1 .. Len(s)) /\ Cardinality(1 .. Len(s)) = Len(s)
  BY <1>1, FS_Interval
<1>5. IsFiniteSet(Range(s)) /\ Cardinality(Range(s)) = Len(s)
  BY <1>3, <1>4, FS_Bijection DEF ExistsBijection
<1>6. s = <<>> <=> Len(s) = 0
  BY <1>1, EmptySeq DEF List
<1>7. Range(s) = {} <=> Len(s) = 0
  BY <1>5, FS_EmptySet
<1> QED
  BY <1>1, <1>2, <1>5, <1>6, <1>7

(* A beginning of a list is a list. *)
LEMMA BeginningIs ==
  ASSUME NEW A, NEW s, List(s, A), NEW k \in 0 .. Len(s)
  PROVE  /\ List(SubSeq(s, 1, k), A) /\ Len(SubSeq(s, 1, k)) = k
         /\ Range(SubSeq(s, 1, k)) = {s[i] : i \in 1 .. k}
         /\ \A i \in 1 .. k : SubSeq(s, 1, k)[i] = s[i]
<1> DEFINE t == SubSeq(s, 1, k)
<1>1. /\ Len(s) \in Nat /\ DOMAIN s = 1 .. Len(s) /\ \A i \in 1 .. Len(s) : s[i] \in A
      /\ k \in Nat /\ \A i \in 1 .. k : i \in 1 .. Len(s)
  BY LenProperties, ElementOfSeq DEF List
<1>2. /\ t \in Seq(A) /\ Len(t) = k
      /\ \A i \in 1 .. k : t[i] = s[i]
  <2>1. \A i \in 1 .. k : s[i] \in A
    BY <1>1
  <2>2. /\ t \in Seq(A)
        /\ Len(t) = IF 1 <= k THEN k - 1 + 1 ELSE 0
        /\ \A i \in 1 .. k - 1 + 1 : t[i] = s[1 + i - 1]
    BY <1>1, <2>1, SubSeqProperties
  <2>3. k - 1 + 1 = k /\ (~(1 <= k) => k = 0) /\ \A i \in 1 .. k : 1 + i - 1 = i
    BY <1>1
  <2> HIDE DEF t
  <2> QED
    BY <2>2, <2>3
<1> HIDE DEF t
<1>3. DOMAIN t = 1 .. k
  BY <1>2, LenProperties
<1>4. IsInjective(t)
  BY <1>1, <1>2, <1>3 DEF List, IsInjective
<1>5. Range(t) = {s[i] : i \in 1 .. k}
  BY <1>2, <1>3 DEF Range
<1> QED
  BY <1>2, <1>4, <1>5 DEF List, t

(* Rotating a list reorders it. *)
LEMMA RotatedIs ==
  ASSUME NEW A, NEW s, List(s, A), counter \in Nat
  PROVE  List(Rotated(s), A) /\ Len(Rotated(s)) = Len(s) /\ Range(Rotated(s)) = Range(s)
<1> DEFINE m == Len(s)
           t == Rotated(s)
           at(i) == ((counter + i - 1) % m) + 1
<1>1. m \in Nat /\ DOMAIN s = 1 .. m /\ (s = <<>> <=> m = 0) /\ \A i \in 1 .. m : s[i] \in A
  BY ListCounts
<1>2. CASE s = <<>>
  BY <1>2 DEF Rotated
<1>3. CASE s # <<>>
  <2>1. t = [i \in 1 .. m |-> s[at(i)]]
    BY <1>3 DEF Rotated
  <2>2. m \in Nat \ {0} /\ counter % m \in 0 .. m - 1
    BY <1>1, <1>3, Quotients
  <2> HIDE DEF m
  <2>3. \A i \in 1 .. m : at(i) = IF (counter % m) + i <= m THEN (counter % m) + i
                                  ELSE (counter % m) + i - m
    <3> TAKE i \in 1 .. m
    <3>1. (counter + i - 1) % m = IF (counter % m) + i <= m THEN (counter % m) + i - 1
                                  ELSE (counter % m) + i - 1 - m
      BY <2>2, TurnIs
    <3> DEFINE turn == (counter + i - 1) % m
               r == counter % m
    <3>2. at(i) = turn + 1 /\ turn = IF r + i <= m THEN r + i - 1 ELSE r + i - 1 - m
      BY <3>1
    <3>3. r \in 0 .. m - 1 /\ m \in Nat \ {0}
      BY <2>2
    <3> HIDE DEF turn, r, at
    <3>4. at(i) = IF r + i <= m THEN r + i ELSE r + i - m
      BY <3>2, <3>3
    <3> QED
      BY <3>4 DEF r
  <2> HIDE DEF at
  <2>4. /\ \A i \in 1 .. m : at(i) \in 1 .. m
        /\ \A i, j \in 1 .. m : at(i) = at(j) => i = j
    BY <2>2, <2>3
  <2>5. \A p \in 1 .. m : \E i \in 1 .. m : at(i) = p
    <3> TAKE p \in 1 .. m
    <3>1. CASE p > counter % m
      <4>1. /\ p - (counter % m) \in 1 .. m /\ (counter % m) + (p - (counter % m)) = p
            /\ p <= m
        BY <2>2, <3>1
      <4>2. at(p - (counter % m)) = p
        BY <2>3, <4>1
      <4> QED
        BY <4>1, <4>2
    <3>2. CASE ~ (p > counter % m)
      <4> DEFINE r == counter % m
                 x == p - r + m
      <4>1. r \in 0 .. m - 1 /\ m \in Nat \ {0} /\ p <= r
        BY <2>2, <3>2
      <4>2. \A i \in 1 .. m : at(i) = IF r + i <= m THEN r + i ELSE r + i - m
        BY <2>3
      <4> HIDE DEF r
      <4>3. x \in 1 .. m /\ r + x = p + m /\ ~ (r + x <= m) /\ r + x - m = p
        BY <4>1
      <4> HIDE DEF x
      <4>4. at(x) = p
        BY <4>2, <4>3
      <4> QED
        BY <4>3, <4>4
    <3> QED
      BY <3>1, <3>2
  <2>6. t \in [1 .. m -> A]
    BY <1>1, <2>1, <2>4
  <2>7. t \in Seq(A) /\ Len(t) = m /\ DOMAIN t = 1 .. m
    BY <2>1, <2>2, <2>6, SeqDef, LenProperties
  <2>8. IsInjective(t)
    BY <1>1, <2>1, <2>4, <2>7 DEF List, IsInjective
  <2>9. Range(t) = Range(s)
    <3>1. Range(s) = {s[i] : i \in 1 .. m} /\ Range(t) = {t[i] : i \in 1 .. m}
      BY <1>1, <2>7 DEF Range
    <3>2. \A i \in 1 .. m : t[i] = s[at(i)]
      BY <2>1
    <3> HIDE DEF t
    <3>3. \A i \in 1 .. m : t[i] \in Range(s)
      BY <2>4, <3>1, <3>2
    <3>4. \A p \in 1 .. m : s[p] \in Range(t)
      BY <2>5, <3>1, <3>2
    <3> QED
      BY <3>1, <3>3, <3>4
  <2> QED
    BY <2>7, <2>8, <2>9 DEF List, m
<1> QED
  BY <1>2, <1>3

-----------------------------------------------------------------------------
(* Leaving out keeps the others, in their order.  The recursion is defined   *)
(* for every length, and what it computes is as claimed, by the least        *)
(* counterexample.                                                           *)
LEMMA AmongIs ==
  ASSUME NEW A, NEW s, List(s, A), NEW S
  PROVE  List(Among(s, S), A) /\ Range(Among(s, S)) = Range(s) \cap S
<1> DEFINE n == Len(s)
           Keep(f, k) == IF k = 0 THEN <<>> ELSE
                         IF s[k] \in S THEN Append(f[k - 1], s[k]) ELSE f[k - 1]
           Defined(f, m) == f = [k \in 0 .. m |-> Keep(f, k)]
           Bad == {m \in 0 .. n : ~ \E f : Defined(f, m)}
<1>1. /\ n \in Nat /\ DOMAIN s = 1 .. n /\ \A k \in 1 .. n : s[k] \in A
      /\ Range(s) = {s[i] : i \in 1 .. n}
  BY ListCounts DEF Range
<1> HIDE DEF n
<1>2. ASSUME NEW m \in 0 .. n, \A e \in 0 .. n : e < m => e \notin Bad
      PROVE  m \notin Bad
  <2>1. CASE m = 0
    <3>1. Defined([k \in 0 .. 0 |-> <<>>], 0)
      OBVIOUS
    <3> QED
      BY <2>1, <3>1
  <2>2. CASE m # 0
    <3>1. m - 1 \in 0 .. n /\ m - 1 < m
      BY <1>1, <2>2
    <3>2. PICK f : Defined(f, m - 1)
      BY <1>2, <3>1
    <3> DEFINE g == [k \in 0 .. m |-> IF k = m THEN Keep(f, m) ELSE f[k]]
    <3>3. \A k \in 0 .. m : g[k] = Keep(g, k)
      <4>1. \A k \in 0 .. m : k # 0 => k - 1 \in 0 .. m - 1 /\ g[k - 1] = f[k - 1]
        BY <1>1, <2>2
      <4>2. Keep(g, m) = Keep(f, m)
        BY <2>2, <4>1
      <4>3. \A k \in 0 .. m - 1 : f[k] = Keep(f, k) /\ g[k] = f[k] /\ k \in 0 .. m
        <5>1. \A k \in 0 .. m - 1 : g[k] = f[k] /\ k \in 0 .. m
          BY <1>1
        <5>2. f = [k \in 0 .. m - 1 |-> Keep(f, k)]
          BY <3>2
        <5> HIDE DEF Keep, g
        <5> QED
          BY <5>1, <5>2
      <4>4. g[m] = Keep(f, m)
        BY <1>1
      <4> HIDE DEF g
      <4>5. \A k \in 0 .. m - 1 : Keep(g, k) = Keep(f, k)
        BY <4>1, <4>3
      <4>6. \A k \in 0 .. m : k = m \/ k \in 0 .. m - 1
        BY <1>1
      <4> QED
        BY <4>2, <4>3, <4>4, <4>5, <4>6
    <3>4. g = [k \in 0 .. m |-> g[k]]
      OBVIOUS
    <3> HIDE DEF g
    <3>5. Defined(g, m)
      BY <3>3, <3>4
    <3> QED
      BY <3>5
  <2> QED
    BY <2>1, <2>2
<1>3. Bad = {}
  <2>1. Bad \subseteq Nat /\ Bad \subseteq 0 .. n
    BY <1>1
  <2> HIDE DEF Bad
  <2>2. ASSUME Bad # {} PROVE FALSE
    <3>1. PICK m \in Bad : \A e \in Bad : m <= e
      BY <2>1, <2>2, LeastOf
    <3>2. m \in 0 .. n /\ \A e \in 0 .. n : e < m => e \notin Bad
      BY <1>1, <2>1, <3>1
    <3> QED
      BY <1>2, <3>2
  <2> QED
    BY <2>2
<1> DEFINE F == CHOOSE f : Defined(f, n)
<1>4. Defined(F, n)
  <2>1. n \notin Bad
    BY <1>3
  <2>2. \E f : Defined(f, n)
    BY <1>1, <2>1
  <2> QED
    BY <2>2
<1>5. Among(s, S) = F[n]
  BY DEF Among, n
<1> HIDE DEF F
<1>6. \A k \in 0 .. n : F[k] = Keep(F, k)
  BY <1>4
<1> DEFINE Part(k) == {s[i] : i \in 1 .. k} \cap S
           Right(k) == List(F[k], A) /\ Range(F[k]) = Part(k)
           Wrong == {k \in 0 .. n : ~ Right(k)}
<1>7. Right(0)
  <2>1. F[0] = <<>>
    BY <1>1, <1>6
  <2>2. List(<<>>, A) /\ Range(<<>>) = {} /\ Part(0) = {}
    BY DEF List, IsInjective, Range
  <2> QED
    BY <2>1, <2>2
<1>8. ASSUME NEW k \in 1 .. n, Right(k - 1) PROVE Right(k)
  <2> DEFINE t == F[k - 1]
             x == s[k]
  <2>1. /\ k - 1 \in Nat /\ k \in 0 .. n /\ k \in 1 .. k /\ k \notin 1 .. k - 1
        /\ 1 .. k = (1 .. k - 1) \cup {k} /\ \A i \in 1 .. k - 1 : i \in 1 .. n
    BY <1>1
  <2>2. /\ x \in A /\ x \notin {s[i] : i \in 1 .. k - 1}
        /\ {s[i] : i \in 1 .. k} = {s[i] : i \in 1 .. k - 1} \cup {x}
    BY <1>1, <2>1 DEF List, IsInjective
  <2>3. List(t, A) /\ Range(t) = Part(k - 1)
    BY <1>8
  <2>4. F[k] = IF x \in S THEN Append(t, x) ELSE t
    BY <1>6, <2>1
  <2> HIDE DEF t, x
  <2>5. CASE x \notin S
    BY <2>2, <2>3, <2>4, <2>5
  <2>6. CASE x \in S
    <3>1. /\ Append(t, x) \in Seq(A) /\ Len(Append(t, x)) = Len(t) + 1
          /\ \A i \in 1 .. Len(t) : Append(t, x)[i] = t[i]
          /\ Append(t, x)[Len(t) + 1] = x
      BY <2>2, <2>3, AppendProperties DEF List
    <3>2. /\ Len(t) \in Nat /\ DOMAIN t = 1 .. Len(t)
          /\ \A i \in 1 .. Len(t) : t[i] \in Range(t)
      BY <2>3, ListCounts
    <3>3. DOMAIN Append(t, x) = (1 .. Len(t)) \cup {Len(t) + 1}
      BY <3>1, <3>2, LenProperties
    <3>4. x \notin Range(t)
      BY <2>2, <2>3
    <3>5. IsInjective(Append(t, x))
      BY <2>3, <3>1, <3>2, <3>3, <3>4 DEF List, IsInjective
    <3>6. Range(Append(t, x)) = Range(t) \cup {x}
      BY <3>1, <3>2, <3>3 DEF Range
    <3>7. Part(k) = Part(k - 1) \cup {x}
      BY <2>2, <2>6
    <3> HIDE DEF Part
    <3> QED
      BY <2>3, <2>4, <2>6, <3>1, <3>5, <3>6, <3>7 DEF List
  <2> QED
    BY <2>5, <2>6
<1>9. Wrong = {}
  <2>1. Wrong \subseteq Nat
    BY <1>1
  <2>2. ASSUME Wrong # {} PROVE FALSE
    <3>1. PICK k \in Wrong : \A e \in Wrong : k <= e
      <4> HIDE DEF Wrong
      <4> QED
        BY <2>1, <2>2, LeastOf
    <3>2. k \in 0 .. n /\ ~ Right(k)
      OBVIOUS
    <3>3. k # 0
      BY <1>7, <3>2
    <3>4. k - 1 \in 0 .. n /\ k \in 1 .. n /\ ~ (k <= k - 1)
      BY <1>1, <3>2, <3>3
    <3> HIDE DEF Right
    <3>5. Right(k - 1)
      BY <3>1, <3>4
    <3> QED
      BY <1>8, <3>2, <3>4, <3>5
  <2> QED
    BY <2>2
<1>10. Right(n)
  <2>1. n \in 0 .. n
    BY <1>1
  <2> HIDE DEF Right
  <2> QED
    BY <1>9, <2>1
<1> QED
  BY <1>1, <1>5, <1>10

-----------------------------------------------------------------------------
(* The partial selection sort takes the k with the lowest scores, in their   *)
(* order: each pass puts the lowest of the rest behind those taken.          *)
LEMMA LowestIs ==
  ASSUME NEW A, NEW s, List(s, A), NEW k \in 0 .. Len(s),
         NEW score, \A a \in A : score[a] \in Nat
  PROVE  LET t == Lowest(s, k, score)
         IN /\ List(t, A) /\ Len(t) = k /\ Range(t) \subseteq Range(s)
            /\ \A a \in Range(t), q \in Range(s) \ Range(t) : score[a] <= score[q]
            /\ k > 0 => \A q \in Range(s) : score[t[1]] <= score[q]
<1> DEFINE n == Len(s)
           Place(t, i) == CHOOSE j \in i .. Len(t) :
                           /\ \A l \in i .. Len(t) : score[t[j]] <= score[t[l]]
                           /\ \A l \in i .. j - 1 : score[t[j]] < score[t[l]]
           Swap(t, i) == [t EXCEPT ![i] = t[Place(t, i)], ![Place(t, i)] = t[i]]
           Pass(f, i) == IF i = 0 THEN s ELSE Swap(f[i - 1], i)
           Defined(f, m) == f = [i \in 0 .. m |-> Pass(f, i)]
           Bad == {m \in 0 .. k : ~ \E f : Defined(f, m)}
<1>1. /\ n \in Nat /\ k \in Nat /\ k <= n /\ DOMAIN s = 1 .. n /\ \A i \in 1 .. n : s[i] \in A
      /\ Range(s) = {s[i] : i \in 1 .. n}
  <2>1. /\ n \in Nat /\ DOMAIN s = 1 .. n /\ \A i \in 1 .. n : s[i] \in A
        /\ Range(s) = {s[i] : i \in 1 .. n}
    BY ListCounts DEF Range
  <2> QED
    BY <2>1
<1>within. 0 \in 0 .. k /\ k \in 0 .. k /\ \A i \in 1 .. k : i \in 0 .. k /\ i # 0 /\ i \in 1 .. n
  BY <1>1
<1>2. ASSUME NEW m \in 0 .. k, \A e \in 0 .. k : e < m => e \notin Bad
      PROVE  m \notin Bad
  <2>1. CASE m = 0
    <3>1. Defined([i \in 0 .. 0 |-> s], 0)
      OBVIOUS
    <3> QED
      BY <2>1, <3>1
  <2>2. CASE m # 0
    <3>1. m - 1 \in 0 .. k /\ m - 1 < m
      BY <1>1, <2>2
    <3>2. PICK f : Defined(f, m - 1)
      BY <1>2, <3>1
    <3> HIDE DEF Swap
    <3> DEFINE g == [i \in 0 .. m |-> IF i = m THEN Pass(f, m) ELSE f[i]]
    <3>3. \A i \in 0 .. m : g[i] = Pass(g, i)
      <4>1. \A i \in 0 .. m : i # 0 => i - 1 \in 0 .. m - 1 /\ g[i - 1] = f[i - 1]
        BY <1>1, <2>2
      <4>2. Pass(g, m) = Pass(f, m)
        BY <2>2, <4>1
      <4>3. \A i \in 0 .. m - 1 : f[i] = Pass(f, i) /\ g[i] = f[i] /\ i \in 0 .. m
        <5>1. \A i \in 0 .. m - 1 : g[i] = f[i] /\ i \in 0 .. m
          BY <1>1
        <5>2. f = [i \in 0 .. m - 1 |-> Pass(f, i)]
          BY <3>2
        <5> HIDE DEF Pass, g
        <5> QED
          BY <5>1, <5>2
      <4>4. g[m] = Pass(f, m)
        BY <1>1
      <4> HIDE DEF g
      <4>5. \A i \in 0 .. m - 1 : Pass(g, i) = Pass(f, i)
        BY <4>1, <4>3
      <4>6. \A i \in 0 .. m : i = m \/ i \in 0 .. m - 1
        BY <1>1
      <4> QED
        BY <4>2, <4>3, <4>4, <4>5, <4>6
    <3>4. g = [i \in 0 .. m |-> g[i]]
      OBVIOUS
    <3> HIDE DEF g
    <3>5. Defined(g, m)
      BY <3>3, <3>4
    <3> QED
      BY <3>5
  <2> QED
    BY <2>1, <2>2
<1>3. Bad = {}
  <2>1. Bad \subseteq Nat /\ Bad \subseteq 0 .. k
    BY <1>1
  <2> HIDE DEF Bad
  <2>2. ASSUME Bad # {} PROVE FALSE
    <3>1. PICK m \in Bad : \A e \in Bad : m <= e
      BY <2>1, <2>2, LeastOf
    <3>2. m \in 0 .. k /\ \A e \in 0 .. k : e < m => e \notin Bad
      BY <1>1, <2>1, <3>1
    <3> QED
      BY <1>2, <3>2
  <2> QED
    BY <2>2
<1> DEFINE F == CHOOSE f : Defined(f, k)
<1>4. Defined(F, k)
  <2>1. k \notin Bad
    BY <1>3
  <2>2. \E f : Defined(f, k)
    BY <1>within, <2>1
  <2> QED
    BY <2>2
<1>5. Lowest(s, k, score) = SubSeq(F[k], 1, k)
  BY DEF Lowest
<1> HIDE DEF F
<1>6. \A i \in 0 .. k : F[i] = Pass(F, i)
  BY <1>4
(* After pass i the first i are in their places. *)
<1> DEFINE Sorted(t, i) ==
             /\ t \in [1 .. n -> A] /\ t \in Seq(A) /\ Len(t) = n /\ DOMAIN t = 1 .. n
             /\ IsInjective(t) /\ Range(t) = Range(s)
             /\ \A a \in 1 .. i, b \in 1 .. n : a <= b => score[t[a]] <= score[t[b]]
           Wrong == {i \in 0 .. k : ~ Sorted(F[i], i)}
<1>7. Sorted(F[0], 0)
  <2>1. F[0] = s
    BY <1>within, <1>6
  <2> QED
    BY <1>1, <2>1, LenProperties DEF List
<1>8. ASSUME NEW i \in 1 .. k, Sorted(F[i - 1], i - 1) PROVE Sorted(F[i], i)
  <2> DEFINE t == F[i - 1]
             m == Place(t, i)
             u == Swap(t, i)
  <2>1. F[i] = u
    <3> HIDE DEF Swap
    <3> QED
      BY <1>within, <1>6
  <2>2. Sorted(t, i - 1) /\ i \in 1 .. n /\ i \in Nat /\ i \in i .. n
    BY <1>1, <1>8
  <2> HIDE DEF t
  <2>3. PICK j \in i .. n : /\ \A l \in i .. n : score[t[j]] <= score[t[l]]
                            /\ \A l \in i .. j - 1 : score[t[j]] < score[t[l]]
    <3> DEFINE D == {score[t[l]] : l \in i .. n}
    <3>1. D \subseteq Nat /\ D # {}
      BY <1>1, <2>2
    <3>2. PICK d \in D : \A e \in D : d <= e
      <4> HIDE DEF D
      <4> QED
        BY <3>1, LeastOf
    <3> DEFINE G == {l \in i .. n : score[t[l]] = d}
    <3>3. G \subseteq Nat /\ G # {}
      BY <2>2, <3>2
    <3>4. PICK j \in G : \A l \in G : j <= l
      <4> HIDE DEF G
      <4> QED
        BY <3>3, LeastOf
    <3>5. j \in i .. n /\ score[t[j]] = d /\ \A l \in i .. n : d <= score[t[l]]
      BY <3>2, <3>4
    <3>6. \A l \in i .. j - 1 : score[t[j]] < score[t[l]]
      <4> TAKE l \in i .. j - 1
      <4>1. l \in i .. n /\ ~ (j <= l) /\ score[t[l]] \in Nat
        BY <1>1, <2>2, <3>5
      <4>2. score[t[l]] # d /\ d <= score[t[l]] /\ d \in Nat
        BY <3>1, <3>4, <3>5, <4>1
      <4> QED
        BY <3>5, <4>1, <4>2
    <3> QED
      BY <3>5, <3>6
  <2>4. m \in i .. n /\ \A l \in i .. n : score[t[m]] <= score[t[l]]
    <3>1. Len(t) = n
      BY <2>2
    <3> QED
      BY <2>3, <3>1
  <2> HIDE DEF m
  <2>5. u = [t EXCEPT ![i] = t[m], ![m] = t[i]]
    BY DEF m
  <2> HIDE DEF u
  <2>6. /\ m \in 1 .. n /\ t[i] \in A /\ t[m] \in A
        /\ \A l \in 1 .. n : u[l] = IF l = m THEN t[i] ELSE IF l = i THEN t[m] ELSE t[l]
        /\ u \in [1 .. n -> A]
    BY <2>2, <2>4, <2>5
  <2>7. u \in Seq(A) /\ Len(u) = n /\ DOMAIN u = 1 .. n
    BY <1>1, <2>6, SeqDef, LenProperties
  <2>8. IsInjective(u)
    BY <2>2, <2>6, <2>7 DEF IsInjective
  <2>9. Range(u) = Range(t)
    <3>1. /\ Range(u) = {u[l] : l \in 1 .. n} /\ Range(t) = {t[l] : l \in 1 .. n}
      BY <2>2, <2>7 DEF Range
    <3>2. \A l \in 1 .. n : \E b \in 1 .. n : u[b] = t[l]
      BY <2>2, <2>6
    <3>3. \A l \in 1 .. n : \E b \in 1 .. n : t[b] = u[l]
      BY <2>2, <2>6
    <3>4. \A l \in 1 .. n : u[l] \in Range(t)
      BY <3>1, <3>3
    <3>5. \A l \in 1 .. n : t[l] \in Range(u)
      BY <3>1, <3>2
    <3> QED
      BY <3>1, <3>4, <3>5
  <2>10. \A a \in 1 .. i, b \in 1 .. n : a <= b => score[u[a]] <= score[u[b]]
    <3> TAKE a \in 1 .. i, b \in 1 .. n
    <3> HAVE a <= b
    <3>1. CASE a < i
      <4>1. u[a] = t[a] /\ a \in 1 .. i - 1 /\ a \in 1 .. n
        BY <2>2, <2>4, <2>6, <3>1
      <4>2. PICK c \in 1 .. n : a <= c /\ u[b] = t[c]
        BY <2>2, <2>4, <2>6, <3>1
      <4> QED
        BY <2>2, <4>1, <4>2
    <3>2. CASE a = i
      <4>1. u[a] = t[m]
        BY <2>2, <2>6, <3>2
      <4>2. PICK c \in i .. n : u[b] = t[c]
        BY <2>2, <2>4, <2>6, <3>2
      <4> QED
        BY <2>4, <4>1, <4>2
    <3> QED
      BY <1>1, <3>1, <3>2
  <2>11. Range(u) = Range(s)
    BY <2>2, <2>9
  <2> QED
    BY <2>1, <2>6, <2>7, <2>8, <2>10, <2>11
<1> HIDE DEF Sorted
<1>9. Wrong = {}
  <2>1. Wrong \subseteq Nat
    BY <1>1
  <2>2. ASSUME Wrong # {} PROVE FALSE
    <3>1. PICK i \in Wrong : \A e \in Wrong : i <= e
      <4> HIDE DEF Wrong
      <4> QED
        BY <2>1, <2>2, LeastOf
    <3>2. i \in 0 .. k /\ ~ Sorted(F[i], i)
      OBVIOUS
    <3>3. i # 0
      BY <1>7, <3>2
    <3>4. i - 1 \in 0 .. k /\ i \in 1 .. k /\ ~ (i <= i - 1)
      BY <1>1, <3>2, <3>3
    <3>5. Sorted(F[i - 1], i - 1)
      BY <3>1, <3>4
    <3> QED
      BY <1>8, <3>2, <3>4, <3>5
  <2> QED
    BY <2>2
<1> DEFINE t == F[k]
           u == SubSeq(t, 1, k)
<1>10. Sorted(t, k)
  <2>1. k \in 0 .. k
    BY <1>1
  <2> QED
    BY <1>9, <2>1
<1> HIDE DEF t
<1>11. /\ List(t, A) /\ Len(t) = n /\ Range(t) = Range(s) /\ DOMAIN t = 1 .. n
       /\ Range(t) = {t[i] : i \in 1 .. n}
       /\ \A a \in 1 .. k, b \in 1 .. n : a <= b => score[t[a]] <= score[t[b]]
  BY <1>10 DEF Sorted, List, Range
<1>12. /\ List(u, A) /\ Len(u) = k /\ Range(u) = {t[i] : i \in 1 .. k}
       /\ \A i \in 1 .. k : u[i] = t[i]
  BY <1>1, <1>11, BeginningIs
<1> HIDE DEF u
<1>13. Range(u) \subseteq Range(s)
  BY <1>within, <1>11, <1>12
<1>14. ASSUME NEW a \in Range(u), NEW q \in Range(s) \ Range(u)
       PROVE  score[a] <= score[q]
  <2>1. PICK i \in 1 .. k : a = t[i]
    BY <1>12
  <2>2. PICK b \in 1 .. n : q = t[b]
    BY <1>11
  <2>3. b \notin 1 .. k
    BY <1>12, <2>2
  <2> QED
    BY <1>1, <1>11, <2>1, <2>2, <2>3
<1>15. ASSUME k > 0, NEW q \in Range(s)
       PROVE  score[u[1]] <= score[q]
  <2>1. 1 \in 1 .. k /\ u[1] = t[1]
    BY <1>1, <1>12, <1>15
  <2>2. PICK b \in 1 .. n : q = t[b]
    BY <1>11
  <2> QED
    BY <1>1, <1>11, <2>1, <2>2
<1>16. Lowest(s, k, score) = u
  BY <1>5 DEF t, u
<1> QED
  BY <1>12, <1>13, <1>14, <1>15, <1>16

-----------------------------------------------------------------------------
(* The lists the strategies choose from, and what they answer.               *)
ChooseType == strategy \in Strategies /\ stats \in [Active -> Class] /\ counter \in Nat

LEMMA OrderIs ==
  /\ List(Order, Active) /\ ActiveCount \in Nat \ {0} /\ IsFiniteSet(Active)
  /\ Cardinality(Active) = ActiveCount /\ Active # {}
<1>1. List(Order, Active) /\ Order # <<>>
  BY ChoiceAssumption DEF List, Active
<1> QED
  BY <1>1, ListCounts DEF Active, ActiveCount

LEMMA MinIs ==
  ASSUME NEW D, D \subseteq Nat, D # {}
  PROVE  MinOf(D) \in D /\ \A e \in D : MinOf(D) <= e
<1>1. \E d \in D : \A e \in D : d <= e
  BY LeastOf
<1> QED
  BY <1>1 DEF MinOf

LEMMA ScoresAre ==
  ASSUME ChooseType
  PROVE  \A r \in Active : Loss(r) \in Nat /\ Penalty(r) \in Nat /\ Scores[r] \in Nat
<1> TAKE r \in Active
<1>1. /\ stats[r].sent \in Nat /\ stats[r].lost \in Nat
      /\ stats[r].rtts \in Nat /\ stats[r].latency \in Nat
  BY ChoiceAssumption DEF ChooseType
<1>2. Loss(r) \in Nat
  <2>1. CASE stats[r].sent < 5
    BY <2>1 DEF Loss
  <2>2. CASE ~ (stats[r].sent < 5)
    <3> DEFINE m == stats[r].sent
               x == stats[r].lost * 1000
    <3>1. m \in Nat \ {0} /\ x \in Nat /\ Loss(r) = x \div m
      BY <1>1, <2>2 DEF Loss
    <3> HIDE DEF m, x
    <3> QED
      BY <3>1, Quotients
  <2> QED
    BY <2>1, <2>2
<1>3. Latency(r) \in Nat
  BY <1>1 DEF Latency
<1>4. Penalty(r) \in Nat
  BY <1>3 DEF Penalty
<1>5. Scores[r] \in Nat
  <2>1. Scores[r] = IF strategy = "LeastLoss" THEN Loss(r) ELSE
                    IF strategy = "LowestLatency" THEN Latency(r) ELSE 8 * Loss(r) + Penalty(r)
    BY DEF Scores
  <2> QED
    BY <1>2, <1>3, <1>4, <2>1
<1> QED
  BY <1>2, <1>4, <1>5

(* A pool holds a resolver that loses at most 25 parts in a thousand more than any other. *)
Near(pool, s) == \E r \in Range(pool) : \A q \in Range(s) : Loss(r) <= Loss(q) + 25

LEMMA LossThenLatencyIs ==
  ASSUME ChooseType, NEW s, List(s, Active), s # <<>>
  PROVE  /\ List(LossThenLatency(s), Active) /\ Range(LossThenLatency(s)) \subseteq Range(s)
         /\ Near(LossThenLatency(s), s)
<1> DEFINE losses == {Loss(r) : r \in Range(s)}
           best == MinOf(losses)
           bound == best + (IF best >= 200 THEN 0 ELSE 25)
           short == Among(s, {r \in Active : Loss(r) <= bound})
           penalties == {Penalty(r) : r \in Range(short)}
           fast == MinOf(penalties)
           quarter == fast \div 4
           tolerance == IF fast >= 200 THEN 0 ELSE IF quarter < 2 THEN 2 ELSE
                        IF quarter > 25 THEN 25 ELSE quarter
           all == Among(short, {r \in Active : Penalty(r) <= fast + tolerance})
<1>1. Range(s) # {} /\ Range(s) \subseteq Active
  BY ListCounts
<1>2. \A r \in Active : Loss(r) \in Nat /\ Penalty(r) \in Nat
  BY ScoresAre
<1>3. best \in losses /\ best \in Nat /\ \A l \in losses : best <= l
  <2>1. losses \subseteq Nat /\ losses # {}
    BY <1>1, <1>2
  <2> HIDE DEF losses
  <2> QED
    BY <2>1, MinIs
<1> HIDE DEF best
<1>4. bound \in Nat /\ best <= bound /\ bound <= best + 25
  BY <1>3
<1> HIDE DEF bound
<1>5. List(short, Active) /\ Range(short) = Range(s) \cap {r \in Active : Loss(r) <= bound}
  BY AmongIs
<1> HIDE DEF short
<1>6. PICK r \in Range(s) : Loss(r) = best
  BY <1>3
<1>7. r \in Range(short)
  BY <1>1, <1>4, <1>5, <1>6
<1>8. fast \in penalties /\ fast \in Nat
  <2>1. penalties \subseteq Nat /\ penalties # {}
    BY <1>2, <1>5, <1>7
  <2> HIDE DEF penalties
  <2> QED
    BY <2>1, MinIs
<1> HIDE DEF fast
<1>9. fast <= fast + tolerance
  <2>1. quarter \in Int
    BY <1>8
  <2> HIDE DEF quarter
  <2> QED
    BY <1>8, <2>1
<1> HIDE DEF tolerance
<1>10. List(all, Active) /\ Range(all) = Range(short) \cap {q \in Active : Penalty(q) <= fast + tolerance}
  BY <1>5, AmongIs
<1> HIDE DEF all
<1>11. PICK f \in Range(short) : Penalty(f) = fast
  BY <1>8
<1>12. f \in Range(all) /\ Loss(f) <= bound
  BY <1>1, <1>5, <1>9, <1>10, <1>11
<1>13. \A q \in Range(s) : Loss(f) <= Loss(q) + 25
  <2> TAKE q \in Range(s)
  <2>1. best <= Loss(q) /\ Loss(q) \in Nat
    BY <1>1, <1>2, <1>3
  <2>2. Loss(f) \in Nat
    BY <1>1, <1>2, <1>5
  <2> QED
    BY <1>3, <1>4, <1>12, <2>1, <2>2
<1>14. LossThenLatency(s) = all
  BY DEF LossThenLatency, all, tolerance, fast, short, bound, best
<1> QED
  BY <1>5, <1>10, <1>12, <1>13, <1>14 DEF Near

LEMMA TopTierIs ==
  ASSUME ChooseType, NEW s, List(s, Active), s # <<>>
  PROVE  List(TopTier(s), Active) /\ Range(TopTier(s)) \subseteq Range(s) /\ Near(TopTier(s), s)
<1> DEFINE tenth == (Len(s) + 9) \div 10
           top == IF tenth < 2 THEN 2 ELSE tenth
           k == IF top > Len(s) THEN Len(s) ELSE top
           score == [r \in Active |-> Loss(r)]
           t == Lowest(s, k, score)
<1>1. Len(s) \in Nat /\ Len(s) > 0 /\ Range(s) \subseteq Active
  BY ListCounts
<1>2. k \in 0 .. Len(s) /\ k > 0
  <2>1. tenth \in Int
    BY <1>1
  <2> HIDE DEF tenth
  <2> QED
    BY <1>1, <2>1
<1> HIDE DEF k
<1>3. \A r \in Active : score[r] \in Nat /\ score[r] = Loss(r)
  BY ScoresAre
<1> HIDE DEF score
<1>4. /\ List(t, Active) /\ Len(t) = k /\ Range(t) \subseteq Range(s)
      /\ \A q \in Range(s) : score[t[1]] <= score[q]
  BY <1>2, <1>3, LowestIs
<1> HIDE DEF t
<1>5. t[1] \in Range(t) /\ t[1] \in Range(s)
  BY <1>2, <1>4, ListCounts
<1>6. \A q \in Range(s) : Loss(t[1]) <= Loss(q) + 25
  BY <1>1, <1>3, <1>4, <1>5
<1>7. TopTier(s) = t
  BY DEF TopTier, t, k, score
<1> QED
  BY <1>4, <1>5, <1>6, <1>7 DEF Near

LEMMA PoolIs ==
  ASSUME ChooseType, NEW s, List(s, Active)
  PROVE  /\ List(Pool(s), Active) /\ Range(Pool(s)) \subseteq Range(s)
         /\ s # <<>> /\ Signal => Near(Pool(s), s)
<1>1. CASE s = <<>> \/ ~ Signal
  <2>1. Pool(s) = <<>>
    BY <1>1 DEF Pool
  <2>2. List(<<>>, Active) /\ Range(<<>>) = {}
    BY DEF List, IsInjective, Range
  <2> QED
    BY <1>1, <2>1, <2>2
<1>2. CASE s # <<>> /\ Signal
  BY <1>2, LossThenLatencyIs, TopTierIs DEF Pool
<1> QED
  BY <1>1, <1>2

LEMMA LimitedIs ==
  ASSUME ChooseType, NEW pool, List(pool, Active), pool # <<>>, NEW k \in Nat \ {0}
  PROVE  LET t == Limited(pool, k)
         IN  List(t, Active) /\ t # <<>> /\ Len(t) <= k
<1>1. Len(pool) \in Nat /\ Len(pool) > 0
  BY ListCounts
<1>2. CASE k >= Len(pool)
  BY <1>1, <1>2 DEF Limited
<1>3. CASE ~ (k >= Len(pool))
  <2> DEFINE s == IF strategy = "LeastLossTopRoundRobin" THEN Rotated(pool) ELSE pool
             t == SubSeq(s, 1, k)
  <2>1. List(s, Active) /\ Len(s) = Len(pool)
    BY RotatedIs DEF ChooseType
  <2>2. Limited(pool, k) = t
    BY <1>3 DEF Limited
  <2> HIDE DEF s
  <2>3. k \in 0 .. Len(s)
    BY <1>1, <1>3, <2>1
  <2>4. List(t, Active) /\ Len(t) = k
    BY <2>1, <2>3, BeginningIs
  <2> HIDE DEF t
  <2>5. t # <<>>
    BY <2>4, ListCounts
  <2> QED
    BY <2>2, <2>4, <2>5
<1> QED
  BY <1>2, <1>3

(* The answers to a request for k: a list of at most k, of k unless from a pool, and by *)
(* score the best.                                                                      *)
Answer(u, k) ==
  /\ List(u, Active) /\ u # <<>> /\ Len(u) <= k
  /\ strategy \notin Pooled => Len(u) = k
BestOf(u) == \A r \in Range(u), q \in Active \ Range(u) : Scores[r] <= Scores[q]

LEMMA CountIs ==
  ASSUME NEW k \in Nat \ {0}
  PROVE  /\ Count(k) \in 1 .. ActiveCount /\ Count(k) \in Nat \ {0} /\ Count(k) \in 0 .. ActiveCount
         /\ k \in 1 .. ActiveCount => Count(k) = k
  BY OrderIs DEF Count

LEMMA UniqueIs ==
  ASSUME ChooseType, NEW k \in Nat \ {0}, NEW u \in Unique(k)
  PROVE  Answer(u, Count(k)) /\ (strategy \in Scored /\ Signal => BestOf(u))
<1> DEFINE c == Count(k)
           rotated == Rotated(Order)
<1>1. c \in 1 .. ActiveCount /\ c \in Nat \ {0} /\ c \in 0 .. ActiveCount
  BY CountIs
<1>2. /\ List(Order, Active) /\ ActiveCount \in Nat \ {0} /\ Len(Order) = ActiveCount
      /\ Range(Order) = Active
  BY OrderIs DEF ActiveCount, Active
<1>3. List(rotated, Active) /\ Len(rotated) = ActiveCount /\ Range(rotated) = Active
  BY <1>2, RotatedIs DEF ChooseType
<1>4. ASSUME NEW s, List(s, Active), Len(s) = ActiveCount, u = SubSeq(s, 1, c) PROVE Answer(u, c)
  <2>1. List(u, Active) /\ Len(u) = c
    BY <1>1, <1>4, BeginningIs
  <2>2. u # <<>>
    BY <1>1, <2>1, ListCounts
  <2> QED
    BY <1>1, <2>1, <2>2 DEF Answer
<1> HIDE DEF c
<1>5. \/ strategy = "Random" /\ u \in {SubSeq(f, 1, c) : f \in Arrangements(Active)}
      \/ strategy \in Pooled /\ Pool(Order) # <<>> /\ u = Limited(Pool(Order), c)
      \/ strategy \in Scored /\ Signal /\ u = Lowest(rotated, c, Scores)
      \/ /\ u = SubSeq(rotated, 1, c) /\ ~ (strategy \in Scored /\ Signal)
  BY DEF Unique, c
<1> HIDE DEF rotated
<1>6. CASE strategy = "Random" /\ u \in {SubSeq(f, 1, c) : f \in Arrangements(Active)}
  <2>1. PICK f \in Arrangements(Active) : u = SubSeq(f, 1, c)
    BY <1>6
  <2>2. f \in [1 .. ActiveCount -> Active] /\ IsInjective(f)
    BY OrderIs DEF Arrangements, IsInjective
  <2>3. List(f, Active) /\ Len(f) = ActiveCount
    BY <1>2, <2>2, SeqDef, LenProperties DEF List
  <2> QED
    BY <1>4, <1>6, <2>1, <2>3 DEF Scored, c
<1>7. CASE strategy \in Pooled /\ Pool(Order) # <<>> /\ u = Limited(Pool(Order), c)
  <2>1. List(Pool(Order), Active)
    BY <1>2, PoolIs
  <2>2. List(u, Active) /\ u # <<>> /\ Len(u) <= c
    BY <1>1, <1>7, <2>1, LimitedIs
  <2> QED
    BY <1>7, <2>2 DEF Answer, Pooled, Scored, c
<1>8. CASE strategy \in Scored /\ Signal /\ u = Lowest(rotated, c, Scores)
  <2>1. /\ List(u, Active) /\ Len(u) = c /\ Range(u) \subseteq Active
        /\ \A r \in Range(u), q \in Active \ Range(u) : Scores[r] <= Scores[q]
    BY <1>1, <1>3, <1>8, LowestIs, ScoresAre
  <2>2. u # <<>>
    BY <1>1, <2>1, ListCounts
  <2> QED
    BY <1>1, <2>1, <2>2 DEF Answer, BestOf, c
<1>9. CASE u = SubSeq(rotated, 1, c) /\ ~ (strategy \in Scored /\ Signal)
  BY <1>3, <1>4, <1>9 DEF c
<1> QED
  BY <1>5, <1>6, <1>7, <1>8, <1>9

LEMMA BestIs ==
  ASSUME ChooseType, ActiveCount > 1, NEW x \in Active, NEW r \in Best(x)
  PROVE  r \in Active \ {x}
<1> DEFINE rotated == Without(Rotated(Order), x)
           others == Without(Order, x)
           pool == PoolWithout(x)
<1>1. /\ List(Order, Active) /\ Range(Order) = Active
      /\ List(Rotated(Order), Active) /\ Range(Rotated(Order)) = Active
  BY OrderIs, RotatedIs DEF Active, ChooseType
<1>2. /\ List(rotated, Active) /\ Range(rotated) = Active \ {x}
      /\ List(others, Active) /\ Range(others) = Active \ {x}
  BY <1>1, AmongIs DEF Without
<1>3. List(pool, Active) /\ Range(pool) \subseteq Active \ {x}
  BY <1>2, PoolIs DEF PoolWithout
<1>4. Active \ {x} # {}
  <2>1. Cardinality(Active \ {x}) = ActiveCount - 1 /\ IsFiniteSet(Active \ {x})
    BY OrderIs, FS_RemoveElement
  <2> QED
    BY <2>1, OrderIs, FS_EmptySet
<1>5. rotated # <<>> /\ 1 \in 1 .. Len(rotated) /\ rotated[1] \in Active \ {x}
  BY <1>2, <1>4, ListCounts
<1> HIDE DEF rotated, pool
<1>6. \/ strategy \in Pooled /\ pool # <<>> /\ r = pool[(counter % Len(pool)) + 1]
      \/ strategy \in Pooled /\ r \in Range(pool)
      \/ strategy \in Scored /\ r \in Range(Lowest(rotated, 1, Scores))
      \/ r = Head(rotated)
  BY <1>5 DEF Best, rotated, pool
<1>7. CASE pool # <<>> /\ r = pool[(counter % Len(pool)) + 1]
  <2>1. /\ Len(pool) \in Nat \ {0} /\ counter \in Nat
        /\ \A i \in 1 .. Len(pool) : pool[i] \in Range(pool)
    BY <1>3, <1>7, ListCounts DEF ChooseType
  <2>2. counter % Len(pool) \in 0 .. Len(pool) - 1
    BY <2>1, Quotients
  <2>3. (counter % Len(pool)) + 1 \in 1 .. Len(pool)
    BY <2>1, <2>2
  <2> QED
    BY <1>3, <1>7, <2>1, <2>3
<1>8. CASE r \in Range(Lowest(rotated, 1, Scores))
  <2>1. 1 \in 0 .. Len(rotated)
    BY <1>5
  <2>2. Range(Lowest(rotated, 1, Scores)) \subseteq Range(rotated)
    BY <1>2, <2>1, LowestIs, ScoresAre
  <2> QED
    BY <1>2, <1>8, <2>2
<1>9. CASE r = Head(rotated)
  BY <1>5, <1>9
<1> QED
  BY <1>3, <1>6, <1>7, <1>8, <1>9

(* The preferred resolver, and others. *)
LEMMA TargetsAre ==
  ASSUME ChooseType, NEW k \in 1 .. ActiveCount, NEW p \in Active, NEW t \in Targets(k, p)
  PROVE  Answer(t, k) /\ (k > 1 => Head(t) = p)
<1>1. ActiveCount \in Nat \ {0} /\ k \in Nat \ {0} /\ Count(k) = k /\ Count(1) = 1 /\ 1 \in Nat \ {0}
  BY OrderIs, CountIs DEF Count
<1>2. CASE k = 1
  BY <1>1, <1>2, UniqueIs DEF Targets
<1>3. CASE k # 1
  <2>1. PICK u \in Unique(k) : t = <<p>> \o SubSeq(Without(u, p), 1, MinOf({k - 1, Len(Without(u, p))}))
    BY <1>1, <1>3 DEF Targets
  <2> DEFINE others == Without(u, p)
             c == MinOf({k - 1, Len(others)})
             rest == SubSeq(others, 1, c)
  <2>2. Answer(u, k)
    BY <1>1, UniqueIs
  <2>3. List(others, Active) /\ Range(others) = Range(u) \ {p}
    <3>1. Range(u) \subseteq Active
      BY <2>2, ListCounts DEF Answer
    <3> QED
      BY <2>2, <3>1, AmongIs DEF Answer, Without
  <2> HIDE DEF others
  <2>4. Len(others) \in Nat /\ Len(u) \in Nat /\ Len(others) >= Len(u) - 1
    <3>1. /\ Cardinality(Range(others)) = Len(others) /\ Len(others) \in Nat
          /\ Cardinality(Range(u)) = Len(u) /\ Len(u) \in Nat /\ IsFiniteSet(Range(u))
      BY <2>2, <2>3, ListCounts DEF Answer
    <3>2. Cardinality(Range(u) \ {p}) = IF p \in Range(u) THEN Len(u) - 1 ELSE Len(u)
      BY <3>1, FS_RemoveElement
    <3> QED
      BY <2>3, <3>1, <3>2
  <2>5. /\ c \in Nat /\ c <= k - 1 /\ c <= Len(others)
        /\ c = k - 1 \/ c = Len(others)
    <3>1. {k - 1, Len(others)} \subseteq Nat /\ {k - 1, Len(others)} # {}
      BY <1>1, <2>4
    <3>2. c \in {k - 1, Len(others)} /\ \A e \in {k - 1, Len(others)} : c <= e
      BY <3>1, MinIs
    <3> QED
      BY <3>1, <3>2
  <2> HIDE DEF c
  <2>6. /\ List(rest, Active) /\ Len(rest) = c /\ p \notin Range(rest)
    <3>1. c \in 0 .. Len(others)
      BY <2>4, <2>5
    <3>2. /\ List(rest, Active) /\ Len(rest) = c /\ Range(rest) = {others[i] : i \in 1 .. c}
      BY <2>3, <3>1, BeginningIs
    <3>3. \A i \in 1 .. c : others[i] \in Range(others)
      BY <2>3, <2>4, <3>1, ListCounts
    <3> QED
      BY <2>3, <3>2, <3>3
  <2>7. t = <<p>> \o rest
    BY <2>1 DEF c, others
  <2> HIDE DEF rest
  <2>8. /\ t \in Seq(Active) /\ Len(t) = 1 + c /\ t[1] = p
        /\ \A i \in 2 .. 1 + c : t[i] = rest[i - 1]
    <3>1. <<p>> \in Seq(Active) /\ Len(<<p>>) = 1 /\ <<p>>[1] = p
      OBVIOUS
    <3>2. /\ t \in Seq(Active) /\ Len(t) = 1 + c
          /\ \A i \in 1 .. 1 + c : t[i] = IF i <= 1 THEN <<p>>[i] ELSE rest[i - 1]
      BY <2>6, <2>7, <3>1, ConcatProperties DEF List
    <3> QED
      BY <2>5, <3>1, <3>2
  <2>9. IsInjective(t)
    <3>1. DOMAIN t = 1 .. 1 + c
      BY <2>8, LenProperties
    <3>2. /\ \A i \in 1 .. c : rest[i] \in Range(rest)
          /\ \A i, j \in 1 .. c : rest[i] = rest[j] => i = j
      BY <2>6, ListCounts DEF List, IsInjective
    <3>3. \A i \in 1 .. 1 + c : i # 1 => i \in 2 .. 1 + c /\ i - 1 \in 1 .. c
      BY <2>5
    <3>4. ASSUME NEW i \in 1 .. 1 + c, NEW j \in 1 .. 1 + c, t[i] = t[j] PROVE i = j
      <4>1. CASE i = 1 /\ j # 1
        BY <2>6, <2>8, <3>2, <3>3, <3>4, <4>1
      <4>2. CASE i # 1 /\ j = 1
        BY <2>6, <2>8, <3>2, <3>3, <3>4, <4>2
      <4>3. CASE i # 1 /\ j # 1
        <5>1. i - 1 = j - 1
          BY <2>8, <3>2, <3>3, <3>4, <4>3
        <5> QED
          BY <2>5, <5>1
      <4> QED
        BY <4>1, <4>2, <4>3
    <3> QED
      BY <3>1, <3>4 DEF IsInjective
  <2>10. t # <<>> /\ Head(t) = p
    BY <2>5, <2>8
  <2>11. Len(t) <= k /\ (strategy \notin Pooled => Len(t) = k)
    <3>1. strategy \notin Pooled => Len(u) = k
      BY <2>2 DEF Answer
    <3> QED
      BY <1>1, <2>4, <2>5, <2>8, <3>1
  <2> QED
    BY <2>8, <2>9, <2>10, <2>11 DEF Answer, List
<1> QED
  BY <1>2, <1>3

-----------------------------------------------------------------------------
ChooseInv == ChooseType /\ PicksDistinct /\ BestTaken

(* The pool of a strategy has a resolver near the least loss, whatever is asked. *)
LEMMA PoolNear ==
  ASSUME ChooseType, strategy \in Pooled, LossSignal
  PROVE  \E r \in Range(Pool(Order)) : \A q \in Active : Loss(r) <= Loss(q) + 25
<1>1. Signal
  BY DEF Signal, Pooled
<1>2. List(Order, Active) /\ Order # <<>> /\ Range(Order) = Active
  BY OrderIs, ChoiceAssumption DEF Active
<1>3. Near(Pool(Order), Order)
  BY <1>1, <1>2, PoolIs
<1> QED
  BY <1>2, <1>3 DEF Near

LEMMA ChooseStarts == ASSUME ChooseInit PROVE ChooseInv
<1>1. ChooseType /\ asked.what = "nothing"
  BY DEF ChooseInit, ChooseType
<1> QED
  BY <1>1, PoolNear DEF ChooseInv, PicksDistinct, BestTaken

(* The balancer looks at what it does not change. *)
LEMMA SameStatistics ==
  ASSUME ChooseType, NEW k \in Nat, NEW all, Advance(k, all)
  PROVE  /\ ChooseType' /\ strategy' = strategy /\ stats' = stats
         /\ Scores' = Scores /\ Signal' = Signal
<1>1. strategy' = strategy /\ stats' = stats
  BY DEF Advance
<1>2. (counter + k) % Cycle \in Nat
  <2>1. counter + k \in Nat /\ Cycle \in Nat \ {0}
    BY ChoiceAssumption DEF ChooseType
  <2>2. (counter + k) % Cycle \in 0 .. Cycle - 1
    BY <2>1, Quotients
  <2> QED
    BY <2>1, <2>2
<1>3. counter' = counter \/ counter' = (counter + k) % Cycle
  BY DEF Advance
<1>4. ChooseType'
  BY <1>1, <1>2, <1>3 DEF ChooseType
<1>5. Scores' = Scores
  BY <1>1 DEF Scores, Loss, Latency, Penalty
<1>6. Signal' = Signal
  BY <1>1 DEF Signal, LossSignal, LatencySignal
<1> QED
  BY <1>1, <1>4, <1>5, <1>6

(* BestTaken is about the statistics, except for an answer to a request for several. *)
LEMMA BestStays ==
  ASSUME ChooseType',
         (asked.what = "unique" /\ strategy \in Scored /\ Signal => BestOf(picked))'
  PROVE  BestTaken'
<1>1. (strategy \in Pooled /\ LossSignal
        => \E r \in Range(Pool(Order)) : \A q \in Active : Loss(r) <= Loss(q) + 25)'
  BY PoolNear, PTL
<1> QED
  BY <1>1 DEF BestTaken, BestOf

LEMMA AskUniqueKeeps ==
  ASSUME ChooseInv, NEW k \in 1 .. ActiveCount + 1, AskUnique(k) PROVE ChooseInv'
<1>1. ChooseType /\ k \in Nat \ {0} /\ Count(k) \in Nat
  BY CountIs, OrderIs DEF ChooseInv
<1>2. PICK u \in Unique(k) : picked' = u
  BY DEF AskUnique
<1>3. asked' = [what |-> "unique", count |-> k] /\ Advance(Count(k), TRUE)
  BY DEF AskUnique
<1>4. /\ ChooseType' /\ strategy' = strategy /\ stats' = stats
      /\ Scores' = Scores /\ Signal' = Signal
  BY <1>1, <1>3, SameStatistics
<1>5. Answer(u, Count(k)) /\ (strategy \in Scored /\ Signal => BestOf(u)) /\ Range(u) \subseteq Active
  BY <1>1, UniqueIs, ListCounts DEF Answer
<1>6. PicksDistinct'
  BY <1>2, <1>3, <1>4, <1>5 DEF PicksDistinct, Answer, List
<1>7. BestTaken'
  BY <1>2, <1>4, <1>5, BestStays DEF BestOf
<1> QED
  BY <1>4, <1>6, <1>7 DEF ChooseInv

LEMMA AskTargetsKeeps ==
  ASSUME ChooseInv, NEW k \in 1 .. ActiveCount, NEW p \in Active, AskTargets(k, p) PROVE ChooseInv'
<1>1. ChooseType /\ k \in Nat \ {0} /\ Count(k) = k
  BY CountIs, OrderIs DEF ChooseInv
<1>2. PICK t \in Targets(k, p) : picked' = t
  BY DEF AskTargets
<1>3. /\ asked' = [what |-> "targets", count |-> k, preferred |-> p]
      /\ Advance(Count(k), TRUE)
  BY DEF AskTargets
<1>4. ChooseType' /\ strategy' = strategy
  BY <1>1, <1>3, SameStatistics
<1>5. Answer(t, k) /\ (k > 1 => Head(t) = p) /\ Range(t) \subseteq Active
  BY <1>1, TargetsAre, ListCounts DEF Answer
<1>6. PicksDistinct'
  BY <1>1, <1>2, <1>3, <1>4, <1>5 DEF PicksDistinct, Answer, List
<1>7. BestTaken'
  BY <1>3, <1>4, BestStays
<1> QED
  BY <1>4, <1>6, <1>7 DEF ChooseInv

LEMMA AskBestKeeps ==
  ASSUME ChooseInv, NEW x \in Active, AskBest(x) PROVE ChooseInv'
<1>1. PICK r \in Best(x) : picked' = <<r>>
  BY DEF AskBest
<1>2. asked' = [what |-> "best", without |-> x] /\ Advance(1, FALSE)
  BY DEF AskBest
<1>3. ChooseType' /\ strategy' = strategy
  BY <1>2, SameStatistics DEF ChooseInv
<1>4. ActiveCount > 1 => r \in Active \ {x}
  BY BestIs DEF ChooseInv
<1>5. PicksDistinct'
  BY <1>1, <1>2, <1>4 DEF PicksDistinct
<1>6. BestTaken'
  BY <1>2, <1>3, BestStays
<1> QED
  BY <1>3, <1>5, <1>6 DEF ChooseInv

LEMMA ChooseInvariance == ChooseSpec => []ChooseInv
<1>1. ASSUME ChooseInv, [ChooseNext]_chooseVars PROVE ChooseInv'
  <2>1. CASE ChooseNext
    BY <1>1, <2>1, AskUniqueKeeps, AskTargetsKeeps, AskBestKeeps DEF ChooseNext
  <2>2. CASE UNCHANGED chooseVars
    <3>1. ChooseInv /\ UNCHANGED <<strategy, stats, counter, asked, picked>>
      BY <1>1, <2>2 DEF chooseVars
    <3>2. ChooseType' /\ PicksDistinct'
      BY <3>1 DEF ChooseInv, ChooseType, PicksDistinct
    <3>3. (asked.what = "unique" /\ strategy \in Scored /\ Signal => BestOf(picked))'
      BY <3>1 DEF ChooseInv, BestTaken, BestOf, Scores, Signal, LossSignal, LatencySignal,
                  Loss, Latency, Penalty
    <3> QED
      BY <3>2, <3>3, BestStays DEF ChooseInv
  <2> QED
    BY <1>1, <2>1, <2>2
<1> QED
  BY <1>1, ChooseStarts, PTL DEF ChooseSpec

(* For any active resolvers, statistics and strategies: copies of a packet go to       *)
(* different active resolvers, the preferred one first, as many as asked for unless a  *)
(* pool confines the choice, and a failover leaves the resolver it is to leave.        *)
THEOREM CopiesApart == ChooseSpec => []PicksDistinct
<1>1. ChooseInv => PicksDistinct
  BY DEF ChooseInv
<1> QED
  BY <1>1, ChooseInvariance, PTL

(* For any active resolvers and statistics: a strategy by score leaves out nothing     *)
(* better than it took, and a pool holds a resolver that is near the least loss.       *)
THEOREM BestAreTaken == ChooseSpec => []BestTaken
<1>1. ChooseInv => BestTaken
  BY DEF ChooseInv
<1> QED
  BY <1>1, ChooseInvariance, PTL
=============================================================================
