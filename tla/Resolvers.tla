----------------------------- MODULE Resolvers -----------------------------
(***************************************************************************)
(* client/balancer.go and the health loop of client/mtu.go: which          *)
(* resolvers carry the tunnel.  Writers send a request and register it     *)
(* afterwards; processors take the answers; the health loop counts what    *)
(* stays unanswered and probes the resolvers that were disabled.  Whoever  *)
(* counts a timeout may disable the resolver, after a probe that runs      *)
(* without the lock.                                                       *)
(*                                                                         *)
(* Time is a choice: a statistics window, the timeout of a request and the *)
(* interval between two probes of one resolver may end at any moment.      *)
(***************************************************************************)
EXTENDS Integers, Sequences, FiniteSets

CONSTANTS
  Resolver,
  Used,          \* the resolvers that requests go to; the others only count
  Rejected,      \* one that the MTU scan may have rejected
  DnsId,         \* 16-bit ids of DNS messages; few, so that they are used again
  Stream,
  Writer, Processor,
  Health,        \* the goroutine of runResolverHealthLoop
  NoResolver,
  HardCap,       \* resolverPendingHardCap
  Grain,         \* how many requests one modelled request stands for
  Threshold,     \* streamFailoverThreshold
  MaxSends, MaxFlips

VARIABLES
  active, inactive,   \* activeIDs as a set; inactiveIDs in order
  healthRR,           \* healthRRCounter, modulo a common multiple of the lengths
  recent,             \* resolvers probed less than the interval ago
  batch,              \* resolvers that the running health batch probes
  window,             \* windowSent and windowLost
  pending,            \* pending[k]: the sample of request k
  pendingSize,
  wire,               \* requests that may still be answered
  writer, reporter,   \* what the goroutines are doing
  route,              \* route[s]: the state of stream s
  answers,            \* resolvers through which the server answers; any may send an error
  others,             \* history: resolvers disabled while a goroutine confirms its suspicion
  sends, flips

vars == <<active, inactive, healthRR, recent, batch, window, pending, pendingSize,
          wire, writer, reporter, route, answers, others, sends, flips>>

choice  == <<active, inactive, window, route>>
health  == <<healthRR, recent, batch>>
samples == <<pending, pendingSize>>
world   == <<answers, flips, others>>

Key      == Used \X DnsId
Reporter == Processor \cup {Health}
Kept     == {k \in Key : pending[k] # "none"}
Idle     == [at |-> "idle", todo |-> <<>>]
Empty    == [sent |-> 0, lost |-> 0]
NoRoute  == [on |-> FALSE, preferred |-> NoResolver, streak |-> 0]
RRCycle  == 6

Init ==
  /\ \/ active = Resolver /\ inactive = <<>>
     \/ active = Resolver \ {Rejected} /\ inactive = <<Rejected>>
  /\ healthRR = 0 /\ recent = {} /\ batch = {}
  /\ window = [r \in Resolver |-> Empty]
  /\ pending = [k \in Key |-> "none"] /\ pendingSize = 0
  /\ wire = {}
  /\ writer = [w \in Writer |-> [at |-> "idle"]]
  /\ reporter = [p \in Reporter |-> Idle]
  /\ route = [s \in Stream |-> NoRoute]
  /\ answers = Resolver \ Used
  /\ others = [p \in Reporter |-> 0]
  /\ sends = 0 /\ flips = 0

-----------------------------------------------------------------------------
(* The active set *)

\* autoDisableMinObservationsForActiveCount, scaled for a window of 30 s up to 60 s.
MinObservations(n) ==
  (IF n <= 3 THEN 1000000 ELSE 2 * (IF n <= 5 THEN 48 ELSE IF n <= 8 THEN 40 ELSE
                                    IF n <= 10 THEN 34 ELSE 26)) \div Grain

\* clearPreferredResolverReferencesLocked
Forget(r) == route' = [s \in Stream |->
  IF route[s].preferred = r THEN [route[s] EXCEPT !.preferred = NoResolver, !.streak = 0]
  ELSE route[s]]

\* moveConnectionStateLocked: a removal puts the last element in the gap.
Deactivate(r) == active' = active \ {r} /\ inactive' = Append(inactive, r)

Activate(r) ==
  LET n == Len(inactive) IN
  /\ active' = active \cup {r}
  /\ inactive' = [i \in 1 .. n - 1 |-> IF inactive[i] = r THEN inactive[n] ELSE inactive[i]]

ResetWindow(r) == window' = [window EXCEPT ![r] = Empty]

\* ensureWindowLocked and one more request, sent or lost.
Counted(r, field, ended) ==
  LET before == IF ended THEN Empty ELSE window[r]
  IN [window EXCEPT ![r] = [before EXCEPT ![field] = @ + 1]]

-----------------------------------------------------------------------------
(* Requests: asyncWriterWorker and TrackResolverSend *)

Remove(keys) ==
  /\ pending' = [k \in Key |-> IF k \in keys THEN "none" ELSE pending[k]]
  /\ pendingSize' = pendingSize - Cardinality(keys \cap Kept)

\* The datagram leaves before anything is registered.
Write(w, k) ==
  /\ writer[w].at = "idle" /\ sends < MaxSends /\ k[1] \in active
  /\ wire' = wire \cup {k}
  /\ writer' = [writer EXCEPT ![w] = [at |-> "register", key |-> k]]
  /\ sends' = sends + 1
  /\ UNCHANGED <<choice, health, samples, reporter, world>>

\* evictSomePendingGlobal, when size has reached the cap: any samples of S, down to
\* one below the cap if there are enough.
Evicted(S, size) == IF size < HardCap THEN {{}} ELSE {K \in SUBSET S :
  \/ Cardinality(K) = size - HardCap + 1
  \/ Cardinality(K) < size - HardCap + 1 /\ K = S}

\* a bug: an id that is used again is counted again
RegisterAlwaysCounted(w) ==
  LET k == writer[w].key IN
  /\ writer[w].at = "register"
  /\ \E K \in Evicted(Kept, pendingSize) :
       /\ pending' = [j \in Key |-> IF j = k THEN "sent" ELSE IF j \in K THEN "none" ELSE pending[j]]
       /\ pendingSize' = pendingSize - Cardinality(K) + 1
  /\ writer' = [writer EXCEPT ![w].at = "count"]
  /\ UNCHANGED <<choice, health, wire, reporter, world, sends>>

\* The sample of an earlier request with the same key is overwritten.
Register(w) ==
  LET k == writer[w].key IN
  /\ writer[w].at = "register"
  /\ \E K \in Evicted(Kept, pendingSize) :
       /\ pending' = [j \in Key |-> IF j = k THEN "sent" ELSE IF j \in K THEN "none" ELSE pending[j]]
       /\ pendingSize' = pendingSize - Cardinality(K) + (IF k \in Kept \ K THEN 0 ELSE 1)
  /\ writer' = [writer EXCEPT ![w].at = "count"]
  /\ UNCHANGED <<choice, health, wire, reporter, world, sends>>

Count(w) ==
  /\ writer[w].at = "count"
  /\ \E ended \in BOOLEAN : window' = Counted(writer[w].key[1], "sent", ended)
  /\ writer' = [writer EXCEPT ![w] = [at |-> "idle"]]
  /\ UNCHANGED <<active, inactive, route, health, samples, wire, reporter, world, sends>>

-----------------------------------------------------------------------------
(* Answers: TrackResolverSuccess and TrackResolverFailure *)

\* An answer takes its sample; a success after the timeout takes the loss back,
\* a failure before it counts as one.
Answer(p, k, failed) ==
  /\ reporter[p].at = "idle" /\ k \in wire /\ (k[1] \in answers \/ failed)
  /\ wire' = wire \ {k}
  /\ Remove({k})
  /\ reporter' = [reporter EXCEPT ![p] =
       CASE ~failed /\ pending[k] = "late" -> [at |-> "retract", todo |-> <<k[1]>>]
         [] failed /\ pending[k] = "sent"  -> [at |-> "report", todo |-> <<k[1]>>]
         [] OTHER -> Idle]
  /\ UNCHANGED <<choice, health, writer, world, sends>>

Retract(p) ==
  LET r == Head(reporter[p].todo) IN
  /\ reporter[p].at = "retract"
  /\ \E ended \in BOOLEAN :
       window' = IF ended THEN [window EXCEPT ![r] = Empty]
                 ELSE [window EXCEPT ![r].lost = IF @ = 0 THEN 0 ELSE @ - 1]
  /\ reporter' = [reporter EXCEPT ![p] = Idle]
  /\ UNCHANGED <<active, inactive, route, health, samples, wire, writer, world, sends>>

-----------------------------------------------------------------------------
(* ReportTimeout *)

\* What a reporter does after the resolver at the head of its list.
Continue(p) == LET rest == Tail(reporter[p].todo) IN
  [at |-> IF rest # <<>> THEN "report" ELSE IF p = Health THEN "health" ELSE "idle",
   todo |-> rest]

\* Nothing but losses in the window, enough of them, and resolvers to spare.
AllLost(r, w) == w.sent >= MinObservations(Cardinality(active)) /\ w.lost = w.sent
Spare == Cardinality(active) > 2

\* a bug: neither the least number of requests nor the resolvers that are left matter
SuspectEven(r, w) == r \in active /\ w.sent >= 1 /\ w.lost = w.sent
Suspect(r, w) == r \in active /\ AllLost(r, w) /\ Spare

\* With at most 20 active resolvers the suspicion is confirmed by a probe first.
Report(p) ==
  LET r == Head(reporter[p].todo) IN
  /\ reporter[p].at = "report"
  /\ \E ended \in BOOLEAN :
       LET counted == Counted(r, "lost", ended) IN
       /\ window' = counted
       /\ reporter' = [reporter EXCEPT ![p] =
            IF Suspect(r, counted[r]) THEN [@ EXCEPT !.at = "confirm"] ELSE Continue(p)]
  /\ UNCHANGED <<active, inactive, route, health, samples, wire, writer, world, sends>>

\* a bug: the streams that prefer the resolver keep it
DisableSilently(r) == Deactivate(r) /\ ResetWindow(r) /\ UNCHANGED route
Disable(r) == Deactivate(r) /\ ResetWindow(r) /\ Forget(r)

\* confirmResolverDown has run; the count of active resolvers is not looked at again.
Confirm(p) ==
  LET r    == Head(reporter[p].todo)
      down == r \in active /\ r \notin answers
  IN
  /\ reporter[p].at = "confirm"
  /\ CASE r \notin active -> UNCHANGED choice
       [] r \in active /\ r \in answers -> ResetWindow(r) /\ UNCHANGED <<active, inactive, route>>
       [] OTHER -> Disable(r)
  /\ reporter' = [reporter EXCEPT ![p] = Continue(p)]
  /\ others' = [q \in Reporter |-> IF q = p \/ reporter[q].at # "confirm" THEN 0
                                  ELSE IF down THEN others[q] + 1 ELSE others[q]]
  /\ UNCHANGED <<health, samples, wire, writer, answers, flips, sends>>

-----------------------------------------------------------------------------
(* runResolverHealthLoop *)

Orders(S) == {f \in [1 .. Cardinality(S) -> S] : \A i, j \in DOMAIN f : f[i] = f[j] => i = j}

\* CollectExpiredResolverTimeouts: some samples time out, some that did so before
\* are dropped, and the table is brought below its cap.
Sweep ==
  /\ reporter[Health].at = "idle"
  /\ \E late \in SUBSET {k \in Key : pending[k] = "sent"},
        gone \in SUBSET {k \in Key : pending[k] = "late"} :
       LET left == pendingSize - Cardinality(gone) IN
       \E evict \in Evicted(Kept \ gone, left) :
         /\ pending' = [k \in Key |-> IF k \in gone \cup evict THEN "none" ELSE
                                      IF k \in late THEN "late" ELSE pending[k]]
         /\ pendingSize' = left - Cardinality(evict)
         /\ \E order \in Orders(late) :
              reporter' = [reporter EXCEPT ![Health] =
                [at |-> IF late = {} THEN "health" ELSE "report",
                 todo |-> [i \in DOMAIN order |-> order[i][1]]]]
  /\ UNCHANGED <<choice, health, wire, writer, world, sends>>

\* resolverHealthBatchSize for up to 10 inactive resolvers.
BatchSize(act, inact) ==
  LET least(a, b) == IF a <= b THEN a ELSE b
      byInactive == IF inact <= 2 THEN 1 ELSE IF inact <= 5 THEN 2 ELSE 3
  IN IF inact = 0 THEN 1 ELSE least(inact,
       IF act <= 3 THEN least(byInactive, 2) ELSE IF act <= 5 THEN least(byInactive, 3) ELSE byInactive)

\* The loop asks for its parallelism once, before it starts.
Parallelism == BatchSize(Cardinality(Resolver), 0)

\* a bug: the search starts at the first one each time
InOrder(i) == inactive[i]
\* NextInactiveConnectionForHealthCheck: in turn, from the counter on.
InTurn(i) == inactive[((healthRR + i - 1) % Len(inactive)) + 1]
FirstDue == LET n == Len(inactive)
                due == {i \in 1 .. n : InTurn(i) \notin recent}
            IN {InTurn(i) : i \in {j \in due : \A k \in due : j <= k}}

Select ==
  /\ reporter[Health].at = "health"
  /\ IF Cardinality(batch) < Parallelism /\ FirstDue # {}
     THEN batch' = batch \cup FirstDue /\ recent' = recent \cup FirstDue /\ UNCHANGED reporter
     ELSE reporter' = [reporter EXCEPT ![Health].at = "recheck"] /\ UNCHANGED <<recent, batch>>
  /\ healthRR' = IF Cardinality(batch) < Parallelism /\ inactive # <<>>
                 THEN (healthRR + 1) % RRCycle ELSE healthRR
  /\ UNCHANGED <<choice, samples, wire, writer, world, sends>>

\* recheckInactiveResolver
Recheck(r) ==
  /\ reporter[Health].at = "recheck" /\ r \in batch
  /\ batch' = batch \ {r}
  /\ IF r \in answers /\ r \notin active
     THEN Activate(r) /\ ResetWindow(r) ELSE UNCHANGED <<active, inactive, window>>
  /\ UNCHANGED <<healthRR, recent, route, samples, wire, writer, reporter, world, sends>>

\* The batch is done (wg.Wait) and the poll interval passes, and with it, now and then,
\* the interval after which a resolver may be probed again.
Rest(long) ==
  /\ reporter[Health].at = "recheck" /\ batch = {}
  /\ reporter' = [reporter EXCEPT ![Health] = Idle]
  /\ recent' = IF long THEN {} ELSE recent
  /\ UNCHANGED <<choice, healthRR, batch, samples, wire, writer, world, sends>>

-----------------------------------------------------------------------------
(* Routes of streams *)

EnsureStream(s) ==
  /\ ~route[s].on
  /\ route' = [route EXCEPT ![s].on = TRUE]
  /\ UNCHANGED <<active, inactive, window, health, samples, wire, writer, reporter, world, sends>>

CleanupStream(s) ==
  /\ route' = [route EXCEPT ![s] = NoRoute] /\ route[s].on
  /\ UNCHANGED <<active, inactive, window, health, samples, wire, writer, reporter, world, sends>>

NoteStreamProgress(s) ==
  /\ route[s].on
  /\ route' = [route EXCEPT ![s].streak = 0]
  /\ UNCHANGED <<active, inactive, window, health, samples, wire, writer, reporter, world, sends>>

\* selectPreferredConnectionForStreamLocked, for a packet that is sent more than once:
\* keep the preferred resolver, or fail over after enough resends, or choose anew.
SelectTargets(s, resend) ==
  LET current == route[s].preferred
      streak == IF resend /\ route[s].streak < Threshold - 1 THEN route[s].streak + 1
                ELSE route[s].streak       \* the next resend is compared with the threshold
      choose(S) == \E r \in S : route' = [route EXCEPT ![s].preferred = r, ![s].streak = 0]
  IN
  /\ route[s].on /\ Cardinality(active) >= 2
  /\ IF current \notin active THEN choose(active \ {current})
     ELSE \/ route' = [route EXCEPT ![s].streak = streak]      \* below threshold, or cooling down
          \/ resend /\ route[s].streak >= Threshold - 1 /\ choose(active \ {current})
  /\ UNCHANGED <<active, inactive, window, health, samples, wire, writer, reporter, world, sends>>

-----------------------------------------------------------------------------
\* A resolver that was disabled answers again.
ComeBack(r) ==
  /\ flips < MaxFlips /\ flips' = flips + 1
  /\ r \in Used \ (answers \cup active) /\ answers' = answers \cup {r}
  /\ UNCHANGED <<choice, health, samples, wire, writer, reporter, others, sends>>

Next ==
  \/ \E w \in Writer : (\E k \in Key : Write(w, k)) \/ Register(w) \/ Count(w)
  \/ \E p \in Processor, k \in Key, failed \in BOOLEAN : Answer(p, k, failed)
  \/ \E p \in Processor : Retract(p)
  \/ \E p \in Reporter : Report(p) \/ Confirm(p)
  \/ Sweep \/ Select \/ \E long \in BOOLEAN : Rest(long)
  \/ \E r \in Resolver : Recheck(r) \/ ComeBack(r)
  \/ \E s \in Stream : EnsureStream(s) \/ CleanupStream(s) \/ NoteStreamProgress(s)
                       \/ \E resend \in BOOLEAN : SelectTargets(s, resend)

Spec == Init /\ [][Next]_vars

\* The health loop is a goroutine of its own that nothing blocks for ever, and time passes.
Fairness ==
  /\ WF_vars(Sweep) /\ WF_vars(Select) /\ SF_vars(Rest(TRUE))
  /\ WF_vars(Report(Health)) /\ WF_vars(Confirm(Health))
  /\ \A r \in Used : WF_vars(Recheck(r))

FairSpec == Spec /\ Fairness
-----------------------------------------------------------------------------
(* Properties *)

TypeOK ==
  /\ active \subseteq Resolver /\ inactive \in Seq(Resolver)
  /\ healthRR \in 0 .. RRCycle - 1 /\ recent \subseteq Resolver /\ batch \subseteq Resolver
  /\ window \in [Resolver -> [sent : Nat, lost : Nat]]
  /\ pending \in [Key -> {"none", "sent", "late"}] /\ pendingSize \in Int
  /\ wire \subseteq Key /\ answers \subseteq Resolver /\ others \in [Reporter -> Nat]
  /\ \A p \in Reporter : reporter[p].todo \in Seq(Resolver)
  /\ route \in [Stream -> [on : BOOLEAN, preferred : Resolver \cup {NoResolver},
                          streak : 0 .. Threshold - 1]]
  \* each resolver is in exactly one of the two lists (moveConnectionStateLocked)
  /\ Len(inactive) = Cardinality(Resolver \ active)
  /\ {inactive[i] : i \in DOMAIN inactive} = Resolver \ active

(* The size that the caps are tested against is the number of samples, whichever of   *)
(* answers, sweeps, evictions and requests that use an id again meet in the table.    *)
PendingExact == pendingSize = Cardinality(Kept)

(* Each resolver is in one of the two lists, and a stream never prefers one that was  *)
(* disabled, however the disabling, the failover and the recheck interleave           *)
(* (moveConnectionStateLocked, clearPreferredResolverReferencesLocked).               *)
PreferredActive ==
  TypeOK /\ \A s \in Stream : route[s].preferred \in active \cup {NoResolver}

(* Who disables a resolver leaves the code's floor of active ones, but for those that *)
(* other goroutines have disabled since its own check: ReportTimeout counts before    *)
(* the probe and not after it, so goroutines that confirm at once take one each, down *)
(* to none.  The floor is three, or minActive where a window can count a million.     *)
Floor == IF MaxSends < MinObservations(3) THEN 3 ELSE 2

LastActive ==
  [][\A p \in Reporter :
       reporter[p].at = "confirm" /\ reporter'[p].at # "confirm" /\ active' # active
         => Cardinality(active') + others[p] >= Floor]_vars

(* A resolver that answers again, and goes on answering, is in use again, whatever    *)
(* other disabled resolvers there are to probe (runResolverHealthLoop).               *)
Recovers == \A r \in Used : <>[](r \in answers) => []<>(r \in active)
=============================================================================
