--------------------------- MODULE ResolverChoice ---------------------------
(***************************************************************************)
(* client/balancer.go: how the strategies choose resolvers among the       *)
(* active ones.  One behaviour is one set of statistics and one strategy;  *)
(* each step asks the balancer once.  Where the code draws a random number *)
(* the choice is free.                                                     *)
(***************************************************************************)
EXTENDS Naturals, Sequences, FiniteSets, Functions

CONSTANTS
  Order,      \* activeIDs
  Class,      \* the statistics a resolver may have: [sent, lost, rtts, latency in ms]
  Strategies,
  NoResolver,
  Cycle       \* rrCounter is modulo this, a multiple of every length of a list

ASSUME ChoiceAssumption ==
  /\ Order \in Seq(Range(Order)) /\ Order # <<>> /\ IsInjective(Order)
  /\ Class \subseteq [sent : Nat, lost : Nat, rtts : Nat, latency : Nat]
  /\ Cycle \in Nat \ {0} /\ \A k \in 1 .. Len(Order) : Cycle % k = 0

VARIABLES strategy, stats, counter, asked, picked

chooseVars == <<strategy, stats, counter, asked, picked>>

ActiveCount == Len(Order)
Active == Range(Order)

RoundRobin == {"RoundRobinDefault", "RoundRobin"}
Scored     == {"LeastLoss", "LowestLatency", "HybridScore"}
Pooled     == {"LossThenLatency", "LeastLossTopRandom", "LeastLossTopRoundRobin"}

-----------------------------------------------------------------------------
(* Scores *)

Loss(r) == IF stats[r].sent < 5 THEN 200 ELSE (stats[r].lost * 1000) \div stats[r].sent
Latency(r) == IF stats[r].rtts < 5 THEN 999000 ELSE stats[r].latency * 1000
Penalty(r) == IF Latency(r) = 999000 THEN 200 ELSE IF Latency(r) > 1000000 THEN 1000
              ELSE Latency(r) \div 1000

LossSignal    == \E r \in Active : stats[r].sent >= 5
LatencySignal == \E r \in Active : stats[r].rtts >= 5

Scores == [r \in Active |->
  CASE strategy = "LeastLoss"     -> Loss(r)
    [] strategy = "LowestLatency" -> Latency(r)
    [] OTHER                      -> 8 * Loss(r) + Penalty(r)]

\* Without a signal every strategy falls back to round robin.
Signal == CASE strategy \in {"LeastLoss", "LeastLossTopRandom", "LeastLossTopRoundRobin"} -> LossSignal
            [] strategy = "LowestLatency" -> LatencySignal
            [] OTHER -> LossSignal \/ LatencySignal

-----------------------------------------------------------------------------
(* Choosing *)

Rotated(s) == IF s = <<>> THEN s ELSE
  [i \in 1 .. Len(s) |-> s[((counter + i - 1) % Len(s)) + 1]]

\* The resolvers of s that are in S, in their order.
Among(s, S) ==
  LET kept[i \in 0 .. Len(s)] ==
        IF i = 0 THEN <<>> ELSE
        IF s[i] \in S THEN Append(kept[i - 1], s[i]) ELSE kept[i - 1]
  IN kept[Len(s)]

Without(s, r) == Among(s, Active \ {r})

\* a bug: the search for the next lowest starts at the front, not behind those taken
LowestNoRestart(s, k, score) ==
  LET pass[i \in 0 .. k] ==
        IF i = 0 THEN s ELSE
        LET t == pass[i - 1]
            m == CHOOSE j \in 1 .. Len(t) : \A l \in 1 .. Len(t) : score[t[j]] <= score[t[l]]
        IN [t EXCEPT ![i] = t[m], ![m] = t[i]]
  IN SubSeq(pass[k], 1, k)

\* The first k of a partial selection sort, the first of equals before the others.
Lowest(s, k, score) ==
  LET pass[i \in 0 .. k] ==
        IF i = 0 THEN s ELSE
        LET t == pass[i - 1]
            m == CHOOSE j \in i .. Len(t) :
                   /\ \A l \in i .. Len(t) : score[t[j]] <= score[t[l]]
                   /\ \A l \in i .. j - 1 : score[t[j]] < score[t[l]]
        IN [t EXCEPT ![i] = t[m], ![m] = t[i]]
  IN SubSeq(pass[k], 1, k)

MinOf(S) == CHOOSE x \in S : \A y \in S : x <= y

\* lossThenLatencyCandidatesLocked: close to the least loss, then close to the least latency.
LossThenLatency(s) ==
  LET best == MinOf({Loss(r) : r \in Range(s)})
      short == Among(s, {r \in Active : Loss(r) <= best + (IF best >= 200 THEN 0 ELSE 25)})
      fast == MinOf({Penalty(r) : r \in Range(short)})
      quarter == fast \div 4
      tolerance == IF fast >= 200 THEN 0 ELSE IF quarter < 2 THEN 2 ELSE
                   IF quarter > 25 THEN 25 ELSE quarter
  IN Among(short, {r \in Active : Penalty(r) <= fast + tolerance})

\* leastLossTopTierCandidatesLocked: the best tenth, at least two.
TopTier(s) ==
  LET tenth == (Len(s) + 9) \div 10
      top == IF tenth < 2 THEN 2 ELSE tenth
  IN Lowest(s, IF top > Len(s) THEN Len(s) ELSE top, [r \in Active |-> Loss(r)])

Pool(s) == IF s = <<>> \/ ~Signal THEN <<>> ELSE
           IF strategy = "LossThenLatency" THEN LossThenLatency(s) ELSE TopTier(s)

\* limitConnectionPoolLocked
Limited(pool, k) == IF k >= Len(pool) THEN pool ELSE
  SubSeq(IF strategy = "LeastLossTopRoundRobin" THEN Rotated(pool) ELSE pool, 1, k)

Arrangements(S) == {f \in [1 .. Cardinality(S) -> S] : \A i, j \in DOMAIN f : f[i] = f[j] => i = j}

Count(k) == IF k > ActiveCount THEN ActiveCount ELSE k

\* getUniqueConnectionsLocked: the possible answers to a request for k resolvers.
Unique(k) ==
  LET c == Count(k) IN
  CASE strategy = "Random" -> {SubSeq(f, 1, c) : f \in Arrangements(Active)}
    [] strategy \in Pooled /\ Pool(Order) # <<>> -> {Limited(Pool(Order), c)}
    [] strategy \in Scored /\ Signal -> {Lowest(Rotated(Order), c, Scores)}
    [] OTHER -> {SubSeq(Rotated(Order), 1, c)}

PoolWithout(x) == Pool(Without(Order, x))

\* getBestConnectionExcludingLocked
Best(x) ==
  LET rotated == Without(Rotated(Order), x) IN
  CASE rotated = <<>> -> {NoResolver}
    [] strategy \in Pooled /\ PoolWithout(x) # <<>> ->
         IF strategy = "LeastLossTopRoundRobin"
         THEN {PoolWithout(x)[(counter % Len(PoolWithout(x))) + 1]} ELSE Range(PoolWithout(x))
    [] strategy \in Scored /\ Signal -> Range(Lowest(rotated, 1, Scores))
    [] OTHER -> {Head(rotated)}

\* a bug: the preferred resolver is not left out of the others
TargetsRepeated(k, preferred) ==
  IF Count(k) = 1 THEN Unique(1)
  ELSE {<<preferred>> \o SubSeq(u, 1, MinOf({Count(k) - 1, Len(u)})) : u \in Unique(Count(k))}

\* SelectTargets with a preferred resolver: that one, and others.
Targets(k, preferred) ==
  IF Count(k) = 1 THEN Unique(1)
  ELSE {<<preferred>> \o SubSeq(Without(u, preferred), 1,
          MinOf({Count(k) - 1, Len(Without(u, preferred))})) : u \in Unique(Count(k))}

-----------------------------------------------------------------------------
ChooseInit ==
  /\ strategy \in Strategies /\ stats \in [Active -> Class]
  /\ counter = 0 /\ asked = [what |-> "nothing"] /\ picked = <<>>

\* rrCounter moves by as many as are asked for, unless the choice is random or from a
\* pool that is taken whole.
Advance(k, whole) ==
  /\ counter' = CASE strategy = "Random" /\ whole -> counter
                  [] strategy \in Pooled /\ Signal ->
                       IF strategy # "LeastLossTopRoundRobin" \/ (whole /\ k >= Len(Pool(Order)))
                       THEN counter ELSE (counter + k) % Cycle
                  [] OTHER -> (counter + k) % Cycle
  /\ UNCHANGED <<strategy, stats>>

AskUnique(k) ==
  /\ \E u \in Unique(k) : picked' = u
  /\ asked' = [what |-> "unique", count |-> k] /\ Advance(Count(k), TRUE)

AskBest(x) ==
  /\ \E r \in Best(x) : picked' = <<r>>
  /\ asked' = [what |-> "best", without |-> x] /\ Advance(1, FALSE)

AskTargets(k, preferred) ==
  /\ \E t \in Targets(k, preferred) : picked' = t
  /\ asked' = [what |-> "targets", count |-> k, preferred |-> preferred]
  /\ Advance(Count(k), TRUE)

ChooseNext == \/ \E k \in 1 .. ActiveCount + 1 : AskUnique(k)
              \/ \E k \in 1 .. ActiveCount, r \in Active : AskTargets(k, r)
              \/ \E x \in Active : AskBest(x)

ChooseSpec == ChooseInit /\ [][ChooseNext]_chooseVars

-----------------------------------------------------------------------------
(* Properties *)

(* A packet that is sent more than once goes to different resolvers, all active: as   *)
(* many as asked for, where the strategy does not confine itself to a pool, and the   *)
(* preferred one of its stream first; and a failover never returns to the resolver it *)
(* leaves while there is another (SelectTargets, GetUniqueConnections,                *)
(* GetBestConnectionExcluding).                                                       *)
PicksDistinct ==
  /\ asked.what \in {"unique", "targets"} =>
       /\ picked # <<>> /\ IsInjective(picked) /\ Range(picked) \subseteq Active
       /\ Len(picked) <= Count(asked.count)
       /\ strategy \notin Pooled => Len(picked) = Count(asked.count)
       /\ asked.what = "targets" /\ asked.count > 1 => Head(picked) = asked.preferred
  /\ asked.what = "best" /\ ActiveCount > 1 => picked[1] \in Active \ {asked.without}

(* A strategy by score takes the best: nothing left out is better than what it took.  *)
(* And the pool of a strategy holds the resolver with the least loss, within 25 parts *)
(* in a thousand, when losses are known.                                              *)
BestTaken ==
  /\ asked.what = "unique" /\ strategy \in Scored /\ Signal =>
       \A r \in Range(picked), q \in Active \ Range(picked) : Scores[r] <= Scores[q]
  /\ strategy \in Pooled /\ LossSignal =>
       \E r \in Range(Pool(Order)) : \A q \in Active : Loss(r) <= Loss(q) + 25
=============================================================================
