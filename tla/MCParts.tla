------------------------------ MODULE MCParts ------------------------------
(***************************************************************************)
(* Four parts of which safety is checked, for TLC in one run: the workers  *)
(* of deferred tasks, the DNS tasks they run, the choice of resolvers and  *)
(* the scan of their MTUs.  Each behaviour is one of a single part, which  *)
(* PartsInit chooses; the others rest.                                     *)
(***************************************************************************)
EXTENDS DeferredSession, DnsResolver, MtuSearch, ResolverChoice, TLC

CONSTANTS s1, s2, a, b

TwoSessions == {s1, s2}
TwoStreams == {a, b}

(* Sessions and streams are interchangeable; workers are not (nextWorker). *)
Symmetric == Permutations(Session) \cup Permutations(Stream)

VARIABLE part

----------------------------------------------------------------------------
\* Too few requests to tell, few losses, many, slow and fast.
Stats(s, l, r, ms) == [sent |-> s, lost |-> l, rtts |-> r, latency |-> ms]
ThreeResolvers == <<"a", "b", "c">>
Classes == {Stats(0, 0, 0, 0), Stats(10, 0, 10, 300), Stats(50, 1, 10, 11), Stats(10, 5, 5, 10)}
AllStrategies == RoundRobin \cup Scored \cup Pooled \cup {"Random"}

\* Four resolvers are the fewest of which one may be dropped: one that the other
\* three surround in every way. Of ten, two may.
Scanned(up, down) == [up |-> up, down |-> down, valid |-> TRUE]
FoundByOthers ==
  {<<Scanned(u, 8), Scanned(v, 8), Scanned(6, x), Scanned(6, y)>> :
     u \in {2, 3, 7}, v \in {2, 6}, x \in {2, 8}, y \in {4, 8}}
  \union {[i \in 1 .. 10 |-> IF i < k THEN Scanned(2, 5) ELSE Scanned(6, 8)] : k \in 3 .. 4}
  \union {<<Scanned(3, 3)>>, <<[up |-> 0, down |-> 0, valid |-> FALSE]>>}
UpToSome == {1..i : i \in 0..8} \union {{2, 5}, {3, 4, 6}}

\* Two queries, of which one has two fragments; they may ask the same.
TwoAndOne == "m" :> 2 @@ "n" :> 1

----------------------------------------------------------------------------
allVars == <<part, vars, chooseVars, scanVars, resolverVars>>

\* One initial state for a part that was not chosen.
NoChoice == ChooseInit /\ strategy = "Random" /\ stats = [r \in Active |-> Stats(0, 0, 0, 0)]
NoScan   == ScanInit /\ carries = {1} /\ search = Fresh(2) /\ found = <<Scanned(3, 3)>>
NoServer == ResolverInit /\ topic = [q \in Query |-> "a"]

PartsInit ==
  /\ part \in {"workers", "choice", "scan", "server"}
  /\ Init
  /\ IF part = "choice" THEN ChooseInit ELSE NoChoice
  /\ IF part = "scan" THEN ScanInit ELSE NoScan
  /\ IF part = "server" THEN ResolverInit ELSE NoServer

PartsNext ==
  /\ UNCHANGED part
  /\ \/ /\ part = "workers" /\ Next
        /\ UNCHANGED <<chooseVars, scanVars, resolverVars>>
     \/ /\ part = "choice" /\ ChooseNext
        /\ UNCHANGED <<vars, scanVars, resolverVars>>
     \/ /\ part = "scan" /\ ScanNext
        /\ UNCHANGED <<vars, chooseVars, resolverVars>>
     \/ /\ part = "server" /\ ResolverNext
        /\ UNCHANGED <<vars, chooseVars, scanVars>>

PartsSpec == PartsInit /\ [][PartsNext]_allVars
=============================================================================
