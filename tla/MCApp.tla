------------------------------- MODULE MCApp -------------------------------
(***************************************************************************)
(* Two parts of the client whose liveness is checked, for TLC in one run:  *)
(* the tunnel's life cycle and the DNS cache.  Each behaviour is one of a  *)
(* single part, which AppInit chooses; the other rests.                    *)
(***************************************************************************)
EXTENDS TunnelLifecycle, DnsCache, TLC

VARIABLE part

allVars == <<part, vars, cacheVars>>

\* Two questions.
TwoShards == <<"a", "b">>

\* One answer of a fragment and one of two.
OneAndTwo == "a" :> 1 @@ "b" :> 2

\* Without a question there is nothing that fairness asks of the cache.
NoCache == /\ cache = [q \in Question |-> "absent"] /\ wants = {} /\ stash = {}
           /\ dirty = FALSE /\ saving = NotSaving /\ raced = {}
           /\ disk = [total |-> 0, file |-> <<>>]
           /\ asked = <<>> /\ answers = {} /\ lost = {} /\ box = EmptyBox
           /\ faults = 0

AppInit ==
  /\ part \in {"tunnel", "cache"}
  /\ Init
  /\ IF part = "cache" THEN CacheInit ELSE NoCache

AppNext ==
  /\ UNCHANGED part
  /\ \/ part = "tunnel" /\ Next /\ UNCHANGED cacheVars
     \/ part = "cache" /\ CacheNext /\ UNCHANGED vars

AppSpec == AppInit /\ [][AppNext]_allVars /\ Fairness /\ CacheFair
=============================================================================
