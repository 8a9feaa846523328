----------------------------- MODULE MtuSearch -----------------------------
(***************************************************************************)
(* client/mtu.go: the scan that finds how much each resolver carries.      *)
(* The largest upload and then the largest download size of a resolver are *)
(* searched for by bisection; when all workers are through, the optimizer  *)
(* may drop resolvers that hold the others back, and what is left fixes    *)
(* the sizes of the session.  One worker is modelled step by step; what    *)
(* the others find is one of OthersFind.                                   *)
(*                                                                         *)
(* A probe of a size passes or fails; failing covers all its retries.      *)
(* Sizes are in units of Unit bytes.                                       *)
(***************************************************************************)
EXTENDS Integers, Sequences, FiniteSets, FiniteSetsExt, TLC

CONSTANTS
  OthersFind,    \* sequences of [up, down, valid]: what the other workers find
  Carries,       \* the sets of sizes of which one is what a direction carries
  Low,           \* the smallest size that is searched, the floor of the protocol included
  Tops,          \* the largest: what is configured, and what fits into a name of the domain
  Unit           \* bytes in a modelled unit of size

ASSUME ScanAssumption ==
  /\ Low \in Nat /\ Tops \subseteq Nat /\ Unit \in Nat
  /\ OthersFind \subseteq Seq([up : Nat, down : Nat, valid : BOOLEAN])

VARIABLES
  direction,     \* "up", "down", or "scanned"
  carries,       \* the sizes that pass, of the direction that is scanned
  search,        \* the bisection: which probe is next
  passed,        \* sizes that were probed and passed, in this search
  stopped,       \* the context of the scan ended
  found,         \* the resolvers that were scanned
  synced         \* what applySyncedMTUState sets, and the resolvers that were kept

scanVars == <<direction, carries, search, passed, stopped, found, synced>>

Fresh(top) == [at |-> "high", left |-> Low, right |-> top, best |-> 0, top |-> top]
NoSync == [at |-> "no", up |-> 0, down |-> 0, kept |-> {}]

ScanInit ==
  /\ direction = "up" /\ carries \in Carries /\ stopped = FALSE
  /\ search \in {Fresh(top) : top \in Tops} /\ passed = {} /\ found \in OthersFind /\ synced = NoSync

-----------------------------------------------------------------------------
(* binarySearchMTU *)

Probe(size, next, other) ==
  /\ search' = IF size \in carries THEN next ELSE other
  /\ passed' = IF size \in carries THEN passed \cup {size} ELSE passed
  /\ UNCHANGED <<direction, carries, stopped, found, synced>>

Result(b) == [search EXCEPT !.at = "done", !.best = b]

\* The whole range at once, or nothing if that is the only size.
ProbeHigh ==
  /\ search.at = "high" /\ search.left <= search.right
  /\ Probe(search.right, Result(search.right),
           IF search.left = search.right THEN Result(0) ELSE [search EXCEPT !.at = "low"])

EmptyRange ==
  /\ search.at = "high" /\ search.left > search.right
  /\ search' = Result(0) /\ UNCHANGED <<direction, carries, passed, stopped, found, synced>>

ProbeLow ==
  /\ search.at = "low"
  /\ Probe(search.left,
           [search EXCEPT !.at = "middle", !.left = @ + 1, !.right = @ - 1, !.best = search.left],
           Result(0))

\* a bug: a size is skipped after a failure
ProbeMiddleOffByOne ==
  LET mid == (search.left + search.right) \div 2 IN
  /\ search.at = "middle" /\ search.left <= search.right
  /\ Probe(mid, [search EXCEPT !.best = mid, !.left = mid + 1], [search EXCEPT !.right = mid - 2])

ProbeMiddle ==
  LET mid == (search.left + search.right) \div 2 IN
  /\ search.at = "middle" /\ search.left <= search.right
  /\ Probe(mid, [search EXCEPT !.best = mid, !.left = mid + 1], [search EXCEPT !.right = mid - 1])

SearchEnds ==
  /\ search.at = "middle" /\ search.left > search.right
  /\ search' = Result(search.best)
  /\ UNCHANGED <<direction, carries, passed, stopped, found, synced>>

\* ctx.Err() is looked at before every probe: whatever was found is given up.
Cancel ==
  /\ search.at # "done" /\ direction # "scanned" /\ search' = Result(0) /\ stopped' = TRUE
  /\ UNCHANGED <<direction, carries, passed, found, synced>>

-----------------------------------------------------------------------------
(* runConnectionMTUTest: upload, download, decision *)

Accepted == search.best >= Low

UploadDone ==
  /\ search.at = "done" /\ direction = "up"
  /\ found' = Append(found, [up |-> IF Accepted THEN search.best ELSE 0, down |-> 0, valid |-> FALSE])
  /\ IF Accepted
     THEN direction' = "down" /\ carries' \in Carries /\ search' \in {Fresh(top) : top \in Tops} /\ passed' = {}
     ELSE direction' = "scanned" /\ UNCHANGED <<carries, search, passed>>
  /\ UNCHANGED <<stopped, synced>>

DownloadDone ==
  /\ search.at = "done" /\ direction = "down"
  /\ found' = [found EXCEPT ![Len(found)].down = IF Accepted THEN search.best ELSE 0,
                             ![Len(found)].valid = Accepted]
  /\ direction' = "scanned" /\ UNCHANGED <<carries, search, passed, stopped, synced>>

-----------------------------------------------------------------------------
(* optimizeMTUResolvers *)

Valid == {r \in DOMAIN found : found[r].valid}
Least(R, field) == IF R = {} THEN 0 ELSE Min({found[r][field] : r \in R})

\* The share that may be dropped, in percent, how far a size may lie below the upper
\* quartile, and the bytes that are worth it. A product of the code's floats may
\* come out one below.
Limits ==
  LET valid == Cardinality(Valid)
      row(drop, up, down) == [drop |-> drop, tolerance |-> drop + 50, up |-> up, down |-> down]
  IN CASE valid > 1000 -> row(35, 24, 64)
       [] valid > 200 /\ valid <= 1000 -> row(30, 32, 96)
       [] valid > 150 /\ valid <= 200  -> row(28, 40, 96)
       [] valid > 100 /\ valid <= 150  -> row(27, 44, 104)
       [] valid > 75 /\ valid <= 100   -> row(26, 46, 112)
       [] valid > 50 /\ valid <= 75    -> row(25, 48, 128)
       [] valid >= 25 /\ valid <= 50   -> row(22, 56, 128)
       [] OTHER -> row(20, 64, 160)

MaxDrops == LET share == (Cardinality(Valid) * Limits.drop) \div 100
            IN IF share < 1 THEN 1 ELSE share
MinGap   == [up |-> 24, down |-> 96]

\* What is at place i when the sizes are sorted.
Smallest(i, field) ==
  CHOOSE size \in {found[r][field] : r \in Valid} :
    /\ Cardinality({r \in Valid : found[r][field] < size}) < i
    /\ Cardinality({r \in Valid : found[r][field] <= size}) >= i

Outlier(field) ==
  LET p75 == Smallest((Cardinality(Valid) * 3) \div 4 + 1, field) * Unit
      tolerated == (p75 * Limits.tolerance) \div 100
      limit == IF p75 - tolerated < MinGap[field] THEN p75 - MinGap[field] ELSE tolerated
  IN IF limit < 1 THEN 1 ELSE limit

\* a bug: the share that may go is not looked at
DropsUncapped(field) == Cardinality({r \in Valid : found[r][field] * Unit < Outlier(field)})
\* How many of the smallest may go, and the least size of the others.
Drops(field) ==
  LET bad == Cardinality({r \in Valid : found[r][field] * Unit < Outlier(field)})
  IN IF bad > MaxDrops THEN MaxDrops ELSE bad

Target(field) == Smallest(Drops(field) + 1, field)
Gain(field)   == Target(field) - Least(Valid, field)
WorthIt(field) == /\ Drops(field) > 0
                  /\ \/ Gain(field) * Unit >= Limits[field]
                     \/ 100 * Gain(field) >= 35 * Least(Valid, field)

Below(fields) == {r \in Valid : \E f \in fields : found[r][f] < Target(f)}

\* If both directions together drop too many, only the one that gains more counts.
Chosen ==
  LET worth == {f \in {"up", "down"} : WorthIt(f)}
      upGainsMore == Gain("up") * Least(Valid, "down") >= Gain("down") * Least(Valid, "up")
  IN IF Cardinality(Below(worth)) <= MaxDrops THEN worth
     ELSE worth \ {IF upGainsMore THEN "down" ELSE "up"}

Kept == IF Cardinality(Valid) < 5 \/ Valid \ Below(Chosen) = {} THEN Valid
        ELSE Valid \ Below(Chosen)

Apply(kept) ==
  /\ direction = "scanned" /\ synced = NoSync
  /\ synced' = [at |-> IF kept = {} THEN "failed" ELSE "synced",
                up |-> Least(kept, "up"), down |-> Least(kept, "down"), kept |-> kept]
  /\ UNCHANGED <<direction, carries, search, passed, stopped, found>>

\* Without the setting AutoRemoveLowMTUServers the optimizer keeps all.
Optimize == Apply(Kept) \/ Apply(Valid)

ScanNext == ProbeHigh \/ EmptyRange \/ ProbeLow \/ ProbeMiddle \/ SearchEnds \/ Cancel
            \/ UploadDone \/ DownloadDone \/ Optimize

ScanSpec == ScanInit /\ [][ScanNext]_scanVars

-----------------------------------------------------------------------------
\* binarySearchMTU: what it returns was probed and passed; and if the sizes of
\* the range that pass are those up to some size, it returns that size.
SearchExact ==
  search.at = "done" =>
    /\ search.best # 0 => search.best \in passed
    /\ ~stopped => \A most \in Low .. search.top :
         carries \cap (Low .. search.top) = Low .. most => search.best = most

\* optimizeMTUResolvers: it never drops more than its share nor all, and what
\* it drops it drops for a gain: no direction gets smaller, and one gains a
\* third or the configured bytes.
DropsPay ==
  synced.at = "synced" =>
    LET dropped == Valid \ synced.kept IN
    /\ synced.kept # {} /\ Cardinality(dropped) <= MaxDrops
    /\ \A r \in synced.kept : found[r].up >= synced.up /\ found[r].down >= synced.down
    /\ dropped # {} => \E f \in {"up", "down"} :
         LET gain == synced[f] - Least(Valid, f) IN
         gain * Unit >= Limits[f] \/ 100 * gain >= 35 * Least(Valid, f)
=============================================================================
