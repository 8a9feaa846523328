------------------------------ MODULE DnsCache ------------------------------
(***************************************************************************)
(* The client's DNS cache (dnscache.Store) between the applications that   *)
(* ask, the listener and the SOCKS5 UDP relay that wait for it             *)
(* (dns_listener.go, socks_manager.go), the tunnel that brings answers in  *)
(* fragments, and the file it is saved to and loaded from.                 *)
(*                                                                         *)
(* A query is its sequence number, which is not used again here: the code  *)
(* takes it from 16 bits of a counter.  Each event that goes wrong costs   *)
(* one of MaxFaults.                                                       *)
(***************************************************************************)
EXTENDS Integers, Sequences, FiniteSets, SequencesExt

CONSTANTS Shards,       \* the question in each shard, in the order of the shards
          AnswerParts,  \* question -> number of fragments of its answer
          MaxQueries,   \* bound: queries sent
          MaxFaults     \* bound: faults

Question == ToSet(Shards)

ASSUME ShardsAssumption == Shards \in Seq(Question) /\ IsInjective(Shards)

VARIABLES cache,   \* question -> "absent", "pending", "late", "ready" or "old"
          wants,   \* questions an application still has no answer to
          stash,   \* questions the relay's poller waits for
          dirty,   \* the cache changed since it was saved
          saving,  \* the save under way: pass, next shard, entries counted, written
          disk,    \* the file: the number in its header and the entries after it
          raced,   \* history: answers that came during the last save
          asked,   \* sequence number -> question
          answers, \* <<number, fragment>> of the answers still to come
          box,     \* fragments collected, numbers completed
          lost,    \* numbers that will bring no answer
          faults

userVars  == <<wants, stash>>
fileVars  == <<dirty, saving, disk, raced>>
tunnelVars == <<asked, answers, lost>>
cacheVars == <<cache, userVars, fileVars, tunnelVars, box, faults>>

Sn        == 1..MaxQueries
NotSaving == [pass |-> "none", shard |-> 0, total |-> 0, file |-> <<>>]
EmptyBox  == [held |-> {}, done |-> {}]
Ready(q)  == cache[q] = "ready"
Loaded    == {disk.file[i] : i \in {j \in DOMAIN disk.file : j <= disk.total}}
Pieces(n) == {<<n, f>> : f \in 1..AnswerParts[asked[n]]}

CacheInit ==
  /\ cache = [q \in Question |-> "absent"] /\ wants = Question /\ stash = {}
  /\ dirty = FALSE /\ saving = NotSaving /\ raced = {}
  /\ disk = [total |-> 0, file |-> <<>>]
  /\ asked = <<>> /\ answers = {} /\ lost = {} /\ box = EmptyBox
  /\ faults = 0

CacheFault == faults < MaxFaults /\ faults' = faults + 1

----------------------------------------------------------------------------
\* An application asks, and asks again until it has an answer.

\* the server answers once the query arrived; without a stream 0, or when the
\* query, its task or its answer is lost on the way, nothing comes back
Dispatch(q) ==
  LET n == Len(asked) + 1 IN
  /\ n \in Sn
  /\ asked' = Append(asked, q)
  /\ \/ /\ answers' = answers \union {<<n, f>> : f \in 1..AnswerParts[q]}
        /\ UNCHANGED <<lost, faults>>
     \/ CacheFault /\ lost' = lost \union {n} /\ UNCHANGED answers

Hit(q) ==
  /\ Ready(q)
  /\ wants' = wants \ {q}
  /\ UNCHANGED <<cache, stash, dirty, tunnelVars, faults>>
\* a bug: a dispatch that was not answered is never repeated
MissingOnce(q) == cache[q] \in {"absent", "old"}
Missing(q) == cache[q] \in {"absent", "late", "old"}
Miss(q) ==
  /\ Missing(q)
  /\ cache' = [cache EXCEPT ![q] = "pending"]
  /\ stash' = stash \union {q}
  /\ dirty' = TRUE
  /\ Dispatch(q) /\ UNCHANGED wants
StillPending(q) ==
  /\ cache[q] = "pending" /\ q \notin stash
  /\ stash' = stash \union {q}
  /\ UNCHANGED <<cache, wants, dirty, tunnelVars, faults>>

Ask(q) ==
  /\ q \in wants
  /\ Hit(q) \/ Miss(q) \/ StillPending(q)
  /\ UNCHANGED <<saving, disk, raced, box>>

\* the relay's poller delivers what the tunnel brought, or drops the query
Poll(q) ==
  /\ q \in stash
  /\ \/ Ready(q) /\ wants' = wants \ {q} /\ UNCHANGED faults
     \/ CacheFault /\ UNCHANGED wants
  /\ stash' = stash \ {q}
  /\ UNCHANGED <<cache, fileVars, tunnelVars, box>>

WantAgain(q) ==
  /\ q \notin wants /\ CacheFault
  /\ wants' = wants \union {q}
  /\ UNCHANGED <<cache, stash, fileVars, tunnelVars, box>>

\* the pending timeout; it costs nothing when the query's answer is lost
PendingTimeout(q) ==
  /\ cache[q] = "pending"
  /\ IF SelectLastInSeq(asked, LAMBDA p : p = q) \in lost
     THEN UNCHANGED faults ELSE CacheFault
  /\ cache' = [cache EXCEPT ![q] = "late"]
  /\ UNCHANGED <<userVars, fileVars, tunnelVars, box>>

\* the TTL passes, or other questions of the shard push the entry out
Expire(q) ==
  /\ CacheFault
  /\ \/ Ready(q) /\ cache' = [cache EXCEPT ![q] = "old"] /\ UNCHANGED dirty
     \/ /\ cache[q] # "absent"
        /\ cache' = [cache EXCEPT ![q] = "absent"] /\ dirty' = TRUE
  /\ UNCHANGED <<userVars, saving, disk, raced, tunnelVars, box>>

----------------------------------------------------------------------------
\* Fragments of answers come in any order and more than once; nothing repeats
\* one that is lost.

\* a bug: the answer of a pending entry does not count as a change
SetReadyClean(q) ==
  /\ cache' = [cache EXCEPT ![q] = "ready"]
  /\ dirty' = (dirty /\ cache[q] # "pending")
  /\ raced' = IF saving = NotSaving THEN raced ELSE raced \union {q}
SetReady(q) ==
  /\ cache' = [cache EXCEPT ![q] = "ready"]
  /\ dirty' = TRUE
  /\ raced' = IF saving = NotSaving THEN raced ELSE raced \union {q}

ReceiveAnswer(n, f) ==
  LET whole == Pieces(n) \subseteq box.held \union {<<n, f>>} IN
  /\ <<n, f>> \in answers /\ n \notin box.done
  /\ box' = IF whole THEN [held |-> box.held \ Pieces(n), done |-> box.done \union {n}]
            ELSE [box EXCEPT !.held = @ \union {<<n, f>>}]
  /\ IF whole THEN SetReady(asked[n]) ELSE UNCHANGED <<cache, dirty, raced>>
  /\ UNCHANGED <<userVars, saving, disk, tunnelVars, faults>>

LoseAnswer(n, f) ==
  /\ <<n, f>> \in answers \ box.held /\ n \notin box.done
  /\ CacheFault
  /\ answers' = answers \ {<<n, f>>}
  /\ lost' = lost \union {n}
  /\ UNCHANGED <<cache, userVars, fileVars, asked, box>>

----------------------------------------------------------------------------
\* The ready entries are counted, shard after shard, the number is written in
\* the header, and the shards are written in a second pass; then the file
\* replaces the old one and the cache counts as clean.

SaveBegin ==
  /\ dirty /\ saving = NotSaving
  /\ saving' = [NotSaving EXCEPT !.pass = "count", !.shard = 1]
  /\ raced' = {}
  /\ UNCHANGED <<cache, userVars, dirty, disk, tunnelVars, box, faults>>
CountShard ==
  /\ saving.pass = "count" /\ saving.shard \in DOMAIN Shards
  /\ saving' = [saving EXCEPT !.shard = @ + 1,
                              !.total = IF Ready(Shards[saving.shard]) THEN @ + 1 ELSE @]
  /\ UNCHANGED <<cache, userVars, dirty, disk, raced, tunnelVars, box, faults>>
WriteHeader ==
  /\ saving.pass = "count" /\ saving.shard \notin DOMAIN Shards
  /\ saving' = [saving EXCEPT !.pass = "write", !.shard = 1]
  /\ UNCHANGED <<cache, userVars, dirty, disk, raced, tunnelVars, box, faults>>
SaveShard ==
  /\ saving.pass = "write" /\ saving.shard \in DOMAIN Shards
  /\ LET q == Shards[saving.shard] IN
       saving' = [saving EXCEPT !.shard = @ + 1,
                                !.file = IF Ready(q) THEN Append(@, q) ELSE @]
  /\ UNCHANGED <<cache, userVars, dirty, disk, raced, tunnelVars, box, faults>>
SaveEnd ==
  /\ saving.pass = "write" /\ saving.shard \notin DOMAIN Shards
  /\ saving' = NotSaving /\ dirty' = FALSE
  /\ disk' = [total |-> saving.total, file |-> saving.file]
  /\ UNCHANGED <<cache, userVars, raced, tunnelVars, box, faults>>

\* the client dies, and starts with a new session and with as many entries of
\* the file as its header says
Crash ==
  /\ CacheFault
  /\ cache' = [q \in Question |-> IF q \in Loaded THEN "ready" ELSE "absent"]
  /\ stash' = {} /\ dirty' = FALSE /\ saving' = NotSaving /\ raced' = {}
  /\ answers' = {} /\ lost' = DOMAIN asked /\ box' = EmptyBox
  /\ UNCHANGED <<wants, disk, asked>>

\* StopAsyncRuntime: the pending entries are cleared, the file stays as it is
Restart ==
  /\ CacheFault
  /\ cache' = [q \in Question |-> IF cache[q] \in {"pending", "late"} THEN "absent" ELSE cache[q]]
  /\ dirty' = (dirty \/ \E q \in Question : cache[q] \in {"pending", "late"})
  /\ answers' = {} /\ lost' = DOMAIN asked /\ box' = EmptyBox
  /\ UNCHANGED <<userVars, saving, disk, raced, asked>>

CacheNext ==
  \/ \E q \in Question : \/ Ask(q) \/ Poll(q) \/ WantAgain(q) \/ PendingTimeout(q)
                         \/ Expire(q)
  \/ \E n \in DOMAIN asked, f \in 1..2 : ReceiveAnswer(n, f) \/ LoseAnswer(n, f)
  \/ SaveBegin \/ CountShard \/ WriteHeader \/ SaveShard \/ SaveEnd
  \/ Crash \/ Restart

\* Applications ask again, timers fire, and what is not lost arrives.
CacheFair ==
  /\ \A q \in Question : WF_cacheVars(Ask(q)) /\ WF_cacheVars(PendingTimeout(q))
  /\ \A n \in Sn, f \in 1..2 : WF_cacheVars(n \in DOMAIN asked /\ ReceiveAnswer(n, f))
CacheSpec == CacheInit /\ [][CacheNext]_cacheVars /\ CacheFair

----------------------------------------------------------------------------
\* When the cache counts as clean, a load of its file brings back every answer
\* it has but for as many as came while the file was written; they need not be
\* those that came, for the entries over the header's number are not read
\* (Store.dirty, SaveToFile, LoadFromFile).
SavedUnlessRaced ==
  ~dirty /\ saving = NotSaving =>
    Cardinality({q \in Question : Ready(q)} \ Loaded) <= Cardinality(raced)

\* An application that keeps asking is answered in the end, whatever is lost:
\* no entry stays pending for ever (ProcessDNSQuery, LookupOrCreatePending).
Answered == \A q \in Question : q \in wants ~> q \notin wants
=============================================================================
