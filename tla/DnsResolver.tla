---------------------------- MODULE DnsResolver ----------------------------
(***************************************************************************)
(* The server's side of DNS over the tunnel: the fragments of a query are  *)
(* collected (fragmentstore.Store), a whole query becomes a deferred task  *)
(* (server_deferred.go), and the tasks that ask the same question share    *)
(* one lookup (inflight.Manager), which asks several upstream servers      *)
(* (dns_tunnel.go).                                                        *)
(*                                                                         *)
(* An entry of the in-flight manager outlives its lookup: its timeout is   *)
(* that of the fragments, minutes, and a lookup's is seconds.              *)
(***************************************************************************)
EXTENDS Integers, FiniteSets, TLC

CONSTANTS Query,      \* queries: a session and a sequence number
          Topic,      \* the questions they may ask
          Parts,      \* query -> number of its fragments
          Upstreams   \* number of upstream DNS servers

VARIABLES topic,   \* query -> its question
          sent,    \* <<query, fragment>> the client still repeats
          held,    \* fragments collected
          whole,   \* queries remembered as complete
          job,     \* query -> its task
          flight,  \* question -> the query whose task looks it up, or none
          known    \* questions the cache answers

resolverVars == <<topic, sent, held, whole, job, flight, known>>

None  == "none"
NoJob == [st |-> "none", on |-> None, launched |-> 0, received |-> 0, hedged |-> FALSE,
          entry |-> "open", runs |-> 0]
Pieces(n) == {n} \X (1..Parts[n])

ResolverInit ==
  /\ topic \in [Query -> Topic]
  /\ sent = UNION {Pieces(n) : n \in Query} /\ held = {} /\ whole = {}
  /\ job = [n \in Query |-> NoJob]
  /\ flight = [t \in Topic |-> None] /\ known = {}

----------------------------------------------------------------------------
\* The fragment store: fragments arrive in any order and any number of times,
\* and a query that was whole is remembered for a while.

Completes(n, f) == Pieces(n) \subseteq held \union {<<n, f>>}
\* a bug: a query that is whole is not remembered
RememberedNot(n) == whole \ {n}
Remembered(n) == whole \union {n}

\* a query whose task is still tracked, or for which there is no room, starts
\* none (bound: none either while a follower of its last task sleeps)
Queue(n) ==
  \/ /\ job[n].st \in {"none", "done", "dropped"}
     /\ \A m \in Query : job[m].st = "follows" => job[m].on # n
     /\ job' = [job EXCEPT ![n] = [NoJob EXCEPT !.st = "queued", !.runs = job[n].runs + 1]]
  \/ UNCHANGED job

ReceiveQuery(n, f) ==
  /\ <<n, f>> \in sent /\ n \notin whole
  /\ \/ /\ ~Completes(n, f)
        /\ held' = held \union {<<n, f>>}
        /\ UNCHANGED <<whole, job>>
     \/ /\ Completes(n, f)
        /\ held' = held \ Pieces(n) /\ whole' = Remembered(n)
        /\ Queue(n)
  /\ UNCHANGED <<topic, sent, flight, known>>

\* acknowledged, or given up after the last retry
Stop(n) ==
  /\ Pieces(n) \subseteq sent
  /\ sent' = sent \ Pieces(n)
  /\ UNCHANGED <<topic, held, whole, job, flight, known>>
\* fragments and records expire, while the client may still repeat the query
Purge(n) ==
  /\ \/ held \intersect Pieces(n) # {} /\ held' = held \ Pieces(n) /\ UNCHANGED <<whole, job>>
     \/ /\ n \in whole /\ whole' = whole \ {n}
        /\ job' = [job EXCEPT ![n].runs = 0] /\ UNCHANGED held
  /\ UNCHANGED <<topic, sent, flight, known>>

\* the session of all these queries ends: tasks that run find that out later
EndSession ==
  /\ sent # {}
  /\ sent' = {} /\ held' = {} /\ whole' = {}
  /\ job' = [n \in Query |-> IF job[n].st = "queued" THEN [job[n] EXCEPT !.st = "dropped"]
                             ELSE job[n]]
  /\ UNCHANGED <<topic, flight, known>>

----------------------------------------------------------------------------
\* A task answers from the cache, follows a lookup under way, or looks up.

\* a bug: a failed lookup frees its question but leaves its entry open
ClosedIfAnswered(jobs, n, outcome) ==
  IF outcome = "empty" THEN jobs ELSE [jobs EXCEPT ![n].entry = outcome]
Closed(jobs, n, outcome) == [jobs EXCEPT ![n].entry = outcome]

Acquire(n) ==
  LET t == topic[n] IN
  \/ /\ flight[t] # None
     /\ job' = [job EXCEPT ![n].st = "follows", ![n].on = flight[t]]
     /\ UNCHANGED flight
  \/ /\ flight[t] = None
     /\ job' = [job EXCEPT ![n].st = "asks", ![n].launched = 1]
     /\ flight' = [flight EXCEPT ![t] = n]

Start(n) ==
  /\ job[n].st = "queued"
  /\ \/ topic[n] \in known /\ job' = [job EXCEPT ![n].st = "answers"] /\ UNCHANGED flight
     \/ topic[n] \notin known /\ Acquire(n)
  /\ UNCHANGED <<topic, sent, held, whole, known>>

\* inflight.Resolve takes the entry of the question and closes it
Ends(n, outcome, jobs) ==
  /\ job' = Closed(jobs, flight[topic[n]], outcome)
  /\ flight' = [flight EXCEPT ![topic[n]] = None]

\* launchRemaining: all the servers but the first, once
Hedged(j) == IF j.hedged THEN j ELSE [j EXCEPT !.hedged = TRUE, !.launched = @ + Upstreams - 1]

\* a bug: after a failure the others are asked only when the hedge timer fires
LaunchedLater(j) == j
LaunchedAfter(j) == Hedged(j)

\* the loop over the results that the queries launched so far have sent; one
\* that was received before this one was a failure
LookUp(n) ==
  LET j == job[n] IN
  /\ j.st = "asks"
  /\ \/ /\ j.received >= j.launched                         \* nothing more to receive
        /\ Ends(n, "empty", [job EXCEPT ![n].st = "fails"])
     \/ /\ j.received < j.launched                          \* an answer
        /\ Ends(n, "value", [job EXCEPT ![n].st = "resolved"])
     \/ /\ j.received < j.launched                          \* a failure
        /\ job' = [job EXCEPT ![n] = LaunchedAfter([j EXCEPT !.received = @ + 1])]
        /\ UNCHANGED flight
     \/ /\ j.received < j.launched /\ ~j.hedged             \* the hedge timer
        /\ job' = [job EXCEPT ![n] = Hedged(j)]
        /\ UNCHANGED flight
     \/ /\ j.received < j.launched                          \* the deadline
        /\ Ends(n, "empty", [job EXCEPT ![n].st = "late"])
  /\ UNCHANGED <<topic, sent, held, whole, known>>

\* a follower goes on when the entry is closed, or stops waiting
Follow(n) ==
  /\ job[n].st = "follows"
  /\ job' = [job EXCEPT ![n].st = "answers"]
  /\ UNCHANGED <<topic, sent, held, whole, flight, known>>

\* an answer is cached, a failure is not; both go to the client in fragments
Respond(n) ==
  /\ job[n].st \in {"answers", "resolved", "fails", "late"}
  /\ job' = [job EXCEPT ![n] = [NoJob EXCEPT !.st = "done", !.entry = job[n].entry, !.runs = job[n].runs]]
  /\ known' = known \union {topic[m] : m \in {k \in {n} : job[k].st = "resolved"}}
  /\ UNCHANGED <<topic, sent, held, whole, flight>>
Forget(t) ==
  /\ t \in known /\ known' = known \ {t}
  /\ UNCHANGED <<topic, sent, held, whole, job, flight>>

ResolverNext ==
  \/ \E n \in Query : \/ Stop(n) \/ Purge(n) \/ Start(n) \/ LookUp(n) \/ Follow(n) \/ Respond(n)
                      \/ \E f \in 1..Parts[n] : ReceiveQuery(n, f)
  \/ EndSession \/ \E t \in Topic : Forget(t)
ResolverSpec == ResolverInit /\ [][ResolverNext]_resolverVars

----------------------------------------------------------------------------
\* A query starts one task while it is remembered, however often and in
\* whatever order its fragments arrive (Store.Collect and its completed keys).
WorkedOnce == \A n \in Query : job[n].runs <= 1

\* Two lookups of the same question never run together (inflight.Acquire), and a
\* follower waits only for a lookup that still runs: one that ends, by an answer, a
\* failure or its deadline, wakes all who share it (inflight.Resolve).
SharedLookup ==
  /\ \A m, n \in Query :
       m # n /\ job[m].st = "asks" /\ job[n].st = "asks" => topic[m] # topic[n]
  /\ \A n \in Query : job[n].st = "follows" /\ job[job[n].on].entry = "open"
                        => job[job[n].on].st = "asks"

\* Before its deadline a lookup fails only when every upstream server was asked
\* and failed: a failure that comes before the others were launched does not end the
\* loop, which stops when it has received as much as was launched (resolveDNSUpstream).
FailsAfterAll ==
  \A n \in Query : job[n].st = "fails" => job[n].received = Upstreams
=============================================================================
