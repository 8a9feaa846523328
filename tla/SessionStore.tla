---------------------------- MODULE SessionStore ----------------------------
(***************************************************************************)
(* Sessions: the server's table of them (udpserver/session.go and the      *)
(* handlers in server_session.go), and the client's main loop, which gets  *)
(* a session, runs on it and restarts when it is told that the session has *)
(* gone (client/session.go, Run in client.go, requestSessionRestart in     *)
(* async_runtime.go).                                                      *)
(*                                                                         *)
(* An init payload is identified by its client and a number: the signature *)
(* holds four random bytes.  Packets are received in any order; one that   *)
(* is never received is lost.  Time is abstracted: a session may be idle   *)
(* for too long, and the reuse window of a signature may end, at any time. *)
(***************************************************************************)
EXTENDS Naturals, FiniteSetsExt, Functions

CONSTANTS
  Client,
  Gone,          \* clients that stopped before the behaviour begins, an init still under way
  SlotCount,     \* maxActiveSessions
  Cookie,        \* the values of eight random bits
  Ingress,       \* the server's workers that handle close notices
  Network,       \* how many packets to the server are under way at most
  Burst,         \* how many copies of a close notice are sent
  Outages,       \* how often a session that is in use may be timed out
  NetChanges     \* how often the interface may change

ASSUME SessionAssumption ==
  /\ IsFiniteSet(Client) /\ Gone \subseteq Client
  /\ SlotCount \in Nat \ {0} /\ Cookie \subseteq Nat /\ Network \in Nat \ {0} /\ Burst \in Nat /\ Outages \in Nat /\ NetChanges \in Nat

Slot == 1 .. SlotCount
Sig  == Client \X Nat
None == [sig |-> <<>>, cookie |-> 0, reusable |-> FALSE, again |-> FALSE]

VARIABLES
  client,         \* the clients
  byID, bySig, activeCount, nextID,
  notice,         \* notice[w]: the session that w looked up and will close, 0 for none
  toServer,       \* packets on their way to the server
  toClient,       \* answers that somebody waits for
  outages, netChanges

vars == <<client, byID, bySig, activeCount, nextID, notice, toServer, toClient,
          outages, netChanges>>
store == <<byID, bySig, activeCount, nextID>>
bounds == <<outages, netChanges>>

Init ==
  /\ client = [c \in Client |->
       [phase |->             \* where Run is: init, ready, reset, clear, stopped
          IF c \in Gone THEN "stopped" ELSE "init",
        inits |->             \* payloads made so far
          IF c \in Gone THEN 1 ELSE 0,
        payload |-> FALSE,    \* sessionInitReady
        id |-> 0, cookie |-> 0,
        pending |-> FALSE,    \* runtimeResetPending
        signal |-> FALSE,     \* sessionResetSignal
        hook |-> "idle",      \* where the callback of a changed interface is
        missed |-> FALSE]]    \* a request for a restart was thrown away
  /\ byID = [i \in Slot |-> None]
  /\ bySig = <<>>
  /\ activeCount = 0 /\ nextID = 1
  /\ notice = [w \in Ingress |-> 0]
  /\ toServer = {[type |-> "init", sig |-> <<c, 1>>] : c \in Gone} /\ toClient = {}
  /\ outages = 0 /\ netChanges = 0

-----------------------------------------------------------------------------
(* Packets and answers. *)

SigOf(c)         == <<c, client[c].inits>>
DataPacket(c)    == [type |-> "data", sig |-> SigOf(c), id |-> client[c].id, cookie |-> client[c].cookie]
ClosePacket(c,n) == [type |-> "close", sig |-> SigOf(c), id |-> client[c].id,
                     cookie |-> client[c].cookie, copy |-> n]
Accept(sig, i)   == [type |-> "accept", sig |-> sig, id |-> i, cookie |-> byID'[i].cookie]
Drop(m)          == [type |-> "drop", sig |-> m.sig]

AwaitedUnverified(m) ==
  LET c == m.sig[1] IN
  IF m.type = "accept" THEN client'[c].phase = "init" /\ client'[c].payload
  ELSE client'[c].phase = "ready" /\ m.sig[2] = client'[c].inits

AwaitedByClient(m) ==
  LET c == m.sig[1] IN
  IF m.type = "accept"
  THEN client'[c].phase = "init" /\ client'[c].payload /\ m.sig[2] = client'[c].inits
  ELSE client'[c].phase = "ready"

(* An accept answers the payload in use (verifyCode); anything else reaches *)
(* the sockets of the runtime whose packet it answers, which are closed     *)
(* with it.                                                                 *)
Awaited(m) ==
  LET c == m.sig[1] IN
  /\ m.sig[2] = client'[c].inits
  /\ IF m.type = "accept" THEN client'[c].phase = "init" /\ client'[c].payload
     ELSE client'[c].phase = "ready"

Answers(new) == toClient' = {m \in toClient \cup new : Awaited(m)}

-----------------------------------------------------------------------------
(* The store. *)

(* expireReuseLocked *)
Indexed == Restrict(bySig, {sig \in DOMAIN bySig : byID[bySig[sig]].reusable})

(* allocateSlotLocked: the first free slot from nextID on. *)
FreeSlot ==
  LET distance(i) == (i + SlotCount - nextID) % SlotCount
      free        == {i \in Slot : byID[i] = None}
  IN CHOOSE i \in free : \A j \in free : distance(i) <= distance(j)

(* The cookies of a slot that a client or a packet still knows.             *)
KnownCookies(i) ==
  LET holders == {client[c] : c \in Client} \cup {m \in toServer : m.type # "init"}
                   \cup {m \in toClient : m.type = "accept"}
  IN {h.cookie : h \in {h \in holders : h.id = i}}

(* SESSION_INIT: a payload that was seen before, within its window, gets    *)
(* its session again.                                                       *)
Reuse(sig) ==
  /\ sig \in DOMAIN Indexed
  /\ bySig' = Indexed
  /\ UNCHANGED <<client, byID, activeCount, nextID>>
  /\ Answers({Accept(sig, Indexed[sig])})

(* randomCookieLocked: any value, be it known or not.  Those that are not   *)
(* known are alike, and the least one stands for them.                      *)
RandomCookies(i) ==
  LET known == KnownCookies(i)
  IN {k \in Cookie : k \in known \/ \A j \in Cookie \ known : k <= j}

(* A session's history says if its cookie was known `again`.                *)
Create(sig) ==
  LET i == FreeSlot IN
  /\ sig \notin DOMAIN Indexed /\ activeCount < SlotCount
  /\ \E k \in RandomCookies(i) :
       byID' = [byID EXCEPT ![i] = [sig |-> sig, cookie |-> k, reusable |-> TRUE,
                                    again |-> k \in KnownCookies(i)]]
  /\ bySig' = [s \in DOMAIN Indexed \cup {sig} |-> IF s = sig THEN i ELSE Indexed[s]]
  /\ activeCount' = activeCount + 1
  /\ nextID' = (i % SlotCount) + 1
  /\ UNCHANGED client
  /\ Answers({Accept(sig, i)})

(* SESSION_BUSY makes the client try again later, with the same payload.    *)
TableFull(sig) ==
  /\ sig \notin DOMAIN Indexed /\ activeCount >= SlotCount
  /\ bySig' = Indexed
  /\ UNCHANGED <<client, byID, activeCount, nextID, toClient>>

HandleSessionInit(m) ==
  /\ m.type = "init"
  /\ toServer' = toServer \ {m}
  /\ Reuse(m.sig) \/ Create(m.sig) \/ TableFull(m.sig)
  /\ UNCHANGED <<notice, bounds>>

Valid(i, cookie) == byID[i] # None /\ byID[i].cookie = cookie

Accepted(m) == Valid(m.id, m.cookie) /\ UNCHANGED toClient

(* Packets with another session's cookie are only answered now and then     *)
(* (invalidCookieTracker).                                                  *)
Ignored(m) == byID[m.id] # None /\ ~Valid(m.id, m.cookie) /\ UNCHANGED toClient

Dropped(m) == ~Valid(m.id, m.cookie) /\ Answers({Drop(m)})

(* validatePostSessionPacket *)
HandleData(m) ==
  /\ m.type = "data"
  /\ toServer' = toServer \ {m}
  /\ UNCHANGED <<client, store, notice, bounds>>
  /\ Accepted(m) \/ Ignored(m) \/ Dropped(m)

(* The sessions in some slots go, with the index entries of their           *)
(* signatures.                                                              *)
RemoveStillIndexed(ids, index) ==
  /\ byID' = [i \in Slot |-> IF i \in ids THEN None ELSE byID[i]]
  /\ bySig' = index
  /\ activeCount' = activeCount - Cardinality(ids)
  /\ UNCHANGED nextID

Remove(ids, index) ==
  /\ byID' = [i \in Slot |-> IF i \in ids THEN None ELSE byID[i]]
  /\ bySig' = Restrict(index, DOMAIN index \ {byID[i].sig : i \in ids})
  /\ activeCount' = activeCount - Cardinality(ids)
  /\ UNCHANGED nextID

(* handleSessionCloseNotice looks the session up...                         *)
LookupClose(w, m) ==
  /\ m.type = "close" /\ notice[w] = 0
  /\ toServer' = toServer \ {m}
  /\ notice' = [notice EXCEPT ![w] = IF Valid(m.id, m.cookie) THEN m.id ELSE 0]
  /\ UNCHANGED <<client, store, toClient, bounds>>

(* ... and closes what is in its slot then.                                 *)
Close(w) ==
  LET i == notice[w] IN
  /\ i # 0
  /\ notice' = [notice EXCEPT ![w] = 0]
  /\ IF byID[i] = None THEN UNCHANGED store
     ELSE Remove({i}, bySig)
  /\ UNCHANGED <<client, toServer, toClient, bounds>>

InUse(i) ==
  \E c \in Client :
    \/ client[c].phase = "ready" /\ client[c].id = i /\ client[c].cookie = byID[i].cookie
    \/ client[c].phase = "init" /\ client[c].payload /\ SigOf(c) = byID[i].sig

(* Cleanup: idle sessions go.                                               *)
Cleanup(idle) ==
  LET cutOff == {i \in idle : InUse(i)} IN
  /\ outages + Cardinality(cutOff) <= Outages
  /\ outages' = outages + Cardinality(cutOff)
  /\ Remove(idle, Indexed)
  /\ UNCHANGED <<client, notice, toServer, toClient, netChanges>>

ReuseEnds(i) ==
  /\ byID[i].reusable
  /\ byID' = [byID EXCEPT ![i].reusable = FALSE]
  /\ UNCHANGED <<client, bySig, activeCount, nextID, notice, toServer, toClient,
                 bounds>>

-----------------------------------------------------------------------------
(* The client. *)

Become(c, new) == client' = [client EXCEPT ![c] = new]

(* Packets may be lost; those that must make room for new ones are.         *)
Send(msgs) ==
  \E kept \in SUBSET toServer :
    /\ Cardinality(kept \cup msgs) = Min({Network, Cardinality(toServer \cup msgs)})
    /\ toServer' = kept \cup msgs

(* nextSessionInitAttempt makes a payload if there is none; the query is    *)
(* sent, and sent again, until there is an answer.                          *)
SendInit(c) ==
  /\ client[c].phase = "init"
  /\ IF client[c].payload THEN UNCHANGED client
     ELSE Become(c, [client[c] EXCEPT !.payload = TRUE, !.inits = @ + 1])
  /\ Send({[type |-> "init", sig |-> <<c, client'[c].inits>>]})
  /\ Answers({})
  /\ UNCHANGED <<store, notice, bounds>>

(* applySessionInitPacket, and Run starts the runtime. *)
ReceiveAccept(m) ==
  LET c == m.sig[1] IN
  /\ m.type = "accept"
  /\ Become(c, [client[c] EXCEPT !.phase = "ready", !.payload = FALSE,
                                 !.id = m.id, !.cookie = m.cookie])
  /\ Answers({})
  /\ UNCHANGED <<store, notice, toServer, bounds>>

(* Whatever runs on the session sends packets with its id and cookie; when  *)
(* nothing else does, the ping manager.                                     *)
SendData(c) ==
  /\ client[c].phase = "ready"
  /\ Send({DataPacket(c)})
  /\ UNCHANGED <<client, store, notice, toClient, bounds>>

(* requestSessionRestart *)
Request(a) == IF a.pending THEN a ELSE [a EXCEPT !.pending = TRUE, !.signal = TRUE]

(* HandleErrorDrop looks at nothing in the packet. *)
ReceiveDrop(m) ==
  /\ m.type = "drop"
  /\ Become(m.sig[1], Request(client[m.sig[1]]))
  /\ toClient' = toClient \ {m}
  /\ UNCHANGED <<store, notice, toServer, bounds>>

(* Run takes the signal: it stops the runtime and forgets the session...    *)
Restart(c) ==
  /\ client[c].phase = "ready" /\ client[c].signal
  /\ Become(c, [client[c] EXCEPT !.phase = "reset", !.signal = FALSE, !.id = 0, !.cookie = 0])
  /\ Answers({})
  /\ UNCHANGED <<store, notice, toServer, bounds>>

ClearPendingForgotten(a) == a

(* ... and withdraws the request, in the two steps of                       *)
(* clearRuntimeResetRequest.                                                *)
ClearPending(a) == [a EXCEPT !.pending = FALSE]

Withdraw(c) ==
  /\ \/ /\ client[c].phase = "reset"
        /\ Become(c, [ClearPending(client[c]) EXCEPT !.phase = "clear"])
     \/ /\ client[c].phase = "clear"
        /\ Become(c, [client[c] EXCEPT !.phase = "init", !.signal = FALSE,
                                       !.missed = @ \/ client[c].signal])
  /\ UNCHANGED <<store, notice, toServer, toClient, bounds>>

(* handleNetbindChange runs on the app's thread: it looks whether there is  *)
(* a runtime, and requests a restart in the two steps of                    *)
(* requestSessionRestart.                                                   *)
HookCheck(c) ==
  /\ client[c].phase = "ready" /\ client[c].hook = "idle"
  /\ netChanges < NetChanges
  /\ netChanges' = netChanges + 1
  /\ Become(c, [client[c] EXCEPT !.hook = "checked"])
  /\ UNCHANGED <<store, notice, toServer, toClient, outages>>

HookRequest(c) ==
  /\ \/ /\ client[c].hook = "checked"
        /\ Become(c, [client[c] EXCEPT !.hook = IF client[c].pending THEN "idle" ELSE "marked",
                                       !.pending = TRUE])
     \/ /\ client[c].hook = "marked"
        /\ Become(c, [client[c] EXCEPT !.hook = "idle", !.signal = TRUE])
  /\ UNCHANGED <<store, notice, toServer, toClient, bounds>>

(* The context is cancelled: notifySessionCloseBurst, if there is a session *)
(* and a resolver to send by.                                               *)
Stop(c) ==
  /\ client[c].phase # "stopped"
  /\ \E n \in 0 .. Burst :
       Send(IF client[c].phase = "ready" THEN {ClosePacket(c, k) : k \in 1 .. n} ELSE {})
  /\ Become(c, [client[c] EXCEPT !.phase = "stopped", !.payload = FALSE, !.signal = FALSE])
  /\ Answers({})
  /\ UNCHANGED <<store, notice, bounds>>

-----------------------------------------------------------------------------
Handle(m) == HandleSessionInit(m) \/ HandleData(m)

Run(c) == SendInit(c) \/ SendData(c) \/ Restart(c) \/ Withdraw(c) \/ HookRequest(c)

Next ==
  \/ \E m \in toServer : Handle(m) \/ \E w \in Ingress : LookupClose(w, m)
  \/ \E w \in Ingress : Close(w)
  \/ \E idle \in SUBSET {i \in Slot : byID[i] # None} : Cleanup(idle)
  \/ \E i \in Slot : ReuseEnds(i)
  \/ \E m \in toClient : ReceiveAccept(m) \/ ReceiveDrop(m)
  \/ \E c \in Client : Run(c) \/ HookCheck(c) \/ Stop(c)

Spec == Init /\ [][Next]_vars

(* The loops run; packets that are sent again and again arrive and are      *)
(* answered in the end, and sessions that nobody uses are timed out.        *)
Fairness ==
  /\ \A c \in Client \ Gone :
       /\ WF_vars(SendInit(c)) /\ WF_vars(SendData(c))
       /\ WF_vars(Restart(c)) /\ WF_vars(Withdraw(c)) /\ WF_vars(HookRequest(c))
       /\ SF_vars(\E m \in toServer : m.sig = SigOf(c) /\ HandleSessionInit(m))
       /\ SF_vars(\E m \in toServer : m.sig = SigOf(c) /\ HandleData(m) /\ Dropped(m))
       /\ WF_vars(\E m \in toClient : m.sig[1] = c /\ (ReceiveAccept(m) \/ ReceiveDrop(m)))
  /\ WF_vars(\E idle \in SUBSET {i \in Slot : byID[i] # None} :
               idle # {} /\ (\A i \in idle : ~InUse(i)) /\ Cleanup(idle))

FairSpec == Spec /\ Fairness

-----------------------------------------------------------------------------
(* Properties. *)

TypeOK ==
  /\ client \in [Client -> [phase : {"init", "ready", "reset", "clear", "stopped"}, inits : Nat,
                            payload : BOOLEAN, id : Slot \cup {0}, cookie : Nat,
                            pending : BOOLEAN, signal : BOOLEAN,
                            hook : {"idle", "checked", "marked"}, missed : BOOLEAN]]
  /\ byID \in [Slot -> [sig : Sig, cookie : Nat, reusable : BOOLEAN, again : BOOLEAN] \cup {None}]
  /\ DOMAIN bySig \subseteq Sig /\ bySig \in [DOMAIN bySig -> Slot]
  /\ activeCount = Cardinality({i \in Slot : byID[i] # None})
  /\ nextID \in Slot
  /\ notice \in [Ingress -> Slot \cup {0}]

(* A payload in the index leads to a session that was made for it, so that  *)
(* a repeated init is never given another client's session, nor one that    *)
(* has gone (findOrCreate compares no signatures when it finds an entry).   *)
IndexSound == TypeOK /\ \A sig \in DOMAIN bySig : byID[bySig[sig]].sig = sig

(* Packets that the server accepts reach the session that was made for      *)
(* their client, however late answers to earlier inits arrive, unless that  *)
(* session was given a cookie of its slot that was still known              *)
(* (applySessionInitPacket, ValidateAndTouch, randomCookieLocked).          *)
OwnSession ==
  \A c \in Client :
    client[c].phase = "ready" /\ Valid(client[c].id, client[c].cookie)
      => byID[client[c].id].sig = SigOf(c) \/ byID[client[c].id].again

(* A drop that a runtime receives is about its own session, which has gone: *)
(* nothing in the packet says so (HandleErrorDrop, StopAsyncRuntime).  Only *)
(* another session of the slot with the same cookie may be there by then.   *)
DropIsTrue ==
  \A m \in toClient : LET a == client[m.sig[1]] IN
    m.type = "drop" /\ Valid(a.id, a.cookie) => byID[a.id].again

Served(c) == client[c].phase = "ready" /\ Valid(client[c].id, client[c].cookie)

(* A client without a session, or whose session the server has closed, gets *)
(* a new one, unless it stops or a change of the interface meets the        *)
(* withdrawal of an earlier request (Run, requestSessionRestart,            *)
(* clearRuntimeResetRequest).                                               *)
Recovers ==
  \A c \in Client \ Gone :
    ~Served(c) ~> Served(c) \/ client[c].phase = "stopped" \/ client[c].missed
=============================================================================
