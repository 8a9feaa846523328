------------------------- MODULE SessionStore_proof -------------------------
(***************************************************************************)
(* Sessions, for any number of clients, slots, workers and cookies: the    *)
(* index of signatures is sound; and but for a session whose cookie was    *)
(* still known when it was drawn, a client's packets reach the session     *)
(* made for it, and a drop that a client hears is about the session it is  *)
(* on.                                                                     *)
(***************************************************************************)
EXTENDS SessionStore, FiniteSetTheorems, NaturalsInduction, TLAPS

Phase     == {"init", "ready", "reset", "clear", "stopped"}
ClientRec == [phase : Phase, inits : Nat, payload : BOOLEAN, id : Slot \cup {0}, cookie : Nat,
              pending : BOOLEAN, signal : BOOLEAN, hook : {"idle", "checked", "marked"},
              missed : BOOLEAN]
Session   == [sig : Sig, cookie : Nat, reusable : BOOLEAN, again : BOOLEAN]
Occupied  == {i \in Slot : byID[i] # None}

SlotsType == byID \in [Slot -> Session \cup {None}] /\ nextID \in Slot
IndexType == DOMAIN bySig \subseteq Sig /\ bySig \in [DOMAIN bySig -> Slot]
Counted   == activeCount = Cardinality(Occupied)
NoticeType == notice \in [Ingress -> Slot \cup {0}]
Sound     == \A sig \in DOMAIN bySig : byID[bySig[sig]].sig = sig

StoreInv == SlotsType /\ IndexType /\ Counted /\ Sound /\ NoticeType

(* A payload is there while an init is sent, and a running client has a    *)
(* session.                                                                *)
ClientFits(a) == (a.payload => a.phase = "init") /\ (a.phase = "ready" => a.id \in Slot)
ClientInv     == client \in [Client -> ClientRec] /\ \A c \in Client : ClientFits(client[c])

ServerForm ==
  /\ IsFiniteSet(toServer)
  /\ \A m \in toServer : m.sig \in Sig /\ (m.type # "init" => m.id \in Slot /\ m.cookie \in Nat)

AnswerForm(m) ==
  /\ m.sig \in Sig /\ m.type \in {"accept", "drop"}
  /\ m.type = "accept" => m.id \in Slot /\ m.cookie \in Nat
ClientForm == IsFiniteSet(toClient) /\ \A m \in toClient : AnswerForm(m)

(* A data packet of the client's latest init is one of the session it has. *)
DataFits(m, a) ==
  /\ m.sig[2] <= a.inits
  /\ m.sig[2] = a.inits =>
       /\ ~a.payload
       /\ a.phase = "ready" => m.id = a.id /\ m.cookie = a.cookie
DataInv == \A m \in toServer : m.type = "data" => DataFits(m, client[m.sig[1]])

(* An answer under way is one that its client waits for. *)
AnswerFits(m, a) ==
  /\ m.sig[2] = a.inits
  /\ IF m.type = "accept" THEN a.phase = "init" /\ a.payload
     ELSE a.phase = "ready" /\ (Valid(a.id, a.cookie) => byID[a.id].again)
AnswerInv == \A m \in toClient : AnswerFits(m, client[m.sig[1]])

(* What it accepts is the session of its payload, or has gone, or another  *)
(* with a cookie that was still known.                                     *)
AcceptInv == \A m \in toClient :
  m.type = "accept" /\ Valid(m.id, m.cookie) => byID[m.id].sig = m.sig \/ byID[m.id].again

PacketInv == ServerForm /\ ClientForm /\ DataInv /\ AnswerInv /\ AcceptInv

Inv == StoreInv /\ ClientInv /\ PacketInv /\ OwnSession

-----------------------------------------------------------------------------
LEMMA InvImplies == ASSUME Inv PROVE IndexSound /\ DropIsTrue
<1>1. TypeOK
  BY DEF Inv, StoreInv, SlotsType, IndexType, Counted, NoticeType, Occupied, Session, ClientInv,
         ClientRec, Phase, TypeOK
<1>2. QED
  BY <1>1 DEF Inv, StoreInv, Sound, IndexSound, PacketInv, AnswerInv, AnswerFits, ClientForm,
              AnswerForm, DropIsTrue

LEMMA SlotFacts == IsFiniteSet(Slot) /\ 0 \notin Slot /\ Slot \subseteq Nat
  /\ (\A S \in SUBSET Slot : IsFiniteSet(S) /\ Cardinality(S) \in Nat)
<1>1. SlotCount \in Nat /\ Slot = 1 .. SlotCount
  BY SessionAssumption DEF Slot
<1>2. IsFiniteSet(Slot)
  BY <1>1, FS_Interval
<1>3. ASSUME NEW S \in SUBSET Slot PROVE IsFiniteSet(S) /\ Cardinality(S) \in Nat
  BY <1>2, FS_Subset, FS_CardinalityType
<1>4. 0 \notin Slot /\ Slot \subseteq Nat
  BY <1>1
<1>5. QED
  BY <1>2, <1>3, <1>4

LEMMA NoneFacts == None.sig \notin Sig /\ None \notin Session /\ None.reusable = FALSE
BY DEF None, Sig, Session

-----------------------------------------------------------------------------
(* The cookies of a slot that somebody knows *)

LEMMA KnownAre ==
  ASSUME NEW i, NEW k
  PROVE  /\ \A c \in Client : client[c].id = i /\ client[c].cookie = k => k \in KnownCookies(i)
         /\ \A m \in toClient : m.type = "accept" /\ m.id = i /\ m.cookie = k => k \in KnownCookies(i)
BY DEF KnownCookies

(* A set of numbers has a least one: of the intervals below its members,  *)
(* one contains no other.                                                  *)
LEMMA HasLeast ==
  ASSUME NEW D, D \subseteq Nat, D # {}
  PROVE  \E d \in D : \A e \in D : d <= e
<1> DEFINE R == StrictSubsetOrdering(Nat)
           T == {0 .. d - 1 : d \in D}
<1>1. \A d \in Nat : 0 .. d - 1 \in FiniteSubsetsOf(Nat)
  BY FS_Interval DEF FiniteSubsetsOf
<1>2. T \subseteq FiniteSubsetsOf(Nat) /\ T # {}
  BY <1>1
<1>3. \E x \in T : \A y \in T : ~ (<<y, x>> \in R)
  <2> HIDE DEF R, T
  <2>1. IsWellFoundedOn(R, FiniteSubsetsOf(Nat))
    BY FS_StrictSubsetOrderingWellFounded DEF R
  <2>2. QED
    BY <1>2, <2>1, WFMin
<1>4. PICK d \in D : \A e \in D : ~ (<<0 .. e - 1, 0 .. d - 1>> \in R)
  BY <1>3
<1>5. ASSUME NEW e \in D, e < d PROVE FALSE
  <2>1. 0 .. e - 1 \subseteq 0 .. d - 1 /\ e \in 0 .. d - 1 /\ e \notin 0 .. e - 1
    BY <1>5
  <2>2. 0 .. e - 1 \in SUBSET Nat /\ 0 .. d - 1 \in SUBSET Nat
    BY <1>5
  <2>3. <<0 .. e - 1, 0 .. d - 1>> \in R
    BY <2>1, <2>2 DEF StrictSubsetOrdering
  <2>4. QED
    BY <1>4, <2>3
<1>6. \A e \in D : d <= e
  BY <1>5
<1>7. QED
  BY <1>6

(* The slot that is taken was free. *)
LEMMA SlotFree ==
  ASSUME SlotsType, Counted, activeCount < SlotCount
  PROVE  FreeSlot \in Slot /\ byID[FreeSlot] = None
<1> DEFINE distance(i) == (i + SlotCount - nextID) % SlotCount
           free        == {i \in Slot : byID[i] = None}
<1>1. SlotCount \in Nat \ {0} /\ Slot = 1 .. SlotCount /\ Cardinality(Slot) = SlotCount
  BY SessionAssumption, FS_Interval DEF Slot
<1>2. PICK j \in Slot : j \in free
  <2>1. Occupied # Slot
    BY <1>1 DEF Counted
  <2>2. QED
    BY <2>1 DEF Occupied
<1>3. \A i \in free : distance(i) \in Nat
  <2>1. \A i \in 1 .. SlotCount, k \in 1 .. SlotCount : (i + SlotCount - k) % SlotCount \in Nat
    BY <1>1
  <2>2. QED
    BY <1>1, <2>1 DEF SlotsType
<1>4. \E i \in free : \A k \in free : distance(i) <= distance(k)
  <2> DEFINE D == {distance(i) : i \in free}
  <2>1. D \subseteq Nat /\ D # {}
    BY <1>2, <1>3
  <2>2. \E d \in D : \A e \in D : d <= e
    <3> HIDE DEF D
    <3>1. QED
      BY <2>1, HasLeast
  <2>3. QED
    BY <2>2
<1>5. FreeSlot \in free
  BY <1>4 DEF FreeSlot
<1>6. QED
  BY <1>5

-----------------------------------------------------------------------------
(* The store *)

(* Sessions only go: what is valid then was so before. *)
Shrinks == /\ byID' \in [Slot -> Session \cup {None}]
           /\ \A i \in Slot : byID'[i] # None =>
                /\ byID[i] # None
                /\ byID'[i].sig = byID[i].sig /\ byID'[i].cookie = byID[i].cookie
                /\ byID'[i].again = byID[i].again

LEMMA IndexedFacts ==
  ASSUME IndexType, Sound
  PROVE  /\ DOMAIN Indexed \subseteq DOMAIN bySig
         /\ \A sig \in DOMAIN Indexed : Indexed[sig] = bySig[sig] /\ bySig[sig] \in Slot
                                         /\ byID[bySig[sig]].reusable
BY DEF IndexType, Indexed, Restrict

LEMMA RemoveStore ==
  ASSUME StoreInv, NEW ids \in SUBSET Occupied, NEW index,
         DOMAIN index \subseteq DOMAIN bySig, \A sig \in DOMAIN index : index[sig] = bySig[sig],
         Remove(ids, index)
  PROVE  SlotsType' /\ IndexType' /\ Counted' /\ Sound' /\ Shrinks
<1> DEFINE keys == DOMAIN index \ {byID[i].sig : i \in ids}
<1>1. /\ byID' = [i \in Slot |-> IF i \in ids THEN None ELSE byID[i]]
      /\ bySig' = [sig \in keys |-> index[sig]]
      /\ activeCount' = activeCount - Cardinality(ids) /\ nextID' = nextID
  BY DEF Remove, Restrict
<1>2. ids \subseteq Slot
  BY DEF Occupied
<1>3. SlotsType' /\ Shrinks
  BY <1>1 DEF StoreInv, SlotsType, Shrinks
<1>4. DOMAIN bySig' = keys /\ \A sig \in keys : bySig'[sig] = bySig[sig]
  BY <1>1
<1>5. IndexType'
  BY <1>1, <1>4 DEF StoreInv, IndexType
<1>6. \A sig \in keys : bySig[sig] \in Slot /\ byID[bySig[sig]].sig = sig /\ bySig[sig] \notin ids
  BY DEF StoreInv, IndexType, Sound
<1>7. Sound'
  BY <1>1, <1>4, <1>6 DEF Sound
<1>8. Occupied' = Occupied \ ids
  BY <1>1 DEF Occupied
<1>9. Counted'
  <2>1. IsFiniteSet(Occupied) /\ Occupied \cap ids = ids
    BY SlotFacts DEF Occupied
  <2>2. Cardinality(Occupied \ ids) = Cardinality(Occupied) - Cardinality(ids)
    BY <2>1, FS_Difference
  <2>3. QED
    BY <1>1, <1>8, <2>2 DEF StoreInv, Counted
<1>10. QED
  BY <1>3, <1>5, <1>7, <1>9

LEMMA CreateStore ==
  ASSUME StoreInv, NEW sig \in Sig, Create(sig)
  PROVE  /\ SlotsType' /\ IndexType' /\ Counted' /\ Sound'
         /\ FreeSlot \in Slot /\ byID[FreeSlot] = None
         /\ \E k \in Nat :
              byID' = [byID EXCEPT ![FreeSlot] =
                         [sig |-> sig, cookie |-> k, reusable |-> TRUE, again |-> k \in KnownCookies(FreeSlot)]]
<1> DEFINE i == FreeSlot
<1>0. PICK k \in Nat :
        byID' = [byID EXCEPT ![i] = [sig |-> sig, cookie |-> k, reusable |-> TRUE, again |-> k \in KnownCookies(i)]]
  BY SessionAssumption DEF Create, RandomCookies
<1> DEFINE s == [sig |-> sig, cookie |-> k, reusable |-> TRUE, again |-> k \in KnownCookies(i)]
<1>1. i \in Slot /\ byID[i] = None
  BY SlotFree DEF StoreInv, Create
<1>2. /\ byID' = [byID EXCEPT ![i] = s]
      /\ bySig' = [g \in DOMAIN Indexed \cup {sig} |-> IF g = sig THEN i ELSE Indexed[g]]
      /\ activeCount' = activeCount + 1 /\ nextID' = (i % SlotCount) + 1
  BY <1>0 DEF Create
<1>3. s \in Session /\ s # None /\ s.sig = sig
  BY NoneFacts DEF Session
<1> HIDE DEF s
<1>4. nextID' \in Slot
  <2>1. SlotCount \in Nat \ {0} /\ i \in 1 .. SlotCount
    BY <1>1, SessionAssumption DEF Slot
  <2> HIDE DEF i
  <2>2. QED
    BY <1>2, <2>1 DEF Slot
<1>5. \A j \in Slot : byID'[j] = IF j = i THEN s ELSE byID[j]
  BY <1>2 DEF StoreInv, SlotsType
<1>6. SlotsType'
  BY <1>1, <1>2, <1>3, <1>4 DEF StoreInv, SlotsType
<1>7. \A g \in DOMAIN Indexed : g \in Sig /\ Indexed[g] \in Slot /\ byID[Indexed[g]].sig = g /\ Indexed[g] # i
  BY <1>1, IndexedFacts, NoneFacts DEF StoreInv, IndexType, Sound
<1>8. IndexType'
  BY <1>1, <1>2, <1>7 DEF IndexType
<1>9. Sound'
  BY <1>1, <1>2, <1>3, <1>5, <1>7 DEF Sound
<1>10. Occupied' = Occupied \cup {i}
  BY <1>1, <1>3, <1>5 DEF Occupied
<1>11. Counted'
  <2>1. IsFiniteSet(Occupied) /\ i \notin Occupied
    BY <1>1, SlotFacts DEF Occupied
  <2>2. QED
    BY <1>2, <1>10, <2>1, FS_AddElement DEF StoreInv, Counted
<1>12. QED
  BY <1>0, <1>1, <1>6, <1>8, <1>9, <1>11

-----------------------------------------------------------------------------
(* The handlers of the server *)

LEMMA ShrinkKeeps ==
  ASSUME Inv, Shrinks, UNCHANGED client, toServer' \subseteq toServer, toClient' \subseteq toClient
  PROVE  ClientInv' /\ PacketInv' /\ OwnSession'
<1>1. ClientInv'
  BY DEF Inv, ClientInv
<1>2. \A i \in Slot : \A k : Valid(i, k)' =>
        Valid(i, k) /\ byID'[i].sig = byID[i].sig /\ byID'[i].again = byID[i].again
  BY DEF Shrinks, Valid
<1>3. ServerForm' /\ DataInv'
  <2>1. IsFiniteSet(toServer')
    BY FS_Subset DEF Inv, PacketInv, ServerForm
  <2>2. QED
    BY <2>1 DEF Inv, PacketInv, ServerForm, DataInv
<1>4. ClientForm'
  <2>1. IsFiniteSet(toClient')
    BY FS_Subset DEF Inv, PacketInv, ClientForm
  <2>2. QED
    BY <2>1 DEF Inv, PacketInv, ClientForm
<1>5. \A m \in toClient : AnswerForm(m) /\ m.sig[1] \in Client
  BY DEF Inv, PacketInv, ClientForm, AnswerForm, Sig
<1>6. AcceptInv'
  BY <1>2, <1>5 DEF Inv, PacketInv, AcceptInv, AnswerForm
<1>7. AnswerInv'
  BY <1>2, <1>5 DEF Inv, PacketInv, AnswerInv, AnswerFits, ClientInv, ClientFits
<1>8. OwnSession'
  BY <1>2 DEF Inv, OwnSession, ClientInv, ClientFits, SigOf
<1>9. QED
  BY <1>1, <1>3, <1>4, <1>6, <1>7, <1>8 DEF PacketInv

LEMMA SameShrinks == ASSUME Inv, UNCHANGED byID PROVE Shrinks
BY DEF Inv, StoreInv, SlotsType, Shrinks

LEMMA StoreStays == ASSUME StoreInv, UNCHANGED <<store, notice>> PROVE StoreInv'
BY DEF store, StoreInv, SlotsType, IndexType, Counted, Sound, NoticeType, Occupied

LEMMA CloseKeeps == ASSUME Inv, NEW w \in Ingress, Close(w) PROVE Inv'
<1>1. notice' = [notice EXCEPT ![w] = 0] /\ UNCHANGED <<client, toServer, toClient>>
  BY DEF Close
<1>2. NoticeType'
  BY <1>1 DEF Inv, StoreInv, NoticeType
<1>3. CASE UNCHANGED store
  <2>1. SlotsType' /\ IndexType' /\ Counted' /\ Sound' /\ Shrinks
    BY <1>3, SameShrinks DEF store, Inv, StoreInv, SlotsType, IndexType, Counted, Sound, Occupied
  <2>2. QED
    BY <1>1, <1>2, <2>1, ShrinkKeeps DEF Inv, StoreInv
<1>4. CASE byID[notice[w]] # None /\ Remove({notice[w]}, bySig)
  <2>1. {notice[w]} \in SUBSET Occupied
    BY <1>4 DEF Close, Inv, StoreInv, NoticeType, Occupied
  <2>2. SlotsType' /\ IndexType' /\ Counted' /\ Sound' /\ Shrinks
    BY <1>4, <2>1, RemoveStore DEF Inv
  <2>3. QED
    BY <1>1, <1>2, <2>2, ShrinkKeeps DEF Inv, StoreInv
<1>5. QED
  BY <1>3, <1>4 DEF Close

LEMMA CleanupKeeps == ASSUME Inv, NEW idle \in SUBSET Occupied, Cleanup(idle) PROVE Inv'
<1>1. UNCHANGED <<client, notice, toServer, toClient>> /\ Remove(idle, Indexed)
  BY DEF Cleanup
<1>2. DOMAIN Indexed \subseteq DOMAIN bySig /\ \A sig \in DOMAIN Indexed : Indexed[sig] = bySig[sig]
  BY IndexedFacts DEF Inv, StoreInv
<1>3. SlotsType' /\ IndexType' /\ Counted' /\ Sound' /\ Shrinks
  BY <1>1, <1>2, RemoveStore DEF Inv
<1>4. QED
  BY <1>1, <1>3, ShrinkKeeps DEF Inv, StoreInv, NoticeType

LEMMA ReuseEndsKeeps == ASSUME Inv, NEW i \in Slot, ReuseEnds(i) PROVE Inv'
<1> DEFINE s == [byID[i] EXCEPT !.reusable = FALSE]
<1>1. byID[i] \in Session
  BY NoneFacts DEF ReuseEnds, Inv, StoreInv, SlotsType
<1>2. /\ s \in Session /\ s # None /\ byID[i] # None
      /\ s.sig = byID[i].sig /\ s.cookie = byID[i].cookie /\ s.again = byID[i].again
  BY <1>1, NoneFacts DEF Session
<1>3. byID' = [byID EXCEPT ![i] = s]
  BY DEF ReuseEnds, Inv, StoreInv, SlotsType
<1> HIDE DEF s
<1>4. \A j \in Slot : byID'[j] = IF j = i THEN s ELSE byID[j]
  BY <1>3 DEF Inv, StoreInv, SlotsType
<1>5. UNCHANGED <<client, bySig, activeCount, nextID, notice, toServer, toClient>>
  BY DEF ReuseEnds
<1>6. SlotsType' /\ Shrinks
  BY <1>2, <1>3, <1>4, <1>5 DEF Inv, StoreInv, SlotsType, Shrinks
<1>7. Occupied' = Occupied
  BY <1>2, <1>4 DEF Occupied
<1>8. IndexType' /\ Counted' /\ Sound' /\ NoticeType'
  BY <1>2, <1>4, <1>5, <1>7 DEF Inv, StoreInv, IndexType, Counted, Sound, NoticeType
<1>9. QED
  BY <1>5, <1>6, <1>8, ShrinkKeeps DEF Inv, StoreInv

LEMMA LookupKeeps ==
  ASSUME Inv, NEW w \in Ingress, NEW m \in toServer, LookupClose(w, m)
  PROVE  Inv'
<1>1. /\ toServer' = toServer \ {m} /\ UNCHANGED <<client, store, toClient>> /\ m.type = "close"
      /\ notice' = [notice EXCEPT ![w] = IF Valid(m.id, m.cookie) THEN m.id ELSE 0]
  BY DEF LookupClose
<1>2. m.id \in Slot
  BY <1>1 DEF Inv, PacketInv, ServerForm
<1>3. NoticeType'
  BY <1>1, <1>2 DEF Inv, StoreInv, NoticeType
<1>4. SlotsType' /\ IndexType' /\ Counted' /\ Sound' /\ Shrinks
  BY <1>1, SameShrinks DEF store, Inv, StoreInv, SlotsType, IndexType, Counted, Sound, Occupied
<1>5. QED
  BY <1>1, <1>3, <1>4, ShrinkKeeps DEF Inv, StoreInv

(* Answers reach those who wait for them. *)
LEMMA AnswersGiven ==
  ASSUME Inv, NEW a, AnswerForm(a), Answers({a}), UNCHANGED client
  PROVE  /\ ClientForm'
         /\ \A m \in toClient' : (m = a \/ m \in toClient) /\ Awaited(m)
<1>1. toClient' = {m \in toClient \cup {a} : Awaited(m)}
  BY DEF Answers
<1>2. IsFiniteSet(toClient \cup {a})
  BY FS_AddElement DEF Inv, PacketInv, ClientForm
<1>3. IsFiniteSet(toClient')
  <2>1. toClient' \in SUBSET (toClient \cup {a})
    BY <1>1
  <2>2. QED
    BY <1>2, <2>1, FS_Subset
<1>4. QED
  BY <1>1, <1>3 DEF Inv, PacketInv, ClientForm

LEMMA DataKeeps == ASSUME Inv, NEW m \in toServer, HandleData(m) PROVE Inv'
<1>1. m.type = "data" /\ toServer' = toServer \ {m} /\ UNCHANGED <<client, store, notice>>
  BY DEF HandleData
<1>2. StoreInv' /\ Shrinks /\ UNCHANGED byID
  BY <1>1, StoreStays, SameShrinks DEF Inv, store
<1>3. CASE UNCHANGED toClient
  BY <1>1, <1>2, <1>3, ShrinkKeeps DEF Inv
<1>4. CASE Dropped(m)
  <2> DEFINE a == Drop(m)
  <2>1. AnswerForm(a) /\ a.type = "drop" /\ a.sig = m.sig /\ m.sig[1] \in Client
    BY DEF Drop, AnswerForm, Inv, PacketInv, ServerForm, Sig
  <2>2. ~Valid(m.id, m.cookie) /\ Answers({a})
    BY <1>4 DEF Dropped
  <2> HIDE DEF a
  <2>3. ClientForm' /\ \A n \in toClient' : (n = a \/ n \in toClient) /\ Awaited(n)
    BY <1>1, <2>1, <2>2, AnswersGiven
  <2>4. ASSUME a \in toClient' PROVE AnswerFits(a, client[a.sig[1]])
    <3>1. a.sig[2] = client[a.sig[1]].inits /\ client[a.sig[1]].phase = "ready"
      BY <1>1, <2>1, <2>3, <2>4 DEF Awaited
    <3>2. DataFits(m, client[m.sig[1]])
      BY <1>1 DEF Inv, PacketInv, DataInv
    <3>3. QED
      BY <2>1, <2>2, <3>1, <3>2 DEF DataFits, AnswerFits
  <2>5. AnswerInv'
    BY <1>1, <1>2, <2>3, <2>4 DEF Inv, PacketInv, AnswerInv, AnswerFits, Valid
  <2>6. AcceptInv'
    BY <1>2, <2>1, <2>3 DEF Inv, PacketInv, AcceptInv, Valid
  <2>7. ServerForm' /\ DataInv'
    <3>1. IsFiniteSet(toServer')
      BY <1>1, FS_Subset DEF Inv, PacketInv, ServerForm
    <3>2. QED
      BY <1>1, <3>1 DEF Inv, PacketInv, ServerForm, DataInv
  <2>8. ClientInv' /\ OwnSession'
    BY <1>1, <1>2 DEF Inv, ClientInv, OwnSession, Valid, SigOf
  <2>9. QED
    BY <1>2, <2>3, <2>5, <2>6, <2>7, <2>8 DEF Inv, PacketInv
<1>5. QED
  BY <1>3, <1>4 DEF HandleData, Accepted, Ignored

LEMMA InitKeeps == ASSUME Inv, NEW m \in toServer, HandleSessionInit(m) PROVE Inv'
<1>1. m.sig \in Sig /\ m.sig[1] \in Client
  BY DEF Inv, PacketInv, ServerForm, Sig
<1>2. UNCHANGED <<client, notice>> /\ toServer' = toServer \ {m}
  BY DEF HandleSessionInit, Reuse, Create, TableFull
<1>3. ServerForm' /\ DataInv'
  <2>1. IsFiniteSet(toServer')
    BY <1>2, FS_Subset DEF Inv, PacketInv, ServerForm
  <2>2. QED
    BY <1>2, <2>1 DEF Inv, PacketInv, ServerForm, DataInv
<1>4. ClientInv' /\ NoticeType'
  BY <1>2 DEF Inv, ClientInv, StoreInv, NoticeType
<1>5. CASE Reuse(m.sig) \/ TableFull(m.sig)
  <2>1. bySig' = Indexed /\ UNCHANGED <<byID, activeCount, nextID>>
    BY <1>5 DEF Reuse, TableFull
  <2>2. \A sig \in DOMAIN Indexed : /\ sig \in DOMAIN bySig /\ Indexed[sig] = bySig[sig]
                                    /\ bySig[sig] \in Slot /\ byID[bySig[sig]].reusable
    BY IndexedFacts DEF Inv, StoreInv
  <2>3. IndexType'
    <3>1. bySig' \in [DOMAIN bySig' -> Slot]
      BY <2>1, <2>2 DEF Indexed, Restrict
    <3>2. QED
      BY <2>1, <2>2, <3>1 DEF Inv, StoreInv, IndexType
  <2>4. Sound' /\ SlotsType' /\ Counted'
    BY <2>1, <2>2 DEF Inv, StoreInv, SlotsType, Counted, Sound, Occupied
  <2>5. StoreInv'
    BY <1>4, <2>3, <2>4 DEF StoreInv
  <2>6. OwnSession'
    BY <1>2, <2>1 DEF Inv, OwnSession, Valid, SigOf
  <2>7. CASE UNCHANGED toClient
    <3>1. ClientForm' /\ AnswerInv' /\ AcceptInv'
      BY <1>2, <2>1, <2>7 DEF Inv, PacketInv, ClientForm, AnswerInv, AcceptInv, AnswerFits, Valid
    <3>2. QED
      BY <1>3, <1>4, <2>5, <2>6, <3>1 DEF Inv, PacketInv
  <2>8. CASE Reuse(m.sig)
    <3> DEFINE i == Indexed[m.sig]
               a == Accept(m.sig, i)
    <3>1. i \in Slot /\ byID[i].sig = m.sig /\ byID[i].cookie \in Nat
      BY <2>2, <2>8, NoneFacts DEF Reuse, Inv, StoreInv, SlotsType, Sound, Session
    <3>2. /\ AnswerForm(a) /\ a.type = "accept" /\ a.sig = m.sig /\ a.id = i
          /\ a.cookie = byID[i].cookie
      BY <1>1, <2>1, <3>1 DEF Accept, AnswerForm
    <3>3. Answers({a})
      BY <2>8 DEF Reuse
    <3> HIDE DEF a, i
    <3>4. ClientForm' /\ \A n \in toClient' : (n = a \/ n \in toClient) /\ Awaited(n)
      BY <1>2, <3>2, <3>3, AnswersGiven
    <3>5. AnswerInv'
      BY <1>2, <2>1, <3>2, <3>4 DEF Inv, PacketInv, AnswerInv, AnswerFits, Awaited, Valid
    <3>6. AcceptInv'
      BY <2>1, <3>1, <3>2, <3>4 DEF Inv, PacketInv, AcceptInv, Valid
    <3>7. QED
      BY <1>3, <1>4, <2>5, <2>6, <3>4, <3>5, <3>6 DEF Inv, PacketInv
  <2>9. QED
    BY <1>5, <2>7, <2>8 DEF TableFull
<1>6. CASE Create(m.sig)
  <2> DEFINE i == FreeSlot
             a == Accept(m.sig, i)
  <2>1. i \in Slot
    BY <1>6, SlotFree DEF Inv, StoreInv, Create
  <2>2. SlotsType' /\ IndexType' /\ Counted' /\ Sound' /\ byID[i] = None
    BY <1>1, <1>6, CreateStore DEF Inv
  <2>3. PICK k \in Nat :
          byID' = [byID EXCEPT ![i] = [sig |-> m.sig, cookie |-> k, reusable |-> TRUE,
                                       again |-> k \in KnownCookies(i)]]
    BY <1>1, <1>6, CreateStore DEF Inv
  <2>4. /\ byID'[i].sig = m.sig /\ byID'[i].cookie = k /\ byID'[i].again = (k \in KnownCookies(i))
        /\ \A j \in Slot : j # i => byID'[j] = byID[j]
    BY <2>1, <2>3 DEF Inv, StoreInv, SlotsType
  <2>5. /\ AnswerForm(a) /\ a.type = "accept" /\ a.sig = m.sig /\ a.id = i
    BY <1>1, <2>1, <2>4 DEF Accept, AnswerForm
  <2>6. Answers({a})
    BY <1>6 DEF Create
  <2> HIDE DEF a, i
  <2>7. ClientForm' /\ \A n \in toClient' : (n = a \/ n \in toClient) /\ Awaited(n)
    BY <1>2, <2>5, <2>6, AnswersGiven
  <2>8. \A c \in Client : client[c].id \in Slot /\ Valid(client[c].id, client[c].cookie)' =>
          \/ byID'[client[c].id].again
          \/ Valid(client[c].id, client[c].cookie) /\ byID'[client[c].id] = byID[client[c].id]
    <3> SUFFICES ASSUME NEW c \in Client, client[c].id \in Slot,
                        Valid(client[c].id, client[c].cookie)', ~byID'[client[c].id].again
                 PROVE  Valid(client[c].id, client[c].cookie) /\ byID'[client[c].id] = byID[client[c].id]
      OBVIOUS
    <3>1. client[c].id # i
      BY <1>2, <2>4, KnownAre DEF Valid
    <3> QED
      BY <1>2, <2>4, <3>1 DEF Valid
  <2>9. OwnSession'
    BY <1>2, <2>8 DEF Inv, OwnSession, ClientInv, ClientFits, SigOf
  <2>10. AnswerInv'
    <3>1. \A n \in toClient : n.sig[1] \in Client
      BY DEF Inv, PacketInv, ClientForm, AnswerForm, Sig
    <3>2. \A n : n \in toClient => AnswerFits(n, client[n.sig[1]])'
      BY <1>2, <2>8, <3>1 DEF Inv, PacketInv, AnswerInv, AnswerFits, ClientInv, ClientFits
    <3>3. \A n : n \in toClient' /\ n = a => AnswerFits(n, client[n.sig[1]])'
      BY <2>5, <2>7 DEF AnswerFits, Awaited
    <3>4. QED
      BY <2>7, <3>2, <3>3 DEF AnswerInv
  <2>11. AcceptInv'
    <3> SUFFICES ASSUME NEW n \in toClient', n.type = "accept", Valid(n.id, n.cookie)'
                 PROVE  byID'[n.id].sig = n.sig \/ byID'[n.id].again
      BY DEF AcceptInv
    <3>1. CASE n = a
      BY <2>4, <2>5, <3>1
    <3>2. CASE n # a
      <4>1. n \in toClient /\ n.id \in Slot
        BY <2>7, <3>2 DEF Inv, PacketInv, ClientForm, AnswerForm
      <4>2. CASE n.id = i
        BY <2>4, <4>1, <4>2, KnownAre DEF Valid
      <4>3. CASE n.id # i
        BY <2>4, <4>1, <4>3 DEF Inv, PacketInv, AcceptInv, Valid
      <4> QED
        BY <4>2, <4>3
    <3> QED
      BY <3>1, <3>2
  <2>12. QED
    BY <1>3, <1>4, <2>2, <2>7, <2>9, <2>10, <2>11 DEF Inv, PacketInv, StoreInv
<1>7. QED
  BY <1>5, <1>6 DEF HandleSessionInit

-----------------------------------------------------------------------------
(* The clients *)

(* One client changes, and what is under way still fits it. *)
LEMMA ClientKeeps ==
  ASSUME Inv, UNCHANGED <<store, notice>>, NEW c \in Client, NEW a \in ClientRec, Become(c, a),
         ClientFits(a), ServerForm',
         \A m \in toServer' : m.type = "data" =>
           IF m.sig[1] = c THEN DataFits(m, a) ELSE m \in toServer,
         toClient' \subseteq toClient,
         \A m \in toClient' : m.sig[1] = c => AnswerFits(m, a),
         a.phase = "ready" /\ Valid(a.id, a.cookie)
           => byID[a.id].sig = <<c, a.inits>> \/ byID[a.id].again
  PROVE  Inv'
<1>1. StoreInv' /\ UNCHANGED byID
  BY StoreStays DEF Inv, store
<1>2. \A d \in Client : client'[d] = IF d = c THEN a ELSE client[d]
  BY DEF Become, Inv, ClientInv
<1>3. ClientInv'
  BY DEF Become, Inv, ClientInv
<1>4. DataInv'
  <2>1. \A m \in toServer' : m.sig[1] \in Client
    BY DEF ServerForm, Sig
  <2>2. QED
    BY <1>2, <2>1 DEF Inv, PacketInv, DataInv
<1>5. ClientForm'
  <2>1. IsFiniteSet(toClient')
    BY FS_Subset DEF Inv, PacketInv, ClientForm
  <2>2. QED
    BY <2>1 DEF Inv, PacketInv, ClientForm
<1>6. AnswerInv'
  <2>1. \A m \in toClient' : m.sig[1] \in Client
    BY <1>5 DEF ClientForm, AnswerForm, Sig
  <2>2. \A m \in toClient' : AnswerFits(m, client'[m.sig[1]])
    BY <1>2, <2>1 DEF Inv, PacketInv, AnswerInv
  <2>3. QED
    BY <1>1, <2>2 DEF AnswerInv, AnswerFits, Valid
<1>7. AcceptInv'
  BY <1>1 DEF Inv, PacketInv, AcceptInv, Valid
<1>8. OwnSession'
  BY <1>1, <1>2 DEF Inv, OwnSession, Valid, SigOf
<1>9. QED
  BY <1>1, <1>3, <1>4, <1>5, <1>6, <1>7, <1>8 DEF Inv, PacketInv

(* A client keeps its session, its payload and its phase. *)
LEMMA SameKeeps ==
  ASSUME Inv, UNCHANGED <<store, notice, toServer>>, NEW c \in Client, NEW a \in ClientRec, Become(c, a),
         a.phase = client[c].phase, a.inits = client[c].inits, a.payload = client[c].payload,
         a.id = client[c].id, a.cookie = client[c].cookie, toClient' \subseteq toClient
  PROVE  Inv'
<1>1. ClientFits(a) /\ ServerForm'
  BY DEF Inv, ClientInv, ClientFits, PacketInv, ServerForm
<1>2. \A m \in toServer' : m.type = "data" => IF m.sig[1] = c THEN DataFits(m, a) ELSE m \in toServer
  BY DEF Inv, PacketInv, DataInv, DataFits
<1>3. \A m \in toClient' : m.sig[1] = c => AnswerFits(m, a)
  BY DEF Inv, PacketInv, AnswerInv, AnswerFits
<1>4. a.phase = "ready" /\ Valid(a.id, a.cookie)
        => byID[a.id].sig = <<c, a.inits>> \/ byID[a.id].again
  BY DEF Inv, OwnSession, SigOf
<1>5. QED
  BY <1>1, <1>2, <1>3, <1>4, ClientKeeps

(* New packets in place of those that are lost. *)
LEMMA SendForm ==
  ASSUME ServerForm, NEW S, Send(S), IsFiniteSet(S),
         \A m \in S : m.sig \in Sig /\ (m.type # "init" => m.id \in Slot /\ m.cookie \in Nat)
  PROVE  ServerForm' /\ toServer' \subseteq toServer \cup S
<1>1. PICK kept \in SUBSET toServer : toServer' = kept \cup S
  BY DEF Send
<1>2. IsFiniteSet(kept)
  BY FS_Subset DEF ServerForm
<1>3. IsFiniteSet(toServer')
  BY <1>1, <1>2, FS_Union
<1>4. QED
  BY <1>1, <1>3 DEF ServerForm

LEMMA NoAnswers == Answers({}) => toClient' \subseteq toClient /\ \A m \in toClient' : Awaited(m)
BY DEF Answers

LEMMA ClientRecs ==
  ASSUME ClientInv, NEW c \in Client
  PROVE  client[c] \in ClientRec /\ ClientFits(client[c]) /\ SigOf(c) \in Sig
BY DEF ClientInv, ClientRec, SigOf, Sig

LEMMA SendInitKeeps == ASSUME Inv, NEW c \in Client, SendInit(c) PROVE Inv'
<1> DEFINE a == IF client[c].payload THEN client[c]
                ELSE [client[c] EXCEPT !.payload = TRUE, !.inits = @ + 1]
           init == [type |-> "init", sig |-> <<c, client'[c].inits>>]
<1>1. client[c] \in ClientRec /\ client[c].phase = "init"
  BY ClientRecs DEF SendInit, Inv
<1>2. /\ a \in ClientRec /\ a.phase = "init" /\ a.payload
      /\ a.inits = IF client[c].payload THEN client[c].inits ELSE client[c].inits + 1
  <2>1. CASE client[c].payload
    BY <1>1, <2>1
  <2>2. CASE ~client[c].payload
    <3> DEFINE b == [client[c] EXCEPT !.payload = TRUE, !.inits = @ + 1]
    <3>1. client[c].inits + 1 \in Nat
      BY <1>1 DEF ClientRec
    <3>2. b \in ClientRec
      BY <1>1, <3>1 DEF ClientRec
    <3>3. b.phase = "init" /\ b.payload /\ b.inits = client[c].inits + 1
      BY <1>1 DEF ClientRec
    <3>4. a = b
      BY <2>2
    <3> HIDE DEF a, b
    <3>5. QED
      BY <2>2, <3>2, <3>3, <3>4
  <2>3. QED
    BY <2>1, <2>2
<1>3. Become(c, a)
  BY <1>1 DEF SendInit, Become, Inv, ClientInv
<1>4. client'[c] = a
  BY <1>3 DEF Become, Inv, ClientInv
<1> HIDE DEF a
<1>5. init.sig \in Sig /\ init.type = "init"
  BY <1>2, <1>4 DEF Sig, ClientRec
<1>6. ServerForm' /\ toServer' \subseteq toServer \cup {init}
  <2>1. Send({init})
    BY DEF SendInit
  <2> HIDE DEF init
  <2>2. IsFiniteSet({init})
    BY FS_Singleton
  <2>3. QED
    BY <1>5, <2>1, <2>2, SendForm DEF Inv, PacketInv
<1> HIDE DEF init
<1>7. \A m \in toServer' : m.type = "data" => IF m.sig[1] = c THEN DataFits(m, a) ELSE m \in toServer
  <2>1. TAKE m \in toServer'
  <2>2. HAVE m.type = "data"
  <2>3. m \in toServer /\ DataFits(m, client[m.sig[1]]) /\ m.sig \in Sig
    BY <1>5, <1>6, <2>2 DEF Inv, PacketInv, DataInv, ServerForm
  <2>4. m.sig[2] \in Nat
    BY <2>3 DEF Sig
  <2>5. QED
    BY <1>1, <1>2, <2>3, <2>4 DEF DataFits, ClientRec
<1>8. toClient' \subseteq toClient /\ \A m \in toClient' : m.sig[1] = c => AnswerFits(m, a)
  BY <1>2, <1>4, NoAnswers DEF SendInit, Awaited, AnswerFits, Inv, PacketInv, AnswerInv
<1>9. ClientFits(a) /\ UNCHANGED <<store, notice>>
  BY <1>2 DEF ClientFits, SendInit
<1>10. QED
  BY <1>2, <1>3, <1>6, <1>7, <1>8, <1>9, ClientKeeps

LEMMA AcceptKeeps == ASSUME Inv, NEW m \in toClient, ReceiveAccept(m) PROVE Inv'
<1> DEFINE c == m.sig[1]
           a == [client[c] EXCEPT !.phase = "ready", !.payload = FALSE, !.id = m.id, !.cookie = m.cookie]
<1>1. /\ m.type = "accept" /\ c \in Client /\ m.id \in Slot /\ m.cookie \in Nat
      /\ m.sig = <<c, client[c].inits>> /\ client[c].payload
  BY DEF ReceiveAccept, Inv, PacketInv, ClientForm, AnswerForm, AnswerInv, AnswerFits, Sig
<1>2. client[c] \in ClientRec
  BY <1>1, ClientRecs DEF Inv
<1>3. /\ a \in ClientRec /\ a.phase = "ready" /\ ~a.payload /\ a.id = m.id /\ a.cookie = m.cookie
      /\ a.inits = client[c].inits
  BY <1>1, <1>2 DEF ClientRec, Phase
<1>4. Become(c, a) /\ Answers({}) /\ UNCHANGED <<store, notice, toServer>>
  BY DEF ReceiveAccept
<1> HIDE DEF a
<1>5. client'[c] = a
  BY <1>1, <1>4 DEF Become, Inv, ClientInv
<1>6. ServerForm' /\ \A n \in toServer' :
        n.type = "data" => IF n.sig[1] = c THEN DataFits(n, a) ELSE n \in toServer
  BY <1>1, <1>3, <1>4 DEF Inv, PacketInv, ServerForm, DataInv, DataFits
<1>7. toClient' \subseteq toClient /\ \A n \in toClient' : n.sig[1] # c
  <2>1. toClient' \subseteq toClient /\ \A n \in toClient' : Awaited(n)
    BY <1>4, NoAnswers
  <2>2. ASSUME NEW n \in toClient', n.sig[1] = c PROVE FALSE
    <3>1. n.type \in {"accept", "drop"} /\ AnswerFits(n, client[c])
      BY <2>1, <2>2 DEF Inv, PacketInv, ClientForm, AnswerForm, AnswerInv
    <3>2. n.type # "accept" /\ client[c].phase = "init"
      BY <1>1, <1>3, <1>5, <2>1, <2>2, ClientRecs DEF Awaited, Inv, ClientFits
    <3>3. QED
      BY <3>1, <3>2 DEF AnswerFits
  <2>3. QED
    BY <2>1, <2>2
<1>8. Valid(a.id, a.cookie) => byID[a.id].sig = <<c, a.inits>> \/ byID[a.id].again
  BY <1>1, <1>3 DEF Inv, PacketInv, AcceptInv
<1>9. ClientFits(a)
  BY <1>1, <1>3 DEF ClientFits
<1>10. QED
  BY <1>1, <1>3, <1>4, <1>6, <1>7, <1>8, <1>9, ClientKeeps

LEMMA SendDataKeeps == ASSUME Inv, NEW c \in Client, SendData(c) PROVE Inv'
<1> DEFINE d == DataPacket(c)
<1>1. client[c] \in ClientRec /\ ClientFits(client[c]) /\ SigOf(c) \in Sig /\ client[c].phase = "ready"
  BY ClientRecs DEF Inv, SendData
<1>2. /\ d.type = "data" /\ d.sig = <<c, client[c].inits>> /\ d.sig \in Sig
      /\ d.id = client[c].id /\ d.cookie = client[c].cookie /\ d.id \in Slot /\ d.cookie \in Nat
  BY <1>1 DEF DataPacket, SigOf, ClientFits, ClientRec
<1>3. Send({d}) /\ UNCHANGED <<client, store, notice, toClient>>
  BY DEF SendData
<1> HIDE DEF d
<1>4. ServerForm' /\ toServer' \subseteq toServer \cup {d}
  <2>1. IsFiniteSet({d})
    BY FS_Singleton
  <2>2. QED
    BY <1>2, <1>3, <2>1, SendForm DEF Inv, PacketInv
<1>5. DataFits(d, client[c])
  BY <1>1, <1>2 DEF DataFits, ClientFits, ClientRec
<1>6. DataInv'
  BY <1>2, <1>3, <1>4, <1>5 DEF Inv, PacketInv, DataInv
<1>7. StoreInv' /\ UNCHANGED byID
  BY <1>3, StoreStays DEF Inv, store
<1>8. ClientInv' /\ OwnSession' /\ ClientForm' /\ AnswerInv' /\ AcceptInv'
  BY <1>3, <1>7 DEF Inv, ClientInv, OwnSession, SigOf, PacketInv, ClientForm, AnswerInv, AnswerFits,
                    AcceptInv, Valid
<1>9. QED
  BY <1>4, <1>6, <1>7, <1>8 DEF Inv, PacketInv

LEMMA DropKeeps == ASSUME Inv, NEW m \in toClient, ReceiveDrop(m) PROVE Inv'
<1> DEFINE c == m.sig[1]
           a == Request(client[c])
<1>1. c \in Client
  BY DEF Inv, PacketInv, ClientForm, AnswerForm, Sig
<1>2. client[c] \in ClientRec
  BY <1>1, ClientRecs DEF Inv
<1>3. /\ a \in ClientRec
      /\ a.phase = client[c].phase /\ a.inits = client[c].inits /\ a.payload = client[c].payload
      /\ a.id = client[c].id /\ a.cookie = client[c].cookie
  BY <1>2 DEF Request, ClientRec
<1>4. Become(c, a) /\ toClient' \subseteq toClient /\ UNCHANGED <<store, notice, toServer>>
  BY DEF ReceiveDrop
<1> HIDE DEF a
<1>5. QED
  BY <1>1, <1>3, <1>4, SameKeeps

LEMMA HookKeeps == ASSUME Inv, NEW c \in Client, HookCheck(c) \/ HookRequest(c) PROVE Inv'
<1>1. client[c] \in ClientRec
  BY ClientRecs DEF Inv
<1>2. PICK a : /\ Become(c, a) /\ a \in ClientRec
               /\ a.phase = client[c].phase /\ a.inits = client[c].inits
               /\ a.payload = client[c].payload
               /\ a.id = client[c].id /\ a.cookie = client[c].cookie
  <2>1. CASE HookCheck(c)
    <3> DEFINE a == [client[c] EXCEPT !.hook = "checked"]
    <3>1. Become(c, a) /\ a \in ClientRec
      BY <1>1, <2>1 DEF HookCheck, ClientRec
    <3>2. QED
      BY <1>1, <3>1 DEF ClientRec
  <2>2. CASE Become(c, [client[c] EXCEPT !.hook = IF client[c].pending THEN "idle" ELSE "marked",
                                         !.pending = TRUE])
    <3> DEFINE a == [client[c] EXCEPT !.hook = IF client[c].pending THEN "idle" ELSE "marked",
                                      !.pending = TRUE]
    <3>1. /\ Become(c, a) /\ a \in ClientRec
          /\ a.phase = client[c].phase /\ a.inits = client[c].inits
          /\ a.payload = client[c].payload
          /\ a.id = client[c].id /\ a.cookie = client[c].cookie
      BY <1>1, <2>2 DEF ClientRec
    <3> HIDE DEF a
    <3>2. QED
      BY <3>1
  <2>3. CASE Become(c, [client[c] EXCEPT !.hook = "idle", !.signal = TRUE])
    <3> DEFINE a == [client[c] EXCEPT !.hook = "idle", !.signal = TRUE]
    <3>1. /\ Become(c, a) /\ a \in ClientRec
          /\ a.phase = client[c].phase /\ a.inits = client[c].inits
          /\ a.payload = client[c].payload
          /\ a.id = client[c].id /\ a.cookie = client[c].cookie
      BY <1>1, <2>3 DEF ClientRec
    <3> HIDE DEF a
    <3>2. QED
      BY <3>1
  <2>4. QED
    BY <2>1, <2>2, <2>3 DEF HookRequest
<1>3. UNCHANGED <<store, notice, toServer, toClient>>
  BY DEF HookCheck, HookRequest
<1>4. QED
  BY <1>2, <1>3, SameKeeps

(* A client that leaves its session, or is on its way to a new one, waits  *)
(* for nothing.                                                            *)
LEMMA LeaveKeeps ==
  ASSUME Inv, UNCHANGED <<store, notice>>, NEW c \in Client, NEW a \in ClientRec, Become(c, a),
         a.phase # "ready", ~a.payload, a.inits = client[c].inits, client[c].phase # "init",
         ServerForm', \A m \in toServer' : m.type = "data" => m \in toServer,
         toClient' \subseteq toClient, \A m \in toClient' : m.sig[1] # c
  PROVE  Inv'
<1>1. ClientFits(a)
  BY DEF ClientFits
<1>2. \A m \in toServer' : m.type = "data" => IF m.sig[1] = c THEN DataFits(m, a) ELSE m \in toServer
  BY DEF Inv, PacketInv, DataInv, DataFits
<1>3. QED
  BY <1>1, <1>2, ClientKeeps

LEMMA NoneAwaited ==
  ASSUME ClientForm, toClient' \subseteq toClient, \A m \in toClient' : Awaited(m),
         NEW c \in Client, client'[c].phase # "ready", ~client'[c].payload
  PROVE  \A m \in toClient' : m.sig[1] # c
BY DEF Awaited

LEMMA RestartKeeps == ASSUME Inv, NEW c \in Client, Restart(c) PROVE Inv'
<1> DEFINE a == [client[c] EXCEPT !.phase = "reset", !.signal = FALSE, !.id = 0, !.cookie = 0]
<1>1. client[c] \in ClientRec /\ ClientFits(client[c]) /\ client[c].phase = "ready"
  BY ClientRecs DEF Inv, Restart
<1>2. a \in ClientRec /\ a.phase = "reset" /\ ~a.payload /\ a.inits = client[c].inits
  BY <1>1 DEF ClientRec, Phase, ClientFits
<1>3. Become(c, a) /\ Answers({}) /\ UNCHANGED <<store, notice, toServer>>
  BY DEF Restart
<1> HIDE DEF a
<1>4. client'[c] = a
  BY <1>3 DEF Become, Inv, ClientInv
<1>5. toClient' \subseteq toClient /\ \A m \in toClient' : m.sig[1] # c
  BY <1>2, <1>3, <1>4, NoAnswers, NoneAwaited DEF Inv, PacketInv
<1>6. ServerForm' /\ \A m \in toServer' : m.type = "data" => m \in toServer
  BY <1>3 DEF Inv, PacketInv, ServerForm
<1>7. QED
  BY <1>1, <1>2, <1>3, <1>5, <1>6, LeaveKeeps

LEMMA WithdrawKeeps == ASSUME Inv, NEW c \in Client, Withdraw(c) PROVE Inv'
<1>1. client[c] \in ClientRec /\ ClientFits(client[c]) /\ client[c].phase \in {"reset", "clear"}
  BY ClientRecs DEF Inv, Withdraw
<1>2. PICK a \in ClientRec :
        Become(c, a) /\ a.phase # "ready" /\ ~a.payload /\ a.inits = client[c].inits
  <2>1. CASE Become(c, [ClearPending(client[c]) EXCEPT !.phase = "clear"])
    <3> DEFINE a == [ClearPending(client[c]) EXCEPT !.phase = "clear"]
    <3>1. /\ Become(c, a) /\ a \in ClientRec /\ a.phase # "ready" /\ ~a.payload
          /\ a.inits = client[c].inits
      BY <1>1, <2>1 DEF ClearPending, ClientRec, Phase, ClientFits
    <3> HIDE DEF a
    <3>2. QED
      BY <3>1
  <2>2. CASE Become(c, [client[c] EXCEPT !.phase = "init", !.signal = FALSE,
                                         !.missed = @ \/ client[c].signal])
    <3> DEFINE a == [client[c] EXCEPT !.phase = "init", !.signal = FALSE,
                                      !.missed = @ \/ client[c].signal]
    <3>1. /\ Become(c, a) /\ a \in ClientRec /\ a.phase # "ready" /\ ~a.payload
          /\ a.inits = client[c].inits
      BY <1>1, <2>2 DEF ClientRec, Phase, ClientFits
    <3> HIDE DEF a
    <3>2. QED
      BY <3>1
  <2>3. QED
    BY <2>1, <2>2 DEF Withdraw
<1>3. UNCHANGED <<store, notice, toServer, toClient>>
  BY DEF Withdraw
<1>4. \A m \in toClient' : m.sig[1] # c
  BY <1>1, <1>3 DEF Inv, PacketInv, ClientForm, AnswerForm, AnswerInv, AnswerFits
<1>5. ServerForm' /\ \A m \in toServer' : m.type = "data" => m \in toServer
  BY <1>3 DEF Inv, PacketInv, ServerForm
<1>6. QED
  BY <1>1, <1>2, <1>3, <1>4, <1>5, LeaveKeeps

LEMMA StopKeeps == ASSUME Inv, NEW c \in Client, Stop(c) PROVE Inv'
<1> DEFINE a == [client[c] EXCEPT !.phase = "stopped", !.payload = FALSE, !.signal = FALSE]
<1>1. client[c] \in ClientRec /\ ClientFits(client[c]) /\ SigOf(c) \in Sig
  BY ClientRecs DEF Inv
<1>2. a \in ClientRec /\ a.phase = "stopped" /\ ~a.payload /\ a.inits = client[c].inits
  BY <1>1 DEF ClientRec, Phase
<1>3. Become(c, a) /\ Answers({}) /\ UNCHANGED <<store, notice>>
  BY DEF Stop
<1> HIDE DEF a
<1>4. client'[c] = a
  BY <1>3 DEF Become, Inv, ClientInv
<1>5. PICK n \in 0 .. Burst :
        Send(IF client[c].phase = "ready" THEN {ClosePacket(c, k) : k \in 1 .. n} ELSE {})
  BY DEF Stop
<1> DEFINE S == IF client[c].phase = "ready" THEN {ClosePacket(c, k) : k \in 1 .. n} ELSE {}
<1>6. IsFiniteSet(S)
  <2> DEFINE f == [k \in 1 .. n |-> ClosePacket(c, k)]
             P == {ClosePacket(c, k) : k \in 1 .. n}
  <2>1. IsFiniteSet(1 .. n)
    BY SessionAssumption, FS_Interval
  <2>2. f \in Surjection(1 .. n, P)
    BY DEF Surjection
  <2>3. IsFiniteSet(P)
    <3> HIDE DEF f, P
    <3>1. QED
      BY <2>1, <2>2, FS_Surjection
  <2>4. QED
    BY <2>3, FS_EmptySet
<1>7. \A m \in S : /\ m.sig \in Sig /\ m.type = "close" /\ m.id \in Slot /\ m.cookie \in Nat
  BY <1>1 DEF ClosePacket, ClientFits, ClientRec
<1> HIDE DEF S
<1>8. ServerForm' /\ toServer' \subseteq toServer \cup S
  BY <1>5, <1>6, <1>7, SendForm DEF Inv, PacketInv, S
<1>9. toClient' \subseteq toClient /\ \A m \in toClient' : m.sig[1] # c
  BY <1>2, <1>3, <1>4, NoAnswers, NoneAwaited DEF Inv, PacketInv
<1>10. \A m \in toServer' : m.type = "data" => IF m.sig[1] = c THEN DataFits(m, a) ELSE m \in toServer
  <2>1. TAKE m \in toServer'
  <2>2. HAVE m.type = "data"
  <2>3. m \in toServer /\ m.sig \in Sig /\ DataFits(m, client[m.sig[1]])
    BY <1>7, <1>8, <2>2 DEF Inv, PacketInv, DataInv, ServerForm
  <2>4. QED
    BY <1>2, <2>3 DEF DataFits
<1>11. QED
  BY <1>2, <1>3, <1>8, <1>9, <1>10, ClientKeeps DEF ClientFits

-----------------------------------------------------------------------------
LEMMA InitInv == ASSUME Init PROVE Inv
<1>1. StoreInv
  <2>1. SlotsType /\ Occupied = {}
    BY SessionAssumption DEF Init, SlotsType, Occupied, Slot
  <2>2. Counted
    BY <2>1, FS_EmptySet DEF Init, Counted
  <2>3. IndexType /\ Sound /\ NoticeType
    BY DEF Init, IndexType, Sound, NoticeType
  <2>4. QED
    BY <2>1, <2>2, <2>3 DEF StoreInv
<1>2. ClientInv /\ \A c \in Client : client[c].phase # "ready"
  BY SlotFacts DEF Init, ClientInv, ClientRec, Phase, ClientFits
<1>3. ServerForm /\ \A m \in toServer : m.type = "init"
  <2> DEFINE f == [c \in Gone |-> [type |-> "init", sig |-> <<c, 1>>]]
  <2>1. IsFiniteSet(Gone)
    BY SessionAssumption, FS_Subset
  <2>2. f \in Surjection(Gone, toServer)
    BY DEF Init, Surjection
  <2>3. IsFiniteSet(toServer)
    <3> HIDE DEF f
    <3>1. QED
      BY <2>1, <2>2, FS_Surjection
  <2>4. \A m \in toServer : m.type = "init" /\ m.sig \in Sig
    BY SessionAssumption DEF Init, Sig
  <2>5. QED
    BY <2>3, <2>4 DEF ServerForm
<1>4. PacketInv
  BY <1>3, FS_EmptySet DEF Init, PacketInv, ClientForm, DataInv, AnswerInv, AcceptInv
<1>5. QED
  BY <1>1, <1>2, <1>4 DEF Inv, OwnSession

LEMMA StepInv == ASSUME Inv, [Next]_vars PROVE Inv'
<1>1. CASE \E m \in toServer : Handle(m) \/ \E w \in Ingress : LookupClose(w, m)
  BY <1>1, InitKeeps, DataKeeps, LookupKeeps DEF Handle
<1>2. CASE \E w \in Ingress : Close(w)
  BY <1>2, CloseKeeps
<1>3. CASE \E idle \in SUBSET {i \in Slot : byID[i] # None} : Cleanup(idle)
  BY <1>3, CleanupKeeps DEF Occupied
<1>4. CASE \E i \in Slot : ReuseEnds(i)
  BY <1>4, ReuseEndsKeeps
<1>5. CASE \E m \in toClient : ReceiveAccept(m) \/ ReceiveDrop(m)
  BY <1>5, AcceptKeeps, DropKeeps
<1>6. CASE \E c \in Client : Run(c) \/ HookCheck(c) \/ Stop(c)
  BY <1>6, SendInitKeeps, SendDataKeeps, RestartKeeps, WithdrawKeeps, HookKeeps, StopKeeps DEF Run
<1>7. CASE UNCHANGED vars
  <2>1. UNCHANGED <<store, notice, client, toServer, toClient, byID>>
    BY <1>7 DEF vars, store
  <2>2. StoreInv'
    BY <2>1, StoreStays DEF Inv
  <2>3. ClientInv' /\ PacketInv' /\ OwnSession'
    BY <2>1, SameShrinks, ShrinkKeeps
  <2>4. QED
    BY <2>2, <2>3 DEF Inv
<1>8. QED
  BY <1>1, <1>2, <1>3, <1>4, <1>5, <1>6, <1>7 DEF Next

LEMMA Invariance == Spec => []Inv
<1>1. Inv /\ [Next]_vars => Inv'
  BY StepInv
<1>2. QED
  BY <1>1, InitInv, PTL DEF Spec

(* findOrCreate, Remove, Cleanup: the index of signatures leads to the     *)
(* session that was made for the payload, and the counters agree with the  *)
(* table, for any number of clients and slots.                             *)
THEOREM IndexLeadsHome == Spec => []IndexSound
<1>1. Inv => IndexSound
  BY InvImplies
<1>2. QED
  BY <1>1, Invariance, PTL

(* applySessionInitPacket, ValidateAndTouch, randomCookieLocked: what the  *)
(* server accepts from a client reaches the session made for it, for any   *)
(* order of late packets and any cookies, unless the session that gets it  *)
(* drew a cookie of its slot that a client or a packet still held.         *)
THEOREM PacketsReachOwnSession == Spec => []OwnSession
<1>1. Inv => OwnSession
  BY DEF Inv
<1>2. QED
  BY <1>1, Invariance, PTL

(* HandleErrorDrop: a drop that a runtime hears is about the session it is *)
(* on, although the packet does not name it, unless by then the slot has a *)
(* session that drew the same cookie again.                                *)
THEOREM DropsAreTrue == Spec => []DropIsTrue
<1>1. Inv => DropIsTrue
  BY InvImplies
<1>2. QED
  BY <1>1, Invariance, PTL
=============================================================================
