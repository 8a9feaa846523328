---------------------------- MODULE ArqData_proof ----------------------------
(***************************************************************************)
(* Proofs about the data plane, for every window, number space, lifetime   *)
(* and number of chunks that satisfy the assumptions of ArqData: its type  *)
(* invariant, in-order delivery, no chunk lost by a late acknowledgement   *)
(* or by the reuse of its slot, the bound on the sender's lead, and that   *)
(* it implements ReliableStream.                                           *)
(***************************************************************************)
EXTENDS ArqData, FiniteSetTheorems, SequenceTheorems, TLAPS

-----------------------------------------------------------------------------
(* uint16 arithmetic, for every even SeqSpace. *)

(* Multiplication by a positive number keeps integers at least one apart    *)
(* at least m apart.                                                        *)
LEMMA MulMono ==
  ASSUME NEW m \in Int, m > 0, NEW x \in Int, NEW y \in Int, x >= y + 1
  PROVE  m * x >= (m * y) + m
  BY SMT

(* Quotient and remainder. *)
LEMMA DivMod ==
  ASSUME NEW m \in Int, m > 0, NEW a \in Int
  PROVE  /\ a \div m \in Int
         /\ a % m \in 0 .. m - 1
         /\ a = (m * (a \div m)) + (a % m)
  BY SMT

(* The remainder is the only number in 0 .. m-1 that differs from its       *)
(* argument by a multiple of m.                                             *)
LEMMA ModUnique ==
  ASSUME NEW m \in Int, m > 0, NEW q \in Int, NEW r \in 0 .. m - 1
  PROVE  ((m * q) + r) % m = r
<1> DEFINE a  == (m * q) + r
           qa == a \div m
           ra == a % m
<1>1. m * q \in Int /\ a \in Int
  OBVIOUS
<1>2. qa \in Int /\ ra \in 0 .. m - 1 /\ a = (m * qa) + ra
  BY <1>1, DivMod
<1>3. m * qa \in Int
  BY <1>2
<1> HIDE DEF qa, ra
<1>4. CASE qa >= q + 1
  <2>1. m * qa >= (m * q) + m
    BY <1>2, <1>4, MulMono
  <2> QED BY <2>1, <1>1, <1>2, <1>3
<1>5. CASE q >= qa + 1
  <2>1. m * q >= (m * qa) + m
    BY <1>2, <1>5, MulMono
  <2> QED BY <2>1, <1>1, <1>2, <1>3
<1>6. CASE qa = q
  BY <1>1, <1>2, <1>6 DEF ra
<1> QED BY <1>2, <1>4, <1>5, <1>6

(* Adding a multiple of m leaves the remainder alone. *)
LEMMA ModShift ==
  ASSUME NEW m \in Int, m > 0, NEW a \in Int, NEW k \in Int
  PROVE  (a + (m * k)) % m = a % m
<1> DEFINE q == a \div m
           r == a % m
<1>1. q \in Int /\ r \in 0 .. m - 1 /\ a = (m * q) + r
  BY DivMod
<1> HIDE DEF q, r
<1>2. q + k \in Int /\ a + (m * k) = (m * (q + k)) + r
  BY <1>1, Z3
<1>3. ((m * (q + k)) + r) % m = r
  BY <1>1, <1>2, ModUnique
<1> QED BY <1>2, <1>3 DEF r

(* Truncating both operands first does not change a uint16 difference. *)
LEMMA AheadOfWrapped ==
  ASSUME NEW a \in Int, NEW b \in Int
  PROVE  Ahead(Wrap(a), Wrap(b)) = (a - b) % SeqSpace
<1> DEFINE m == SeqSpace
           q == a \div m
           r == a % m
           p == b \div m
           s == b % m
<1>1. m \in Int /\ m > 0
  BY SeqSpaceAssumption
<1>2. q \in Int /\ r \in 0 .. m - 1 /\ a = (m * q) + r
  BY <1>1, DivMod
<1>3. p \in Int /\ s \in 0 .. m - 1 /\ b = (m * p) + s
  BY <1>1, DivMod
<1> HIDE DEF m, q, r, p, s
<1>4. p - q \in Int /\ a - b \in Int /\ r - s = (a - b) + (m * (p - q))
  BY <1>1, <1>2, <1>3, Z3
<1>5. ((a - b) + (m * (p - q))) % m = (a - b) % m
  BY <1>1, <1>4, ModShift
<1>6. (r - s) % m = (a - b) % m
  BY <1>4, <1>5
<1> QED BY <1>6 DEF Ahead, Wrap, m, r, s

(* A position at most SeqSpace - 1 ahead is classified by its distance.     *)
LEMMA AheadForward ==
  ASSUME NEW a \in Int, NEW b \in Int, a - b \in 0 .. SeqSpace - 1
  PROVE  Ahead(Wrap(a), Wrap(b)) = a - b
<1>1. Ahead(Wrap(a), Wrap(b)) = (a - b) % SeqSpace
  BY AheadOfWrapped
<1>2. (a - b) % SeqSpace = a - b
  BY SeqSpaceAssumption, SMT
<1> QED BY <1>1, <1>2

(* A position behind by at most SeqSpace appears as far ahead as the        *)
(* complement of its distance.                                              *)
LEMMA AheadBackward ==
  ASSUME NEW a \in Int, NEW b \in Int, b - a \in 1 .. SeqSpace
  PROVE  Ahead(Wrap(a), Wrap(b)) = SeqSpace - (b - a)
<1>1. Ahead(Wrap(a), Wrap(b)) = (a - b) % SeqSpace
  BY AheadOfWrapped
<1>2. ((a - b) + (SeqSpace * 1)) % SeqSpace = (a - b) % SeqSpace
  BY SeqSpaceAssumption, ModShift
<1>3. (a - b) + (SeqSpace * 1) = SeqSpace - (b - a)
  BY SeqSpaceAssumption
<1>4. (SeqSpace - (b - a)) % SeqSpace = SeqSpace - (b - a)
  BY SeqSpaceAssumption, SMT
<1> QED BY <1>1, <1>2, <1>3, <1>4

(* Two positions less than SeqSpace apart do not share a number. *)
LEMMA WrapInjective ==
  ASSUME NEW a \in Int, NEW b \in Int, Wrap(a) = Wrap(b),
         a - b < SeqSpace, b - a < SeqSpace
  PROVE  a = b
<1>1. Wrap(a) \in Seqs /\ Wrap(b) \in Seqs
  BY SeqSpaceAssumption, DivMod DEF Wrap, Seqs
<1>2. Ahead(Wrap(a), Wrap(b)) = 0
  BY <1>1, SeqSpaceAssumption, SMT DEF Ahead, Seqs
<1>3. CASE a > b
  BY <1>2, <1>3, AheadForward, SeqSpaceAssumption
<1>4. CASE b > a
  BY <1>2, <1>4, AheadForward, SeqSpaceAssumption DEF Ahead
<1> QED BY <1>3, <1>4

(* Wrap yields a sequence number, and Half is half of the space. *)
LEMMA WrapType ==
  ASSUME NEW a \in Int
  PROVE  Wrap(a) \in Seqs
  BY SeqSpaceAssumption, DivMod DEF Wrap, Seqs

LEMMA HalfFact == Half \in Nat /\ Half > 0 /\ SeqSpace = Half + Half
  BY SeqSpaceAssumption, SMT DEF Half

(* Incrementing a wrapped position wraps the incremented one. *)
LEMMA WrapNext ==
  ASSUME NEW a \in Int, NEW k \in Int
  PROVE  Wrap(Wrap(a) + k) = Wrap(a + k)
<1> DEFINE m == SeqSpace
           q == a \div m
           r == a % m
<1>1. m \in Int /\ m > 0
  BY SeqSpaceAssumption
<1>2. q \in Int /\ r \in 0 .. m - 1 /\ a = (m * q) + r
  BY <1>1, DivMod
<1> HIDE DEF m, q, r
<1>3. r + k \in Int /\ a + k = (r + k) + (m * q)
  BY <1>1, <1>2, Z3
<1>4. ((r + k) + (m * q)) % m = (r + k) % m
  BY <1>1, <1>2, <1>3, ModShift
<1> QED BY <1>3, <1>4 DEF Wrap, m, r

-----------------------------------------------------------------------------
(* The inductive invariant. *)

(* The sender's slots and copies carry the number of their chunk. *)
SenderInv ==
  /\ \A s \in DOMAIN sndBuf :
       /\ s = Wrap(sndBuf[s].chunk)
       /\ sndBuf[s].chunk < input
  /\ \A p \in txQueue \cup rtxJobs \cup rtxPushed :
       p.sn = Wrap(p.chunk) /\ p.chunk < input

(* So do the packets under way, and an acknowledgement is for a chunk the   *)
(* receiver has.                                                            *)
PathInv ==
  /\ \A p \in dataNet \cup ackNet :
       p.sn = Wrap(p.chunk) /\ p.chunk < input /\ input - p.chunk <= Lifetime
  /\ \A p \in ackNet : Held(p.chunk)

(* The receiver wrote a prefix and buffers chunks of its window. *)
ReceiverInv ==
  /\ InOrder
  /\ \A s \in DOMAIN rcvBuf :
       /\ s = Wrap(rcvBuf[s])
       /\ rcvBuf[s] < input
       /\ Len(output) <= rcvBuf[s] /\ rcvBuf[s] <= Len(output) + RecvWindow

(* The sender still keeps chunk c. *)
Tracked(c) == Wrap(c) \in DOMAIN sndBuf /\ sndBuf[Wrap(c)].chunk = c

(* Every chunk is unacknowledged or with the receiver. *)
AgreementInv == gaveUp \/ \A c \in 0 .. input - 1 : Held(c) \/ Tracked(c)

WindowInv ==
  /\ IsFiniteSet(DOMAIN sndBuf)
  /\ Cardinality(DOMAIN sndBuf) <= WindowLimit

Inv ==
  /\ TypeOK
  /\ SenderInv
  /\ PathInv
  /\ ReceiverInv
  /\ AgreementInv
  /\ WindowInv
  /\ LeadBounded

-----------------------------------------------------------------------------
(* Facts about the assumptions, the helpers and the invariant. *)

LEMMA Constants ==
  /\ WindowLimit \in Nat /\ WindowLimit > 0
  /\ RecvWindow \in Nat /\ RecvWindow > 0
  /\ MaxRetries \in Nat
  /\ ChunkCount \in Nat
  /\ MaxInFlight \in Nat
  /\ Lifetime \in Nat /\ Lifetime >= 1 /\ Lifetime <= Half
  /\ RecvWindow + 1 + WindowLimit <= Half
  /\ Half \in Nat /\ Half > 0 /\ SeqSpace = Half + Half
  BY WindowAssumption, HalfFact

(* Without removes entries and leaves the others alone. *)
LEMMA WithoutFact ==
  ASSUME NEW f, NEW S
  PROVE  /\ DOMAIN Without(f, S) = DOMAIN f \ S
         /\ \A x \in DOMAIN f \ S : Without(f, S)[x] = f[x]
         /\ Without(f, S) = [x \in DOMAIN f \ S |-> f[x]]
  BY DEF Without, Restrict

(* The path keeps at most what was there and the new packet. *)
LEMMA PutFact ==
  ASSUME NEW net, NEW p
  PROVE  Put(net, p) \subseteq net \cup {p}
  BY DEF Put

LEMMA ArrivalsFact ==
  ASSUME NEW net, NEW p, NEW after \in Arrivals(net, p)
  PROVE  after \subseteq net
  BY DEF Arrivals

LEMMA SeqsFact == Seqs \subseteq Int
  BY SeqSpaceAssumption DEF Seqs

(* Of two positions with one number, the lower lies a lap behind, and the   *)
(* receiver has written what lies a lap behind a position read so far.      *)
LEMMA LapBehind ==
  ASSUME TypeOK, LeadBounded, NEW a \in Int, NEW b \in Int, Wrap(a) = Wrap(b),
         a < b, b <= input
  PROVE  b >= a + SeqSpace /\ a < Len(output)
<1>1. input \in Int /\ Len(output) \in Int
  BY LenProperties DEF TypeOK
<1>2. ~(b - a < SeqSpace)
  <2> SUFFICES ASSUME b - a < SeqSpace PROVE FALSE
    OBVIOUS
  <2>1. a - b < SeqSpace
    BY Constants
  <2> QED BY <2>1, WrapInjective
<1> QED BY <1>1, <1>2, Constants DEF LeadBounded

(* The sender leads by the receive window, the next chunk, and no more      *)
(* chunks than its buffer holds: whatever lies beyond the receive window    *)
(* cannot have been acknowledged.                                           *)
LEMMA LeadFromBuffer ==
  ASSUME TypeOK, ReceiverInv, AgreementInv, ~gaveUp, IsFiniteSet(DOMAIN sndBuf)
  PROVE  /\ Cardinality(DOMAIN sndBuf) \in Nat
         /\ input - Len(output) <= RecvWindow + 1 + Cardinality(DOMAIN sndBuf)
<1> DEFINE lo == Len(output) + RecvWindow + 1
           S  == lo .. input - 1
           T  == {s \in DOMAIN sndBuf : sndBuf[s].chunk \in S}
           f  == [s \in T |-> sndBuf[s].chunk]
<1>1. input \in Nat /\ Len(output) \in Nat /\ lo \in Int /\ input - 1 \in Int
  BY Constants, LenProperties DEF TypeOK
<1>2. Cardinality(DOMAIN sndBuf) \in Nat
  BY FS_CardinalityType
<1>3. \A c \in S : Wrap(c) \in T /\ f[Wrap(c)] = c
  <2> SUFFICES ASSUME NEW c \in S
               PROVE  Wrap(c) \in T /\ f[Wrap(c)] = c
    OBVIOUS
  <2>1. c \in 0 .. input - 1 /\ c > Len(output) + RecvWindow
    BY <1>1, Constants
  <2>2. ~Held(c)
    BY <2>1, <1>1, Constants DEF Held, ReceiverInv
  <2>3. Wrap(c) \in DOMAIN sndBuf /\ sndBuf[Wrap(c)].chunk = c
    BY <2>1, <2>2 DEF AgreementInv, Tracked
  <2> QED BY <2>3
<1>4. f \in Surjection(T, S)
  BY <1>3 DEF Surjection
<1>5. IsFiniteSet(T) /\ Cardinality(T) <= Cardinality(DOMAIN sndBuf)
  BY FS_Subset
<1>6. Cardinality(S) <= Cardinality(T)
  <2> HIDE DEF f, T, S
  <2> QED BY <1>4, <1>5, FS_Surjection
<1>7. Cardinality(S) = IF lo > input - 1 THEN 0 ELSE (input - 1) - lo + 1
  BY <1>1, FS_Interval
<1>8. Cardinality(T) \in Nat
  BY <1>5, FS_CardinalityType
<1> HIDE DEF T, f
<1> QED
  BY <1>1, <1>2, <1>5, <1>6, <1>7, <1>8, Constants

-----------------------------------------------------------------------------
(* The invariant holds initially and every action preserves it. *)

LEMMA InitInv == Init => Inv
<1> SUFFICES ASSUME Init PROVE Inv
  OBVIOUS
<1>1. DOMAIN sndBuf = {} /\ DOMAIN rcvBuf = {} /\ Len(output) = 0 /\ output \in Seq(Chunk)
  BY DEF Init
<1>2. Wrap(0) = 0
  BY SeqSpaceAssumption, SMT DEF Wrap
<1>3. TypeOK
  <2>1. sndBuf \in [DOMAIN sndBuf -> Segment] /\ rcvBuf \in [DOMAIN rcvBuf -> Chunk]
    BY DEF Init
  <2>2. input \in 0 .. ChunkCount /\ sndNxt = Wrap(input) /\ rcvNxt = Wrap(Len(output))
    BY <1>1, <1>2, Constants DEF Init
  <2> QED BY <1>1, <2>1, <2>2 DEF Init, TypeOK
<1>4. SenderInv /\ PathInv /\ ReceiverInv /\ AgreementInv
  BY <1>1 DEF Init, SenderInv, PathInv, ReceiverInv, InOrder, AgreementInv
<1>5. WindowInv
  BY <1>1, FS_EmptySet, Constants DEF WindowInv
<1>6. LeadBounded
  BY <1>1, Constants DEF Init, LeadBounded
<1> QED BY <1>3, <1>4, <1>5, <1>6 DEF Inv

(* Types used by every step. *)
LEMMA Types ==
  ASSUME TypeOK
  PROVE  /\ input \in Nat /\ Len(output) \in Nat
         /\ \A c \in Chunk : c \in Nat
         /\ \A s \in DOMAIN sndBuf : sndBuf[s] \in Segment /\ sndBuf[s].chunk \in Nat
         /\ \A s \in DOMAIN rcvBuf : rcvBuf[s] \in Nat
         /\ \A p \in txQueue \cup rtxJobs \cup rtxPushed \cup dataNet \cup ackNet :
              p \in Packet /\ p.chunk \in Nat
  BY Constants, LenProperties DEF TypeOK, Chunk, Packet, Segment

LEMMA IoReadInv ==
  ASSUME Inv, IoRead
  PROVE  /\ Inv'
         /\ sndNxt \in DOMAIN sndBuf => sndBuf[sndNxt].chunk < Len(output)
<1> USE DEF Inv
<1>1. /\ input \in Nat /\ Len(output) \in Nat /\ input \in Chunk
      /\ \A s \in DOMAIN sndBuf : sndBuf[s].chunk \in Nat
  BY Types, Constants DEF IoRead, Chunk
<1>2. sndNxt = Wrap(input) /\ sndNxt \in Seqs
  BY <1>1, WrapType DEF TypeOK
<1>3. sndNxt \in DOMAIN sndBuf => sndBuf[sndNxt].chunk < Len(output)
  <2> SUFFICES ASSUME sndNxt \in DOMAIN sndBuf PROVE sndBuf[sndNxt].chunk < Len(output)
    OBVIOUS
  <2>1. Wrap(sndBuf[sndNxt].chunk) = Wrap(input) /\ sndBuf[sndNxt].chunk < input
    BY <1>2 DEF SenderInv
  <2> QED BY <1>1, <2>1, LapBehind
<1>4. /\ DOMAIN sndBuf' = DOMAIN sndBuf \cup {sndNxt}
      /\ sndBuf'[sndNxt] = [chunk |-> input, dispatched |-> Queued(sndNxt), retries |-> 0]
      /\ \A s \in DOMAIN sndBuf \ {sndNxt} : sndBuf'[s] = sndBuf[s]
      /\ sndBuf' = [s \in DOMAIN sndBuf' |-> sndBuf'[s]]
  <2> DEFINE v == [chunk |-> input, dispatched |-> Queued(sndNxt), retries |-> 0]
  <2>1. sndBuf' = Store(sndBuf, sndNxt, v)
    BY DEF IoRead
  <2> HIDE DEF v
  <2>2. /\ DOMAIN sndBuf' = DOMAIN sndBuf \cup {sndNxt}
        /\ sndBuf'[sndNxt] = v
        /\ sndBuf' = [s \in DOMAIN sndBuf' |-> sndBuf'[s]]
    BY <2>1 DEF Store
  <2>3. \A s \in DOMAIN sndBuf \ {sndNxt} : sndBuf'[s] = sndBuf[s]
    BY <2>1 DEF Store
  <2> QED BY <2>2, <2>3 DEF v
<1>5. input' = input + 1 /\ UNCHANGED <<rtxJobs, rtxPushed, gaveUp, nackNet, receiverVars>>
  BY DEF IoRead
<1>6. txQueue' \subseteq txQueue \cup {[sn |-> sndNxt, chunk |-> input]}
  BY DEF IoRead
<1>7. TypeOK'
  <2>1. sndNxt' = Wrap(input')
    BY <1>1, <1>2, <1>5, WrapNext DEF IoRead, NextNumber
  <2>2. sndBuf'[sndNxt] \in Segment
    BY <1>1, <1>4, Constants DEF Segment, Queued
  <2>3. DOMAIN sndBuf' \subseteq Seqs /\ sndBuf' \in [DOMAIN sndBuf' -> Segment]
    BY <1>2, <1>4, <2>2 DEF TypeOK
  <2>4. txQueue' \subseteq Packet
    BY <1>1, <1>2, <1>6 DEF TypeOK, Packet
  <2>5. dataNet' \subseteq Packet /\ ackNet' \subseteq Packet
    BY DEF IoRead, TypeOK
  <2>6. input' \in 0 .. ChunkCount
    BY <1>1, <1>5, Constants DEF IoRead
  <2> QED BY <1>5, <2>1, <2>3, <2>4, <2>5, <2>6 DEF TypeOK, receiverVars
<1>8. SenderInv'
  <2>1. \A s \in DOMAIN sndBuf' : s = Wrap(sndBuf'[s].chunk) /\ sndBuf'[s].chunk < input'
    <3> SUFFICES ASSUME NEW s \in DOMAIN sndBuf'
                 PROVE  s = Wrap(sndBuf'[s].chunk) /\ sndBuf'[s].chunk < input'
      OBVIOUS
    <3>1. CASE s = sndNxt
      BY <1>1, <1>2, <1>4, <1>5, <3>1
    <3>2. CASE s # sndNxt
      <4>1. /\ s \in DOMAIN sndBuf /\ sndBuf'[s] = sndBuf[s] /\ input' = input + 1
            /\ sndBuf[s].chunk \in Int /\ input \in Int
        BY <1>4, <1>5, <3>2, Types DEF TypeOK, Segment
      <4> QED
        BY <4>1 DEF SenderInv
    <3> QED
      BY <3>1, <3>2
  <2>2. \A p \in (txQueue \cup rtxJobs \cup rtxPushed)' : p.sn = Wrap(p.chunk) /\ p.chunk < input'
    <3> SUFFICES ASSUME NEW p \in (txQueue \cup rtxJobs \cup rtxPushed)'
                 PROVE  p.sn = Wrap(p.chunk) /\ p.chunk < input'
      OBVIOUS
    <3>1. CASE p \in txQueue \cup rtxJobs \cup rtxPushed
      BY <3>1, <1>1, <1>5, Types DEF SenderInv
    <3>2. CASE p = [sn |-> sndNxt, chunk |-> input]
      BY <3>2, <1>1, <1>2, <1>5
    <3> QED BY <1>5, <1>6, <3>1, <3>2
  <2> QED BY <2>1, <2>2 DEF SenderInv
<1>9. PathInv'
  <2>1. \A p \in dataNet' \cup ackNet' : p \in dataNet \cup ackNet /\ input' - p.chunk <= Lifetime
    <3>1. \A p \in dataNet' : p \in dataNet /\ (input + 1) - p.chunk <= Lifetime
      BY DEF IoRead
    <3>2. \A p \in ackNet' : p \in ackNet /\ (input + 1) - p.chunk <= Lifetime
      BY DEF IoRead
    <3> QED BY <1>5, <3>1, <3>2
  <2>2. ackNet' \subseteq ackNet
    BY DEF IoRead
  <2>3. \A p \in dataNet \cup ackNet : p.chunk < input'
    BY <1>1, <1>5, Types DEF PathInv
  <2> QED BY <1>5, <2>1, <2>2, <2>3 DEF PathInv, Held, receiverVars
<1>10. ReceiverInv'
  BY <1>1, <1>5, Types DEF ReceiverInv, InOrder, receiverVars
<1>11. AgreementInv'
  <2> SUFFICES ASSUME NEW c \in 0 .. input' - 1
               PROVE  Held(c)' \/ Tracked(c)'
    BY DEF AgreementInv
  <2>1. CASE c = input
    BY <2>1, <1>2, <1>4 DEF Tracked
  <2>2. CASE c \in 0 .. input - 1
    <3>1. Held(c)' <=> Held(c)
      BY <1>5 DEF Held, receiverVars
    <3>2. CASE Held(c)
      BY <3>1, <3>2
    <3>3. CASE ~Held(c)
      <4>1. Wrap(c) \in DOMAIN sndBuf /\ sndBuf[Wrap(c)].chunk = c
        BY <2>2, <3>3 DEF AgreementInv, Tracked, IoRead
      <4>2. Wrap(c) # sndNxt
        BY <1>3, <3>3, <4>1 DEF Held
      <4> QED BY <1>4, <4>1, <4>2 DEF Tracked
    <3> QED BY <3>2, <3>3
  <2> QED BY <1>1, <1>5, <2>1, <2>2
<1>12. /\ WindowInv'
       /\ Cardinality(DOMAIN sndBuf) + 1 <= WindowLimit
  <2>1. Cardinality(DOMAIN sndBuf) \in Nat /\ Cardinality(DOMAIN sndBuf) < WindowLimit
    BY FS_CardinalityType DEF WindowInv, IoRead, WindowOpen
  <2>2. /\ IsFiniteSet(DOMAIN sndBuf')
        /\ \/ Cardinality(DOMAIN sndBuf') = Cardinality(DOMAIN sndBuf) + 1
           \/ Cardinality(DOMAIN sndBuf') = Cardinality(DOMAIN sndBuf)
    BY <1>4, FS_AddElement DEF WindowInv
  <2> QED BY <2>1, <2>2, Constants DEF WindowInv
<1>13. LeadBounded'
  <2>1. /\ Cardinality(DOMAIN sndBuf) \in Nat
        /\ input - Len(output) <= RecvWindow + 1 + Cardinality(DOMAIN sndBuf)
    BY LeadFromBuffer DEF WindowInv, IoRead
  <2> QED BY <1>1, <1>5, <1>12, <2>1, Constants DEF LeadBounded, receiverVars
<1> QED BY <1>3, <1>7, <1>8, <1>9, <1>10, <1>11, <1>12, <1>13

(* What the other steps of the sender and of the path have in common: no    *)
(* chunk enters sndBuf, copies are made only of chunks it keeps, and a      *)
(* chunk leaves it only when the receiver has it or the stream is given up. *)
LEMMA SenderStep ==
  ASSUME Inv,
         UNCHANGED <<input, sndNxt, receiverVars>>,
         gaveUp' \in BOOLEAN,
         (txQueue \cup rtxJobs \cup rtxPushed)' \subseteq
            (txQueue \cup rtxJobs \cup rtxPushed)
              \cup {[sn |-> s, chunk |-> sndBuf[s].chunk] : s \in DOMAIN sndBuf},
         dataNet' \subseteq dataNet \cup {p \in txQueue : Young(p.chunk)},
         ackNet' \subseteq ackNet,
         nackNet' \subseteq nackNet,
         DOMAIN sndBuf' \subseteq DOMAIN sndBuf,
         sndBuf' \in [DOMAIN sndBuf' -> Segment],
         \A s \in DOMAIN sndBuf' : sndBuf'[s].chunk = sndBuf[s].chunk,
         gaveUp' \/ (~gaveUp /\ \A s \in DOMAIN sndBuf \ DOMAIN sndBuf' : Held(sndBuf[s].chunk))
  PROVE  Inv'
<1> USE DEF Inv
<1>1. UNCHANGED <<input, sndNxt, rcvNxt, rcvBuf, output>>
  BY DEF receiverVars
<1>2. /\ input \in Nat /\ Len(output) \in Nat
      /\ \A s \in DOMAIN sndBuf : sndBuf[s].chunk \in Nat /\ sndBuf[s].chunk \in Chunk
      /\ \A s \in DOMAIN sndBuf : s \in Seqs
  BY Types DEF TypeOK, Segment
<1>3. \A c : Held(c)' <=> Held(c)
  BY <1>1 DEF Held
<1>4. TypeOK'
  <2>1. (txQueue \cup rtxJobs \cup rtxPushed)' \subseteq Packet
    BY <1>2 DEF TypeOK, Packet
  <2>2. dataNet' \subseteq Packet /\ ackNet' \subseteq Packet /\ nackNet' \subseteq Seqs
    BY DEF TypeOK
  <2> QED BY <1>1, <2>1, <2>2 DEF TypeOK
<1>5. SenderInv'
  <2>1. \A s \in DOMAIN sndBuf' :
          /\ s = Wrap(sndBuf'[s].chunk)
          /\ sndBuf'[s].chunk < input'
    BY <1>1 DEF SenderInv
  <2>2. \A p \in (txQueue \cup rtxJobs \cup rtxPushed)' : p.sn = Wrap(p.chunk) /\ p.chunk < input'
    BY <1>1 DEF SenderInv
  <2> QED BY <2>1, <2>2 DEF SenderInv
<1>6. PathInv'
  <2>1. \A p \in dataNet' \cup ackNet' :
          p.sn = Wrap(p.chunk) /\ p.chunk < input' /\ input' - p.chunk <= Lifetime
    BY <1>1 DEF PathInv, SenderInv, Young
  <2>2. \A p \in ackNet' : Held(p.chunk)'
    BY <1>3 DEF PathInv
  <2> QED BY <2>1, <2>2 DEF PathInv
<1>7. ReceiverInv'
  BY <1>1 DEF ReceiverInv, InOrder
<1>8. AgreementInv'
  <2> SUFFICES ASSUME ~gaveUp', NEW c \in 0 .. input - 1
               PROVE  Held(c) \/ Tracked(c)'
    BY <1>1, <1>3 DEF AgreementInv
  <2>1. Held(c) \/ Tracked(c)
    BY DEF AgreementInv
  <2> QED BY <2>1 DEF Tracked
<1>9. WindowInv'
  <2>1. IsFiniteSet(DOMAIN sndBuf') /\ Cardinality(DOMAIN sndBuf') <= Cardinality(DOMAIN sndBuf)
    BY FS_Subset DEF WindowInv
  <2>2. Cardinality(DOMAIN sndBuf') \in Nat /\ Cardinality(DOMAIN sndBuf) \in Nat
    BY <2>1, FS_CardinalityType DEF WindowInv
  <2> QED BY <2>1, <2>2, Constants DEF WindowInv
<1>10. LeadBounded'
  BY <1>1 DEF LeadBounded
<1> QED BY <1>4, <1>5, <1>6, <1>7, <1>8, <1>9, <1>10

(* A segment whose flags change keeps its type and its chunk. *)
LEMMA FlagsFact ==
  ASSUME TypeOK, NEW s \in DOMAIN sndBuf,
         \/ sndBuf' = [sndBuf EXCEPT ![s].dispatched = TRUE]
         \/ sndBuf' = [sndBuf EXCEPT ![s].dispatched = FALSE,
                                     ![s].retries = IF @ < MaxRetries THEN @ + 1 ELSE @]
  PROVE  /\ DOMAIN sndBuf' = DOMAIN sndBuf
         /\ sndBuf' \in [DOMAIN sndBuf' -> Segment]
         /\ \A x \in DOMAIN sndBuf : sndBuf'[x].chunk = sndBuf[x].chunk
<1>1. sndBuf[s] \in Segment /\ sndBuf \in [DOMAIN sndBuf -> Segment]
  BY DEF TypeOK
<1>2. sndBuf[s].retries \in Nat /\ sndBuf[s].retries <= MaxRetries
  BY <1>1, Constants DEF Segment
<1>3. CASE sndBuf' = [sndBuf EXCEPT ![s].dispatched = TRUE]
  BY <1>1, <1>3 DEF Segment
<1>4. CASE sndBuf' = [sndBuf EXCEPT ![s].dispatched = FALSE,
                                   ![s].retries = IF @ < MaxRetries THEN @ + 1 ELSE @]
  <2> DEFINE seg == [chunk |-> sndBuf[s].chunk, dispatched |-> FALSE,
                     retries |-> IF sndBuf[s].retries < MaxRetries
                                 THEN sndBuf[s].retries + 1 ELSE sndBuf[s].retries]
  <2>1. seg \in Segment
    BY <1>1, <1>2, Constants DEF Segment
  <2>2. sndBuf' = [sndBuf EXCEPT ![s] = seg]
    BY <1>1, <1>4 DEF Segment
  <2> QED BY <1>1, <2>1, <2>2
<1> QED BY <1>3, <1>4

LEMMA TxDequeueInv ==
  ASSUME Inv, NEW p \in txQueue, TxDequeue(p)
  PROVE  Inv'
<1>1. TypeOK
  BY DEF Inv
<1>2. /\ DOMAIN sndBuf' = DOMAIN sndBuf
      /\ sndBuf' \in [DOMAIN sndBuf' -> Segment]
      /\ \A x \in DOMAIN sndBuf : sndBuf'[x].chunk = sndBuf[x].chunk
  BY <1>1, FlagsFact DEF TxDequeue, TypeOK
<1>3. dataNet' \subseteq dataNet \cup {q \in txQueue : Young(q.chunk)}
  BY PutFact DEF TxDequeue
<1>4. /\ UNCHANGED <<input, sndNxt, rtxJobs, rtxPushed, gaveUp, ackNet, nackNet, receiverVars>>
      /\ txQueue' \subseteq txQueue
  BY DEF TxDequeue
<1>5. gaveUp' \in BOOLEAN
  BY <1>1, <1>4 DEF TypeOK
<1> QED BY <1>2, <1>3, <1>4, <1>5, SenderStep

LEMMA RtxCheckInv ==
  ASSUME Inv, RtxCheck
  PROVE  Inv'
<1>1. TypeOK /\ UNCHANGED <<input, sndNxt, sndBuf, txQueue, rtxPushed, gaveUp, netVars, receiverVars>>
  BY DEF Inv, RtxCheck
<1>2. rtxJobs' \subseteq {[sn |-> s, chunk |-> sndBuf[s].chunk] : s \in DOMAIN sndBuf}
  BY DEF RtxCheck
<1>3. sndBuf' \in [DOMAIN sndBuf' -> Segment] /\ gaveUp' \in BOOLEAN
  BY <1>1 DEF TypeOK
<1> QED BY <1>1, <1>2, <1>3, SenderStep DEF netVars

LEMMA RtxPushInv ==
  ASSUME Inv, NEW p \in rtxJobs, RtxPush(p)
  PROVE  Inv'
<1>1. TypeOK /\ UNCHANGED <<input, sndNxt, sndBuf, gaveUp, netVars, receiverVars>>
  BY DEF Inv, RtxPush
<1>2. /\ rtxJobs' \subseteq rtxJobs
      /\ txQueue' \subseteq txQueue \cup rtxJobs
      /\ rtxPushed' \subseteq rtxJobs
  BY DEF RtxPush
<1>3. sndBuf' \in [DOMAIN sndBuf' -> Segment] /\ gaveUp' \in BOOLEAN
  BY <1>1 DEF TypeOK
<1> QED BY <1>1, <1>2, <1>3, SenderStep DEF netVars

LEMMA RtxMarkInv ==
  ASSUME Inv, NEW p \in rtxPushed, RtxMark(p)
  PROVE  Inv'
<1>1. TypeOK /\ UNCHANGED <<input, sndNxt, txQueue, rtxJobs, gaveUp, netVars, receiverVars>>
  BY DEF Inv, RtxMark
<1>2. /\ DOMAIN sndBuf' = DOMAIN sndBuf
      /\ sndBuf' \in [DOMAIN sndBuf' -> Segment]
      /\ \A x \in DOMAIN sndBuf : sndBuf'[x].chunk = sndBuf[x].chunk
  BY <1>1, FlagsFact DEF RtxMark, TypeOK
<1>3. rtxPushed' = {} /\ gaveUp' \in BOOLEAN
  BY <1>1 DEF RtxMark, TypeOK
<1> QED BY <1>1, <1>2, <1>3, SenderStep DEF netVars

LEMMA GiveUpInv ==
  ASSUME Inv, GiveUp
  PROVE  Inv'
<1>1. UNCHANGED <<input, sndNxt, txQueue, rtxJobs, rtxPushed, netVars, receiverVars>>
  BY DEF GiveUp
<1>2. gaveUp' = TRUE /\ DOMAIN sndBuf' = {} /\ sndBuf' \in [DOMAIN sndBuf' -> Segment]
  BY DEF GiveUp
<1> QED BY <1>1, <1>2, SenderStep DEF netVars

(* The chunk an acknowledgement frees is the chunk it was sent for, or one   *)
(* a lap older.                                                             *)
LEMMA ReceiveAckInv ==
  ASSUME Inv, NEW p \in ackNet, ReceiveAck(p)
  PROVE  Inv'
<1>1. /\ TypeOK /\ SenderInv /\ PathInv
      /\ UNCHANGED <<input, sndNxt, rtxJobs, rtxPushed, gaveUp, dataNet, nackNet, receiverVars>>
      /\ ackNet' \subseteq ackNet
      /\ txQueue' \subseteq txQueue
  BY ArrivalsFact DEF Inv, ReceiveAck
<1>2. CASE p.sn \notin DOMAIN sndBuf
  <2>1. sndBuf' = sndBuf
    BY <1>2 DEF ReceiveAck
  <2>2. sndBuf' \in [DOMAIN sndBuf' -> Segment] /\ gaveUp' \in BOOLEAN
    BY <1>1, <2>1 DEF TypeOK
  <2> QED BY <1>1, <2>1, <2>2, SenderStep
<1>3. CASE p.sn \in DOMAIN sndBuf
  <2>1. sndBuf' = Without(sndBuf, {p.sn})
    BY <1>3 DEF ReceiveAck
  <2>2. /\ DOMAIN sndBuf' = DOMAIN sndBuf \ {p.sn}
        /\ \A s \in DOMAIN sndBuf' : sndBuf'[s] = sndBuf[s]
        /\ sndBuf' \in [DOMAIN sndBuf' -> Segment]
    BY <1>1, <2>1 DEF TypeOK, Without, Restrict
  <2> DEFINE c == sndBuf[p.sn].chunk
  <2>3. /\ Wrap(c) = Wrap(p.chunk) /\ c < input
        /\ p.chunk < input /\ input - p.chunk <= Lifetime
        /\ input \in Int /\ c \in Int /\ p.chunk \in Int
    BY <1>1, <1>3, Types DEF SenderInv, PathInv
  <2>4. Held(c)
    <3> HIDE DEF c
    <3>1. CASE c = p.chunk
      BY <1>1, <3>1 DEF PathInv
    <3>2. CASE c < p.chunk
      BY <1>1, <2>3, <3>2, LapBehind DEF Held, Inv
    <3>3. CASE c > p.chunk
      <4>1. c >= p.chunk + SeqSpace
        BY <1>1, <2>3, <3>3, LapBehind DEF Inv
      <4> QED BY <2>3, <4>1, Constants
    <3> QED BY <2>3, <3>1, <3>2, <3>3
  <2>5. gaveUp' \in BOOLEAN /\ (gaveUp' \/ ~gaveUp)
    BY <1>1 DEF TypeOK
  <2> QED BY <1>1, <2>2, <2>4, <2>5, SenderStep
<1> QED BY <1>2, <1>3

LEMMA HandleDataNackInv ==
  ASSUME Inv, NEW s \in nackNet, HandleDataNack(s)
  PROVE  Inv'
<1>1. /\ TypeOK
      /\ UNCHANGED <<input, sndNxt, sndBuf, rtxJobs, rtxPushed, gaveUp, dataNet, ackNet, receiverVars>>
      /\ nackNet' \subseteq nackNet
  BY ArrivalsFact DEF Inv, HandleDataNack
<1>2. txQueue' \subseteq txQueue \cup {[sn |-> x, chunk |-> sndBuf[x].chunk] : x \in DOMAIN sndBuf}
  BY DEF HandleDataNack
<1>3. sndBuf' \in [DOMAIN sndBuf' -> Segment] /\ gaveUp' \in BOOLEAN
  BY <1>1 DEF TypeOK
<1> QED BY <1>1, <1>2, <1>3, SenderStep

LEMMA LoseInv ==
  ASSUME Inv, Lose
  PROVE  Inv'
<1>1. /\ TypeOK
      /\ UNCHANGED <<senderVars, receiverVars>>
      /\ dataNet' \subseteq dataNet /\ ackNet' \subseteq ackNet /\ nackNet' \subseteq nackNet
  BY DEF Inv, Lose
<1>2. UNCHANGED <<input, sndNxt, sndBuf, txQueue, rtxJobs, rtxPushed, gaveUp>>
  BY <1>1 DEF senderVars
<1>3. sndBuf' \in [DOMAIN sndBuf' -> Segment] /\ gaveUp' \in BOOLEAN
  BY <1>1, <1>2 DEF TypeOK
<1> QED BY <1>1, <1>2, <1>3, SenderStep

-----------------------------------------------------------------------------
(* The steps of the receiver. *)

LEMMA NackOffsetsFact ==
  ASSUME NEW buf, NEW d \in Int
  PROVE  NackOffsets(buf, d) \subseteq Int /\ Missing(buf, NackGap) \subseteq Int
<1>1. \A n \in Int : Missing(buf, n) \subseteq Int
  BY DEF Missing
<1>2. NackGap \in Int
  BY WindowAssumption
<1> QED BY <1>1, <1>2 DEF NackOffsets

(* NACKs carry sequence numbers. *)
LEMMA SendNacksFact ==
  ASSUME TypeOK, NEW O, O \subseteq Int, SendNacks(O)
  PROVE  nackNet' \subseteq Seqs
<1>1. \A i \in O : Slot(i) \in Seqs
  <2>1. rcvNxt \in Int
    BY Types, WrapType, SeqsFact DEF TypeOK
  <2> QED BY <2>1, WrapType DEF Slot
<1>2. nackNet \subseteq Seqs
  BY DEF TypeOK
<1> QED BY <1>1, <1>2 DEF SendNacks

(* How far ahead a packet under way appears to the receiver tells whether   *)
(* its chunk was written, exactly.                                          *)
LEMMA DiffFact ==
  ASSUME Inv, NEW p \in dataNet \cup ackNet
  PROVE  LET diff == Ahead(p.sn, rcvNxt)
         IN /\ diff \in Nat
            /\ Duplicate(diff) => p.chunk < Len(output)
            /\ ~Duplicate(diff) => diff = p.chunk - Len(output) /\ p.chunk >= Len(output)
<1> DEFINE c == p.chunk
           r == Len(output)
           d == Ahead(p.sn, rcvNxt)
<1>1. input \in Nat /\ r \in Nat /\ c \in Nat
  BY Types DEF Inv
<1>2. p.sn = Wrap(c) /\ c < input /\ input - c <= Lifetime /\ rcvNxt = Wrap(r)
  BY DEF Inv, PathInv, TypeOK
<1>3. r <= input /\ input - r <= RecvWindow + 1 + WindowLimit
  BY DEF Inv, ReceiverInv, InOrder, LeadBounded
<1>4. CASE c >= r
  <2>1. c - r \in 0 .. SeqSpace - 1 /\ c - r < Half
    BY <1>1, <1>2, <1>3, <1>4, Constants
  <2>2. d = c - r
    BY <1>1, <1>2, <2>1, AheadForward
  <2> QED BY <1>1, <1>4, <2>1, <2>2, Constants DEF Duplicate
<1>5. CASE c < r
  <2>1. r - c \in 1 .. SeqSpace /\ r - c <= Half
    BY <1>1, <1>2, <1>3, <1>5, Constants
  <2>2. d = SeqSpace - (r - c)
    BY <1>1, <1>2, <2>1, AheadBackward
  <2> QED BY <1>1, <1>5, <2>1, <2>2, Constants DEF Duplicate
<1> QED BY <1>1, <1>4, <1>5

(* What the receiver's steps that do not write have in common: it keeps     *)
(* what it has, stores only a chunk of its window under its own number, and *)
(* acknowledges only what it has then.                                      *)
LEMMA ReceiverStep ==
  ASSUME Inv,
         UNCHANGED <<senderVars, rcvNxt, output>>,
         dataNet' \subseteq dataNet,
         nackNet' \subseteq Seqs,
         NEW p \in Packet,
         p.sn = Wrap(p.chunk), p.chunk < input, input - p.chunk <= Lifetime,
         ackNet' \subseteq ackNet \cup {p},
         \/ rcvBuf' = rcvBuf
         \/ /\ p.sn \notin DOMAIN rcvBuf
            /\ rcvBuf' = Store(rcvBuf, p.sn, p.chunk)
            /\ Len(output) <= p.chunk
            /\ p.chunk <= Len(output) + RecvWindow,
         ackNet' \subseteq ackNet \/ Held(p.chunk)'
  PROVE  Inv'
<1> USE DEF Inv
<1>1. UNCHANGED <<input, sndNxt, sndBuf, txQueue, rtxJobs, rtxPushed, gaveUp, rcvNxt, output>>
  BY DEF senderVars
<1>2. p.sn \in Seqs /\ p.chunk \in Chunk
  BY DEF Packet
<1>3. /\ DOMAIN rcvBuf \subseteq DOMAIN rcvBuf'
      /\ DOMAIN rcvBuf' \subseteq DOMAIN rcvBuf \cup {p.sn}
      /\ \A s \in DOMAIN rcvBuf : rcvBuf'[s] = rcvBuf[s]
      /\ \A s \in DOMAIN rcvBuf' \ DOMAIN rcvBuf :
           /\ s = p.sn /\ rcvBuf'[s] = p.chunk
           /\ Len(output) <= p.chunk /\ p.chunk <= Len(output) + RecvWindow
      /\ rcvBuf' = [s \in DOMAIN rcvBuf' |-> rcvBuf'[s]]
  <2>1. CASE rcvBuf' = rcvBuf
    BY <2>1 DEF TypeOK
  <2>2. CASE rcvBuf' = Store(rcvBuf, p.sn, p.chunk) /\ p.sn \notin DOMAIN rcvBuf
    BY <2>2 DEF Store
  <2> QED BY <2>1, <2>2
<1>4. \A c : Held(c) => Held(c)'
  BY <1>1, <1>3 DEF Held
<1>5. TypeOK'
  <2>1. DOMAIN rcvBuf' \subseteq Seqs /\ rcvBuf' \in [DOMAIN rcvBuf' -> Chunk]
    BY <1>2, <1>3 DEF TypeOK
  <2>2. dataNet' \subseteq Packet /\ ackNet' \subseteq Packet
    BY DEF TypeOK
  <2> QED BY <1>1, <2>1, <2>2 DEF TypeOK
<1>6. SenderInv'
  BY <1>1 DEF SenderInv
<1>7. PathInv'
  <2>1. \A q \in dataNet' \cup ackNet' :
          q.sn = Wrap(q.chunk) /\ q.chunk < input' /\ input' - q.chunk <= Lifetime
    BY <1>1 DEF PathInv
  <2>2. \A q \in ackNet' : Held(q.chunk)'
    BY <1>4 DEF PathInv
  <2> QED BY <2>1, <2>2 DEF PathInv
<1>8. ReceiverInv'
  <2>1. InOrder'
    BY <1>1 DEF ReceiverInv, InOrder
  <2>2. \A s \in DOMAIN rcvBuf' :
          /\ s = Wrap(rcvBuf'[s])
          /\ rcvBuf'[s] < input'
          /\ Len(output') <= rcvBuf'[s] /\ rcvBuf'[s] <= Len(output') + RecvWindow
    BY <1>1, <1>3 DEF ReceiverInv
  <2> QED BY <2>1, <2>2 DEF ReceiverInv
<1>9. AgreementInv'
  BY <1>1, <1>4 DEF AgreementInv, Tracked
<1>10. WindowInv' /\ LeadBounded'
  BY <1>1 DEF WindowInv, LeadBounded
<1> QED BY <1>5, <1>6, <1>7, <1>8, <1>9, <1>10

LEMMA ProcessReceivedDataInv ==
  ASSUME Inv, NEW p \in dataNet, ProcessReceivedData(p)
  PROVE  Inv'
<1> DEFINE d == Ahead(p.sn, rcvNxt)
<1>1. /\ TypeOK /\ PathInv /\ ReceiverInv
      /\ UNCHANGED <<senderVars, rcvNxt, output>>
      /\ dataNet' \subseteq dataNet
  BY ArrivalsFact DEF Inv, ProcessReceivedData
<1>2. p \in Packet /\ p.sn = Wrap(p.chunk) /\ p.chunk < input /\ input - p.chunk <= Lifetime
  BY <1>1 DEF TypeOK, PathInv
<1>3. /\ d \in Nat
      /\ Duplicate(d) => p.chunk < Len(output)
      /\ ~Duplicate(d) => d = p.chunk - Len(output) /\ p.chunk >= Len(output)
  BY DiffFact
<1>4. p.chunk \in Nat /\ Len(output) \in Nat
  BY <1>1, Types
<1> HIDE DEF d
<1>5. CASE Duplicate(d) /\ ackNet' = Put(ackNet, p) /\ UNCHANGED <<rcvBuf, nackNet>>
  <2>1. Held(p.chunk)'
    BY <1>1, <1>3, <1>5 DEF Held
  <2>2. nackNet' \subseteq Seqs /\ ackNet' \subseteq ackNet \cup {p}
    BY <1>1, <1>5, PutFact DEF TypeOK
  <2> QED BY <1>1, <1>2, <1>5, <2>1, <2>2, ReceiverStep
<1>6. CASE UNCHANGED <<rcvBuf, ackNet, nackNet>>
  <2>1. nackNet' \subseteq Seqs
    BY <1>1, <1>6 DEF TypeOK
  <2> QED BY <1>1, <1>2, <1>6, <2>1, ReceiverStep
<1>7. CASE /\ ~Duplicate(d) /\ ~Refused(p.sn, d)
           /\ rcvBuf' = IF p.sn \in DOMAIN rcvBuf THEN rcvBuf
                        ELSE Store(rcvBuf, p.sn, p.chunk)
           /\ ackNet' = Put(ackNet, p)
           /\ SendNacks(NackOffsets(rcvBuf', d))
  <2>1. Len(output) <= p.chunk /\ p.chunk <= Len(output) + RecvWindow
    BY <1>3, <1>4, <1>7, Constants DEF Refused
  <2>2. Held(p.chunk)'
    <3>1. CASE p.sn \in DOMAIN rcvBuf
      <4>1. /\ Wrap(rcvBuf[p.sn]) = Wrap(p.chunk) /\ rcvBuf[p.sn] \in Nat
            /\ Len(output) <= rcvBuf[p.sn] /\ rcvBuf[p.sn] <= Len(output) + RecvWindow
        BY <1>1, <1>2, <3>1, Types DEF ReceiverInv
      <4>2. rcvBuf[p.sn] = p.chunk
        <5> DEFINE b == rcvBuf[p.sn]
        <5> HIDE DEF b
        <5>1. b \in Int /\ Wrap(b) = Wrap(p.chunk) /\ b - p.chunk < SeqSpace /\ p.chunk - b < SeqSpace
          BY <1>4, <2>1, <4>1, Constants DEF b
        <5>2. b = p.chunk
          BY <1>4, <5>1, WrapInjective
        <5> QED BY <5>2 DEF b
      <4> QED BY <1>1, <1>2, <1>7, <3>1, <4>2 DEF Held
    <3>2. CASE p.sn \notin DOMAIN rcvBuf
      <4>1. rcvBuf' = Store(rcvBuf, p.sn, p.chunk)
        BY <1>7, <3>2
      <4>2. p.sn \in DOMAIN rcvBuf' /\ rcvBuf'[p.sn] = p.chunk
        BY <4>1 DEF Store
      <4> QED BY <1>2, <4>2 DEF Held
    <3> QED BY <3>1, <3>2
  <2>3. nackNet' \subseteq Seqs /\ ackNet' \subseteq ackNet \cup {p}
    BY <1>1, <1>3, <1>7, PutFact, NackOffsetsFact, SendNacksFact
  <2> QED BY <1>1, <1>2, <1>7, <2>1, <2>2, <2>3, ReceiverStep
<1> QED BY <1>5, <1>6, <1>7 DEF ProcessReceivedData, d

LEMMA GapWatchdogInv ==
  ASSUME Inv, GapWatchdog
  PROVE  Inv'
<1>1. TypeOK /\ UNCHANGED <<senderVars, dataNet, ackNet, receiverVars>>
  BY DEF Inv, GapWatchdog
<1>2. nackNet' \subseteq Seqs
  BY <1>1, NackOffsetsFact, SendNacksFact DEF GapWatchdog
<1>3. UNCHANGED <<input, sndNxt, sndBuf, txQueue, rtxJobs, rtxPushed, gaveUp,
                  dataNet, ackNet, rcvNxt, rcvBuf, output>>
  BY <1>1 DEF senderVars, receiverVars
<1>4. TypeOK' /\ SenderInv' /\ PathInv' /\ ReceiverInv'
  BY <1>2, <1>3 DEF Inv, TypeOK, SenderInv, PathInv, Held, ReceiverInv, InOrder
<1>5. AgreementInv' /\ WindowInv' /\ LeadBounded'
  BY <1>3 DEF Inv, AgreementInv, Held, Tracked, WindowInv, LeadBounded
<1> QED BY <1>4, <1>5 DEF Inv

(* The number before rcvNxt is that of the last chunk written. *)
LEMMA FinalAckInv ==
  ASSUME Inv, FinalAck
  PROVE  Inv'
<1> DEFINE last == Len(output) - 1
           p    == [sn |-> rcvNxt - 1, chunk |-> last]
<1>1. /\ TypeOK /\ input \in Nat /\ Len(output) \in Nat
      /\ rcvNxt = Wrap(Len(output)) /\ rcvNxt > 0
      /\ Len(output) <= input /\ input - last <= Lifetime /\ input <= ChunkCount
      /\ UNCHANGED <<senderVars, dataNet, nackNet, receiverVars>>
      /\ ackNet' \subseteq ackNet \cup {p}
  BY Types, PutFact DEF Inv, TypeOK, FinalAck, ReceiverInv, InOrder, Young
<1>2. Len(output) > 0
  <2>1. Wrap(0) = 0
    BY SeqSpaceAssumption, SMT DEF Wrap
  <2> QED BY <1>1, <2>1
<1>3. last \in Int /\ last \in Chunk /\ last < input
  BY <1>1, <1>2, Constants DEF Chunk
<1>4. rcvNxt \in Seqs
  BY <1>1, WrapType
<1>5. rcvNxt - 1 \in Seqs
  BY <1>1, <1>4, SeqSpaceAssumption DEF Seqs
<1>6. rcvNxt - 1 = Wrap(last)
  <2>1. Wrap(Wrap(Len(output)) + (-1)) = Wrap(Len(output) + (-1))
    BY <1>1, WrapNext
  <2>2. Wrap(rcvNxt - 1) = rcvNxt - 1
    BY <1>5, SeqSpaceAssumption, SMT DEF Seqs, Wrap
  <2>3. Len(output) + (-1) = last /\ Wrap(Len(output)) + (-1) = rcvNxt - 1
    BY <1>1, <1>4, SeqsFact
  <2> QED BY <2>1, <2>2, <2>3
<1>7. p \in Packet /\ p.sn = Wrap(p.chunk) /\ p.chunk < input /\ input - p.chunk <= Lifetime
  BY <1>1, <1>3, <1>5, <1>6 DEF Packet
<1>8. Held(p.chunk)' /\ rcvBuf' = rcvBuf /\ UNCHANGED <<rcvNxt, output>> /\ nackNet' \subseteq Seqs
  BY <1>1, <1>2 DEF Held, receiverVars, TypeOK
<1> QED BY <1>1, <1>7, <1>8, ReceiverStep

(* The buffered chunk in slot i is the chunk at offset i. *)
LEMMA SlotFact ==
  ASSUME TypeOK, ReceiverInv, NEW i \in Int, i >= 0, i <= RecvWindow
  PROVE  /\ Slot(i) = Wrap(Len(output) + i)
         /\ Slot(i) \in DOMAIN rcvBuf => rcvBuf[Slot(i)] = Len(output) + i
<1>1. Len(output) \in Nat /\ rcvNxt = Wrap(Len(output))
  BY Types DEF TypeOK
<1>2. Slot(i) = Wrap(Len(output) + i)
  BY <1>1, WrapNext DEF Slot
<1>3. ASSUME Slot(i) \in DOMAIN rcvBuf
      PROVE  rcvBuf[Slot(i)] = Len(output) + i
  <2> DEFINE b == rcvBuf[Slot(i)]
  <2>1. b \in Int /\ Wrap(b) = Slot(i) /\ Len(output) <= b /\ b <= Len(output) + RecvWindow
    BY <1>3, Types DEF ReceiverInv
  <2> HIDE DEF b
  <2>2. b - (Len(output) + i) < SeqSpace /\ (Len(output) + i) - b < SeqSpace
    BY <1>1, <2>1, Constants
  <2>3. b = Len(output) + i
    BY <1>1, <1>2, <2>1, <2>2, WrapInjective
  <2> QED BY <2>3 DEF b
<1> QED BY <1>2, <1>3

LEMMA WriteLoopInv ==
  ASSUME Inv, WriteLoop
  PROVE  Inv' /\ Len(output') > Len(output) /\ Len(output') <= input
<1> USE DEF Inv
<1> DEFINE r == Len(output)
<1>1. PICK n \in 1 .. RecvWindow + 1 :
        /\ \A i \in 0 .. n - 1 : Slot(i) \in DOMAIN rcvBuf
        /\ rcvNxt' = Slot(n)
        /\ rcvBuf' = Without(rcvBuf, {Slot(i) : i \in 0 .. n - 1})
        /\ output' = output \o [i \in 1 .. n |-> rcvBuf[Slot(i - 1)]]
        /\ UNCHANGED <<senderVars, netVars>>
  BY DEF WriteLoop
<1>2. /\ input \in Nat /\ r \in Nat /\ n \in Nat /\ n >= 1
      /\ \A s \in DOMAIN rcvBuf : rcvBuf[s] \in Nat /\ rcvBuf[s] \in Chunk
      /\ output \in Seq(Chunk)
  BY <1>1, Types, Constants DEF TypeOK
<1>3. UNCHANGED <<input, sndNxt, sndBuf, txQueue, rtxJobs, rtxPushed, gaveUp,
                  dataNet, ackNet, nackNet>>
  BY <1>1 DEF senderVars, netVars
<1>4. \A i \in 0 .. n - 1 :
        Slot(i) \in DOMAIN rcvBuf /\ Slot(i) = Wrap(r + i) /\ rcvBuf[Slot(i)] = r + i
  <2> SUFFICES ASSUME NEW i \in 0 .. n - 1
               PROVE  /\ Slot(i) \in DOMAIN rcvBuf
                      /\ Slot(i) = Wrap(r + i) /\ rcvBuf[Slot(i)] = r + i
    OBVIOUS
  <2>1. i \in Int /\ i >= 0 /\ i <= RecvWindow
    BY <1>1, Constants
  <2> QED BY <1>1, <2>1, SlotFact
<1>5. /\ output' \in Seq(Chunk) /\ Len(output') = r + n
      /\ \A j \in 1 .. r : output'[j] = output[j]
      /\ \A j \in r + 1 .. r + n : output'[j] = j - 1
  <2> DEFINE run == [i \in 1 .. n |-> rcvBuf[Slot(i - 1)]]
  <2>1. \A i \in 1 .. n : rcvBuf[Slot(i - 1)] \in Chunk /\ rcvBuf[Slot(i - 1)] = (r + i) - 1
    <3> SUFFICES ASSUME NEW i \in 1 .. n
                 PROVE  rcvBuf[Slot(i - 1)] \in Chunk /\ rcvBuf[Slot(i - 1)] = (r + i) - 1
      OBVIOUS
    <3>1. i - 1 \in 0 .. n - 1
      BY <1>2
    <3>2. Slot(i - 1) \in DOMAIN rcvBuf /\ rcvBuf[Slot(i - 1)] = r + (i - 1)
      BY <1>4, <3>1
    <3> QED BY <1>2, <3>2
  <2>2. run \in Seq(Chunk) /\ Len(run) = n /\ \A i \in 1 .. n : run[i] = (r + i) - 1
    BY <1>2, <2>1
  <2> HIDE DEF run
  <2>3. output' = output \o run
    BY <1>1 DEF run
  <2>4. /\ output' \in Seq(Chunk) /\ Len(output') = r + n
        /\ \A j \in 1 .. r + n : output'[j] = IF j <= r THEN output[j] ELSE run[j - r]
    BY <1>2, <2>2, <2>3, ConcatProperties
  <2> QED BY <1>2, <2>2, <2>4
<1>6. r + n <= input
  <2>1. n - 1 \in 0 .. n - 1
    BY <1>2
  <2>2. Slot(n - 1) \in DOMAIN rcvBuf /\ rcvBuf[Slot(n - 1)] = r + (n - 1)
    BY <1>4, <2>1
  <2>3. rcvBuf[Slot(n - 1)] < input
    BY <2>2 DEF ReceiverInv
  <2> QED BY <1>2, <2>2, <2>3
<1>7. /\ DOMAIN rcvBuf' = DOMAIN rcvBuf \ {Slot(i) : i \in 0 .. n - 1}
      /\ \A s \in DOMAIN rcvBuf' : rcvBuf'[s] = rcvBuf[s]
      /\ rcvBuf' = [s \in DOMAIN rcvBuf' |-> rcvBuf'[s]]
  BY <1>1 DEF Without, Restrict
<1>8. \A s \in DOMAIN rcvBuf' : r + n <= rcvBuf'[s]
  <2> SUFFICES ASSUME NEW s \in DOMAIN rcvBuf', rcvBuf[s] < r + n
               PROVE  FALSE
    BY <1>2, <1>7
  <2>1. s \in DOMAIN rcvBuf /\ s = Wrap(rcvBuf[s]) /\ r <= rcvBuf[s] /\ rcvBuf[s] \in Nat
    BY <1>2, <1>7 DEF ReceiverInv
  <2>2. rcvBuf[s] - r \in 0 .. n - 1 /\ r + (rcvBuf[s] - r) = rcvBuf[s]
    BY <1>2, <2>1
  <2>3. Slot(rcvBuf[s] - r) = s
    BY <1>4, <2>1, <2>2
  <2> QED BY <1>7, <2>2, <2>3
<1>9. \A c \in Int : Held(c) => Held(c)'
  <2> SUFFICES ASSUME NEW c \in Int, Held(c), c >= r + n
               PROVE  Wrap(c) \in DOMAIN rcvBuf' /\ rcvBuf'[Wrap(c)] = c
    BY <1>2, <1>5 DEF Held
  <2>1. Wrap(c) \in DOMAIN rcvBuf /\ rcvBuf[Wrap(c)] = c
    BY <1>2 DEF Held
  <2>2. ASSUME NEW i \in 0 .. n - 1, Wrap(c) = Slot(i) PROVE FALSE
    BY <1>2, <1>4, <2>1, <2>2
  <2> QED BY <1>7, <2>1, <2>2
<1>10. TypeOK'
  <2>1. rcvNxt' = Wrap(r + n)
    <3>1. rcvNxt = Wrap(r) /\ rcvNxt' = Wrap(rcvNxt + n)
      BY <1>1 DEF TypeOK, Slot
    <3> QED BY <1>2, <3>1, WrapNext
  <2>2. DOMAIN rcvBuf' \subseteq Seqs /\ rcvBuf' \in [DOMAIN rcvBuf' -> Chunk]
    BY <1>2, <1>7 DEF TypeOK
  <2> QED BY <1>3, <1>5, <2>1, <2>2 DEF TypeOK
<1>11. SenderInv'
  BY <1>3 DEF SenderInv
<1>12. PathInv'
  <2>1. \A p \in dataNet' \cup ackNet' :
          p.sn = Wrap(p.chunk) /\ p.chunk < input' /\ input' - p.chunk <= Lifetime
    BY <1>3 DEF PathInv
  <2>2. \A p \in ackNet' : Held(p.chunk)'
    BY <1>3, <1>9, Types DEF PathInv
  <2> QED BY <2>1, <2>2 DEF PathInv
<1>13. ReceiverInv'
  <2>1. InOrder'
    BY <1>2, <1>3, <1>5, <1>6 DEF ReceiverInv, InOrder
  <2>2. \A s \in DOMAIN rcvBuf' :
          /\ s = Wrap(rcvBuf'[s])
          /\ rcvBuf'[s] < input'
          /\ Len(output') <= rcvBuf'[s] /\ rcvBuf'[s] <= Len(output') + RecvWindow
    BY <1>2, <1>3, <1>5, <1>7, <1>8, Constants DEF ReceiverInv
  <2> QED BY <2>1, <2>2 DEF ReceiverInv
<1>14. AgreementInv'
  BY <1>2, <1>3, <1>9 DEF AgreementInv, Tracked
<1>15. WindowInv' /\ LeadBounded'
  BY <1>2, <1>3, <1>5, Constants DEF WindowInv, LeadBounded
<1> QED BY <1>2, <1>5, <1>6, <1>10, <1>11, <1>12, <1>13, <1>14, <1>15

-----------------------------------------------------------------------------
(* The invariant is inductive. *)

LEMMA NextInv ==
  ASSUME Inv, [Next]_vars
  PROVE  Inv'
<1>1. CASE IoRead
  BY <1>1, IoReadInv
<1>2. CASE \E p \in txQueue : TxDequeue(p)
  BY <1>2, TxDequeueInv
<1>3. CASE RtxCheck
  BY <1>3, RtxCheckInv
<1>4. CASE \E p \in rtxJobs : RtxPush(p)
  BY <1>4, RtxPushInv
<1>5. CASE \E p \in rtxPushed : RtxMark(p)
  BY <1>5, RtxMarkInv
<1>6. CASE GiveUp
  BY <1>6, GiveUpInv
<1>7. CASE \E p \in ackNet : ReceiveAck(p)
  BY <1>7, ReceiveAckInv
<1>8. CASE \E s \in nackNet : HandleDataNack(s)
  BY <1>8, HandleDataNackInv
<1>9. CASE \E p \in dataNet : ProcessReceivedData(p)
  BY <1>9, ProcessReceivedDataInv
<1>10. CASE GapWatchdog
  BY <1>10, GapWatchdogInv
<1>11. CASE FinalAck
  BY <1>11, FinalAckInv
<1>12. CASE WriteLoop
  BY <1>12, WriteLoopInv
<1>13. CASE Lose
  BY <1>13, LoseInv
<1>14. CASE UNCHANGED vars
  BY <1>14 DEF vars, senderVars, netVars, receiverVars, Inv, TypeOK, SenderInv, PathInv,
               Held, ReceiverInv, InOrder, AgreementInv, Tracked, WindowInv, LeadBounded
<1> QED
  BY <1>1, <1>2, <1>3, <1>4, <1>5, <1>6, <1>7, <1>8, <1>9, <1>10, <1>11, <1>12,
     <1>13, <1>14 DEF Next

THEOREM Invariance == Spec => []Inv
<1>1. Init => Inv
  BY InitInv
<1>2. Inv /\ [Next]_vars => Inv'
  BY NextInv
<1> QED BY <1>1, <1>2, PTL DEF Spec

(* Type correctness of the data plane, with both sequence numbers the       *)
(* wrapped positions of the stream's ends.                                  *)
THEOREM TypeCorrect == Spec => []TypeOK
<1>1. Inv => TypeOK
  BY DEF Inv
<1> QED BY <1>1, Invariance, PTL

(* The receiving application gets every chunk once and in order             *)
(* (processReceivedData, writeLoop).                                        *)
THEOREM Order == Spec => []InOrder
<1>1. Inv => InOrder
  BY DEF Inv, ReceiverInv
<1> QED BY <1>1, Invariance, PTL

(* The sender never outruns the receiving application by more than the two  *)
(* windows (waitWindowNotFull, processReceivedData).                        *)
THEOREM Lead == Spec => []LeadBounded
<1>1. Inv => LeadBounded
  BY DEF Inv
<1> QED BY <1>1, Invariance, PTL

(* The sender forgets a chunk only when the receiver has it (ReceiveAck).   *)
THEOREM NoChunkForgotten == Spec => []AckedIsHeld
<1>1. Inv => AckedIsHeld
  <2> SUFFICES ASSUME Inv, ~gaveUp, NEW c \in 0 .. input - 1
               PROVE  c \in Unacked \cup Buffered \cup 0 .. Len(output) - 1
    BY DEF AckedIsHeld
  <2>1. c \in Nat /\ Len(output) \in Nat
    BY Types DEF Inv
  <2>2. Held(c) \/ Tracked(c)
    BY DEF Inv, AgreementInv
  <2> QED BY <2>1, <2>2 DEF Held, Tracked, Unacked, Buffered
<1> QED BY <1>1, Invariance, PTL

(* A chunk may stay unacknowledged until its number comes round again; when  *)
(* its slot of sndBuf is overwritten then, the receiver has it (ioLoop).    *)
THEOREM OverwrittenIsHeld == Spec => ReuseLosesNothing
<1> DEFINE Kept == \A s \in DOMAIN sndBuf \cap DOMAIN sndBuf' :
                     sndBuf'[s].chunk = sndBuf[s].chunk \/ Held(sndBuf[s].chunk)
<1>1. ASSUME Inv, [Next]_vars
      PROVE  [Kept]_vars
  <2>1. CASE IoRead
    <3>1. sndNxt \in DOMAIN sndBuf => Held(sndBuf[sndNxt].chunk)
      BY <1>1, <2>1, IoReadInv DEF Held
    <3>2. \A s \in DOMAIN sndBuf \ {sndNxt} : sndBuf'[s] = sndBuf[s]
      BY <2>1 DEF IoRead, Store
    <3> QED BY <3>1, <3>2
  <2>2. CASE \E p \in txQueue : TxDequeue(p)
    BY <1>1, <2>2, FlagsFact DEF TxDequeue, Inv
  <2>3. CASE \E p \in rtxPushed : RtxMark(p)
    BY <1>1, <2>3, FlagsFact DEF RtxMark, Inv
  <2>4. CASE \E p \in ackNet : ReceiveAck(p)
    BY <2>4 DEF ReceiveAck, Without, Restrict
  <2>5. CASE GiveUp
    BY <2>5 DEF GiveUp
  <2>6. CASE sndBuf' = sndBuf
    BY <2>6
  <2>7. Next => \/ IoRead \/ GiveUp \/ sndBuf' = sndBuf
                \/ \E p \in txQueue : TxDequeue(p)
                \/ \E p \in rtxPushed : RtxMark(p)
                \/ \E p \in ackNet : ReceiveAck(p)
    BY DEF Next, RtxCheck, RtxPush, HandleDataNack, ProcessReceivedData, GapWatchdog,
           FinalAck, WriteLoop, Lose, senderVars
  <2> QED BY <1>1, <2>1, <2>2, <2>3, <2>4, <2>5, <2>6, <2>7
<1> QED BY <1>1, Invariance, PTL DEF Spec, ReuseLosesNothing

-----------------------------------------------------------------------------
(* Refinement: reading is the reliable stream's Read, writing its Write,    *)
(* and every other step is invisible to the two applications.               *)

readSoFar == [i \in 1 .. input |-> i - 1]

LEMMA ReadRefines ==
  ASSUME Inv, IoRead
  PROVE  Stream!Read
<1>1. input \in Nat /\ input \in Chunk /\ input' = input + 1 /\ output' = output
  BY Types, Constants DEF Inv, IoRead, Chunk, receiverVars
<1>2. [i \in 1 .. input + 1 |-> i - 1] = Append(readSoFar, input)
  <2>1. readSoFar \in Seq(Int) /\ Len(readSoFar) = input
    BY <1>1 DEF readSoFar
  <2>2. \A i \in 1 .. input + 1 : Append(readSoFar, input)[i] = i - 1
    BY <1>1, <2>1 DEF readSoFar
  <2> DEFINE longer == [i \in 1 .. input + 1 |-> i - 1]
  <2>3. Append(readSoFar, input) \in Seq(Int) /\ Len(Append(readSoFar, input)) = input + 1
    BY <1>1, <2>1
  <2>4. longer \in Seq(Int) /\ Len(longer) = input + 1 /\ \A i \in 1 .. input + 1 : longer[i] = i - 1
    BY <1>1
  <2> HIDE DEF longer
  <2>5. longer = Append(readSoFar, input)
    BY <1>1, <2>2, <2>3, <2>4, SeqEqual
  <2> QED BY <2>5 DEF longer
<1> QED BY <1>1, <1>2 DEF Stream!Read, readSoFar

LEMMA WriteRefines ==
  ASSUME Inv, WriteLoop
  PROVE  Stream!Write
<1> DEFINE n == Len(output')
<1>1. Inv' /\ n > Len(output) /\ n <= input
  BY WriteLoopInv
<1>2. input' = input /\ input \in Nat /\ Len(output) \in Nat
  BY Types DEF Inv, WriteLoop, senderVars
<1>3. output' \in Seq(Chunk) /\ n \in Nat /\ \A i \in 1 .. n : output'[i] = i - 1
  BY <1>1, LenProperties DEF Inv, TypeOK, ReceiverInv, InOrder
<1>4. readSoFar \in Seq(Chunk) /\ Len(readSoFar) = input
  <2>1. input <= ChunkCount
    BY DEF Inv, TypeOK
  <2>2. \A i \in 1 .. input : i - 1 \in Chunk
    BY <1>2, <2>1, Constants DEF Chunk
  <2> QED BY <1>2, <2>2 DEF readSoFar
<1>5. output' = SubSeq(readSoFar, 1, n)
  <2> HIDE DEF n
  <2>1. /\ SubSeq(readSoFar, 1, n) \in Seq(Chunk)
        /\ Len(SubSeq(readSoFar, 1, n)) = n
        /\ \A i \in 1 .. n : SubSeq(readSoFar, 1, n)[i] = readSoFar[i]
    BY <1>1, <1>2, <1>3, <1>4
  <2>2. \A i \in 1 .. n : readSoFar[i] = i - 1
    BY <1>1, <1>2, <1>3 DEF readSoFar
  <2>3. \A i \in 1 .. n : output'[i] = SubSeq(readSoFar, 1, n)[i]
    BY <1>3, <2>1, <2>2
  <2>4. Len(output') = n
    BY DEF n
  <2> QED BY <1>3, <2>1, <2>3, <2>4, SeqEqual
<1>6. n \in Len(output) + 1 .. Len(readSoFar)
  BY <1>1, <1>2, <1>3, <1>4
<1> QED BY <1>2, <1>5, <1>6 DEF Stream!Write, readSoFar

(* The data plane implements the reliable stream. *)
THEOREM Implementation == Spec => ImplementsStream
<1>1. Init => Stream!Init
  BY SMT DEF Init, Stream!Init
<1>2. ASSUME Inv, [Next]_vars
      PROVE  [Stream!Next]_(Stream!vars)
  <2>1. CASE IoRead
    BY <1>2, <2>1, ReadRefines DEF Stream!Next
  <2>2. CASE WriteLoop
    BY <1>2, <2>2, WriteRefines DEF Stream!Next
  <2>3. CASE input' = input /\ output' = output
    BY <2>3 DEF Stream!vars
  <2>4. Next => IoRead \/ WriteLoop \/ (input' = input /\ output' = output)
    BY DEF Next, TxDequeue, RtxCheck, RtxPush, RtxMark, GiveUp, ReceiveAck, HandleDataNack,
           ProcessReceivedData, GapWatchdog, FinalAck, Lose, senderVars, receiverVars
  <2>5. UNCHANGED vars => input' = input /\ output' = output
    BY DEF vars, senderVars, receiverVars
  <2> QED BY <1>2, <2>1, <2>2, <2>3, <2>4, <2>5
<1> QED BY <1>1, <1>2, Invariance, PTL DEF Spec, ImplementsStream, Stream!Spec
=============================================================================
