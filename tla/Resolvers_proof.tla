-------------------------- MODULE Resolvers_proof --------------------------
(***************************************************************************)
(* The resolvers of the tunnel, for any number of resolvers, requests,     *)
(* writers and processors: the size of the table of samples is exact,      *)
(* whoever disables a resolver leaves the floor of active ones but for     *)
(* those that others have taken since its check, each resolver is in one   *)
(* of the two lists, and no stream prefers one that was disabled.          *)
(***************************************************************************)
EXTENDS Resolvers, FiniteSetTheorems, SequenceTheorems, TLAPS

Finite ==
  /\ IsFiniteSet(Resolver) /\ Used \subseteq Resolver /\ IsFiniteSet(DnsId)
  /\ IsFiniteSet(Writer) /\ IsFiniteSet(Processor)

Assumed == Finite /\ Grain \in Nat \ {0} /\ MaxSends \in Nat

SampleType ==
  /\ pending \in [Key -> {"none", "sent", "late"}]
  /\ writer \in [Writer -> [at : {"idle"}] \cup [at : {"register", "count"}, key : Key]]

TableInv == SampleType /\ PendingExact

ReporterForm ==
  /\ DOMAIN reporter = Reporter
  /\ \A p \in Reporter : reporter[p] = [at |-> reporter[p].at, todo |-> reporter[p].todo]

WindowType == window \in [Resolver -> [sent : Nat, lost : Nat]]

ActiveType ==
  /\ active \subseteq Resolver /\ WindowType /\ sends \in 0 .. MaxSends

Busy       == {w \in Writer : writer[w].at # "idle"}
Confirming == {p \in Reporter : reporter[p].at = "confirm"}

(* A request is counted in a window once at most.                          *)
WindowBounded == \A r \in Resolver : window[r].sent + Cardinality(Busy) <= sends

(* Whoever is about to disable a resolver found one more than the floor;   *)
(* those that are not active any more are the ones that others disabled.   *)
ConfirmersSpared ==
  /\ others \in [Reporter -> Nat]
  /\ \A p \in Reporter : IF p \in Confirming THEN Cardinality(active) + others[p] > Floor
                                            ELSE others[p] = 0

ActiveInv == TableInv /\ ReporterForm /\ ActiveType /\ WindowBounded /\ ConfirmersSpared

-----------------------------------------------------------------------------
(* The table of samples *)

LEMMA KeyFinite == ASSUME Finite PROVE IsFiniteSet(Key) /\ IsFiniteSet(Kept)
<1>1. IsFiniteSet(Used)
  BY FS_Subset DEF Finite
<1>2. IsFiniteSet(Key)
  BY <1>1, FS_Product DEF Finite, Key
<1>3. Kept \in SUBSET Key
  BY DEF Kept
<1>4. QED
  BY <1>2, <1>3, FS_Subset

(* Samples leave the table, and the size follows. *)
LEMMA RemovalExact ==
  ASSUME Finite, TableInv, NEW K \in SUBSET Kept, Kept' = Kept \ K,
         pendingSize' = pendingSize - Cardinality(K)
  PROVE  PendingExact'
<1>1. IsFiniteSet(Kept) /\ Kept \cap K = K
  BY KeyFinite
<1>2. Cardinality(Kept \ K) = Cardinality(Kept) - Cardinality(K)
  BY <1>1, FS_Difference
<1>3. QED
  BY <1>2 DEF TableInv, PendingExact

LEMMA WriteTable == ASSUME TableInv, NEW w \in Writer, NEW k \in Key, Write(w, k) PROVE TableInv'
BY DEF TableInv, SampleType, PendingExact, Kept, Write, samples

LEMMA EvictedKept == ASSUME NEW S, NEW size, NEW K \in Evicted(S, size) PROVE K \subseteq S
BY DEF Evicted

LEMMA RegisterTable == ASSUME Finite, TableInv, NEW w \in Writer, Register(w) PROVE TableInv'
<1> DEFINE k == writer[w].key
<1>1. k \in Key /\ writer' = [writer EXCEPT ![w].at = "count"]
  BY DEF TableInv, SampleType, Register
<1>2. PICK K \in Evicted(Kept, pendingSize) :
        /\ pending' = [j \in Key |-> IF j = k THEN "sent" ELSE IF j \in K THEN "none" ELSE pending[j]]
        /\ pendingSize' = pendingSize - Cardinality(K) + (IF k \in Kept \ K THEN 0 ELSE 1)
  BY DEF Register
<1>3. K \subseteq Kept /\ Kept \cap K = K
  BY EvictedKept
<1>4. SampleType'
  <2>1. writer[w] \in [at : {"register", "count"}, key : Key]
    BY DEF TableInv, SampleType, Register
  <2>2. [writer[w] EXCEPT !.at = "count"] \in [at : {"register", "count"}, key : Key]
    BY <2>1
  <2>3. pending' \in [Key -> {"none", "sent", "late"}]
    BY <1>1, <1>2 DEF TableInv, SampleType
  <2>4. QED
    BY <1>1, <2>2, <2>3 DEF TableInv, SampleType
<1>5. Kept' = (Kept \ K) \cup {k}
  BY <1>1, <1>2 DEF Kept
<1>6. /\ IsFiniteSet(Kept \ K)
      /\ Cardinality(Kept \ K) = Cardinality(Kept) - Cardinality(K)
  BY <1>3, KeyFinite, FS_Difference
<1>7. Cardinality(Kept') = IF k \in Kept \ K THEN Cardinality(Kept \ K) ELSE Cardinality(Kept \ K) + 1
  BY <1>5, <1>6, FS_AddElement
<1>8. Cardinality(Kept) \in Nat /\ Cardinality(K) \in Nat
  BY <1>3, KeyFinite, FS_Subset, FS_CardinalityType
<1>9. pendingSize' = Cardinality(Kept')
  BY <1>2, <1>6, <1>7, <1>8 DEF TableInv, PendingExact
<1>10. QED
  BY <1>4, <1>9 DEF TableInv, PendingExact

LEMMA CountTable == ASSUME TableInv, NEW w \in Writer, Count(w) PROVE TableInv'
BY DEF TableInv, SampleType, PendingExact, Kept, Count, samples

LEMMA AnswerTable ==
  ASSUME Finite, TableInv, NEW p, NEW k \in Key, NEW failed \in BOOLEAN, Answer(p, k, failed)
  PROVE  TableInv'
<1>1. /\ pending' = [j \in Key |-> IF j \in {k} THEN "none" ELSE pending[j]]
      /\ pendingSize' = pendingSize - Cardinality({k} \cap Kept) /\ UNCHANGED writer
  BY DEF Answer, Remove
<1>2. SampleType'
  BY <1>1 DEF TableInv, SampleType
<1>3. Kept' = Kept \ ({k} \cap Kept)
  BY <1>1 DEF Kept
<1>4. QED
  BY <1>1, <1>2, <1>3, RemovalExact DEF TableInv

LEMMA SweepTable == ASSUME Finite, TableInv, Sweep PROVE TableInv'
<1>1. PICK late \in SUBSET {k \in Key : pending[k] = "sent"},
           gone \in SUBSET {k \in Key : pending[k] = "late"} :
        \E evict \in Evicted(Kept \ gone, pendingSize - Cardinality(gone)) :
          /\ pending' = [k \in Key |-> IF k \in gone \cup evict THEN "none" ELSE
                                       IF k \in late THEN "late" ELSE pending[k]]
          /\ pendingSize' = pendingSize - Cardinality(gone) - Cardinality(evict)
  BY Zenon DEF Sweep
<1>10. PICK evict \in Evicted(Kept \ gone, pendingSize - Cardinality(gone)) :
          /\ pending' = [k \in Key |-> IF k \in gone \cup evict THEN "none" ELSE
                                       IF k \in late THEN "late" ELSE pending[k]]
          /\ pendingSize' = pendingSize - Cardinality(gone) - Cardinality(evict)
  BY <1>1
<1>2. gone \subseteq Kept /\ evict \subseteq Kept \ gone
  BY EvictedKept DEF Kept
<1>3. SampleType'
  BY <1>10 DEF TableInv, SampleType, Sweep
<1>4. Kept' = Kept \ (gone \cup evict)
  BY <1>10 DEF Kept, TableInv, SampleType
<1>5. IsFiniteSet(gone) /\ IsFiniteSet(evict)
  BY <1>2, KeyFinite, FS_Subset
<1>6. Cardinality(gone \cup evict) = Cardinality(gone) + Cardinality(evict)
  <2>1. gone \cap evict = {}
    BY <1>2
  <2>2. /\ Cardinality(gone \cup evict)
             = Cardinality(gone) + Cardinality(evict) - Cardinality(gone \cap evict)
        /\ Cardinality(gone) \in Nat /\ Cardinality(evict) \in Nat
    BY <1>5, FS_Union, FS_CardinalityType
  <2>3. Cardinality(gone \cap evict) = 0
    BY <2>1, FS_EmptySet
  <2>4. QED
    BY <2>2, <2>3
<1>7. pendingSize' = pendingSize - Cardinality(gone \cup evict)
  <2>1. pendingSize \in Nat /\ Cardinality(gone) \in Nat /\ Cardinality(evict) \in Nat
    BY <1>5, KeyFinite, FS_CardinalityType DEF TableInv, PendingExact
  <2>2. QED
    BY <1>10, <1>6, <2>1
<1>8. QED
  BY <1>2, <1>3, <1>4, <1>7, RemovalExact DEF TableInv

LEMMA TableStep == ASSUME Finite, TableInv, [Next]_vars PROVE TableInv'
<1>1. CASE UNCHANGED <<samples, writer>>
  BY <1>1 DEF TableInv, SampleType, PendingExact, Kept, samples
<1>2. CASE \E p \in Reporter : Retract(p) \/ Report(p) \/ Confirm(p)
  BY <1>1, <1>2 DEF Retract, Report, Confirm
<1>3. CASE Select \/ \E long \in BOOLEAN : Rest(long)
  BY <1>1, <1>3 DEF Select, Rest
<1>4. CASE \E r \in Resolver : Recheck(r) \/ ComeBack(r)
  BY <1>1, <1>4 DEF Recheck, ComeBack
<1>5. CASE \E s \in Stream : \/ EnsureStream(s) \/ CleanupStream(s) \/ NoteStreamProgress(s)
                             \/ \E resend \in BOOLEAN : SelectTargets(s, resend)
  BY <1>1, <1>5 DEF EnsureStream, CleanupStream, NoteStreamProgress, SelectTargets
<1>6. CASE UNCHANGED vars
  BY <1>1, <1>6 DEF vars, samples
<1>7. QED
  BY <1>2, <1>3, <1>4, <1>5, <1>6, WriteTable, RegisterTable, CountTable, AnswerTable, SweepTable
     DEF Next, Reporter

(* The size that the caps are tested against is the number of samples, for *)
(* any number of requests and any order of answers, sweeps and evictions   *)
(* (TrackResolverSend, CollectExpiredResolverTimeouts).                    *)
THEOREM SizeExact == ASSUME Finite PROVE Spec => []PendingExact
<1>1. Init => TableInv
  <2> SUFFICES ASSUME Init PROVE TableInv
    OBVIOUS
  <2>1. Kept = {}
    BY DEF Init, Kept
  <2>2. QED
    BY <2>1, FS_EmptySet DEF Init, TableInv, SampleType, PendingExact
<1>2. TableInv /\ [Next]_vars => TableInv'
  BY TableStep
<1>3. TableInv => PendingExact
  BY DEF TableInv
<1>4. QED
  BY <1>1, <1>2, <1>3, PTL DEF Spec

-----------------------------------------------------------------------------
(* The last resolvers *)

LEMMA SetsFinite ==
  ASSUME Assumed
  PROVE  \A S : S \subseteq Writer \/ S \subseteq Resolver => IsFiniteSet(S) /\ Cardinality(S) \in Nat
BY FS_Subset, FS_CardinalityType DEF Assumed, Finite

(* The floor is that of minActive where windows are large enough, that of  *)
(* autoDisableMinObservationsForActiveCount where they are not.            *)
LEMMA FloorLeft ==
  ASSUME Assumed, NEW n \in Nat, n > 2, NEW sent \in Nat, sent <= MaxSends, sent >= MinObservations(n)
  PROVE  Floor \in Nat /\ n > Floor
<1>1. MinObservations(3) = 1000000 \div Grain /\ MinObservations(3) \in Nat
  BY DEF MinObservations, Assumed
<1>2. n <= 3 => MinObservations(n) = MinObservations(3)
  BY DEF MinObservations
<1>3. CASE n <= 3
  BY <1>1, <1>2, <1>3 DEF Floor, Assumed
<1>4. CASE n > 3
  BY <1>1, <1>4 DEF Floor, Assumed
<1> QED
  BY <1>3, <1>4

LEMMA FloorType == Floor \in Nat
BY DEF Floor

(* What a goroutine that reports does next. *)
LEMMA ReporterGoesOn ==
  ASSUME ReporterForm, NEW p \in Reporter, NEW at, NEW todo,
         reporter' = [reporter EXCEPT ![p] = [at |-> at, todo |-> todo]]
  PROVE  /\ ReporterForm'
         /\ Confirming' = IF at = "confirm" THEN Confirming \cup {p} ELSE Confirming \ {p}
BY DEF ReporterForm, Confirming

LEMMA ReporterMoves ==
  ASSUME ReporterForm, NEW p \in Reporter, NEW at,
         reporter' = [reporter EXCEPT ![p].at = at]
  PROVE  /\ ReporterForm'
         /\ Confirming' = IF at = "confirm" THEN Confirming \cup {p} ELSE Confirming \ {p}
<1>1. reporter[p] = [at |-> reporter[p].at, todo |-> reporter[p].todo]
  BY DEF ReporterForm
<1>2. [reporter[p] EXCEPT !.at = at] = [at |-> at, todo |-> reporter[p].todo]
  BY <1>1
<1>3. reporter' = [reporter EXCEPT ![p] = [at |-> at, todo |-> reporter[p].todo]]
  BY <1>2
<1>4. QED
  BY <1>3, ReporterGoesOn

(* More resolvers, and the same goroutines about to disable one. *)
LEMMA MoreSpared ==
  ASSUME Assumed, ActiveInv, active \subseteq active', active' \subseteq Resolver,
         Confirming' = Confirming, UNCHANGED others
  PROVE  ConfirmersSpared'
<1>1. IsFiniteSet(active')
  BY SetsFinite
<1>2. Cardinality(active) <= Cardinality(active') /\ Cardinality(active) \in Nat /\ Cardinality(active') \in Nat
  BY <1>1, FS_Subset, FS_CardinalityType
<1>3. others' = others /\ Confirming' = Confirming
  OBVIOUS
<1>4. Floor' = Floor /\ Floor \in Nat
  BY DEF Floor, MinObservations
<1>5. ASSUME NEW p \in Reporter
      PROVE  IF p \in Confirming THEN Cardinality(active') + others[p] > Floor ELSE others[p] = 0
  BY <1>2, <1>4, <1>5 DEF ActiveInv, ConfirmersSpared
<1> QED
  BY <1>3, <1>4, <1>5 DEF ActiveInv, ConfirmersSpared

(* A window that has counted no request. *)
LEMMA WindowLess ==
  ASSUME Assumed, ActiveInv, UNCHANGED <<writer, sends>>,
         \A r \in Resolver : window'[r].sent \in {window[r].sent, 0}
  PROVE  WindowBounded'
<1>1. Busy' = Busy /\ Cardinality(Busy) \in Nat
  BY SetsFinite DEF Busy
<1>2. \A r \in Resolver : window[r].sent \in Nat
  BY DEF ActiveInv, ActiveType, WindowType
<1>3. QED
  BY <1>1, <1>2 DEF ActiveInv, WindowBounded, ActiveType, WindowType

LEMMA WriteActive ==
  ASSUME Assumed, ActiveInv, NEW w \in Writer, NEW k \in Key, Write(w, k)
  PROVE  WindowBounded'
<1>1. Busy' = Busy \cup {w} /\ w \notin Busy /\ UNCHANGED window /\ sends' = sends + 1
  BY DEF Write, Busy, ActiveInv, TableInv, SampleType, choice
<1>2. IsFiniteSet(Busy) /\ Cardinality(Busy) \in Nat /\ Cardinality(Busy') = Cardinality(Busy) + 1
  BY <1>1, SetsFinite, FS_AddElement DEF Busy
<1>3. QED
  BY <1>1, <1>2 DEF ActiveInv, WindowBounded, ActiveType, WindowType

LEMMA RegisterActive ==
  ASSUME Assumed, ActiveInv, NEW w \in Writer, Register(w) PROVE WindowBounded'
<1>1. Busy' = Busy /\ UNCHANGED <<window, sends>>
  BY DEF Register, Busy, ActiveInv, TableInv, SampleType, choice
<1>2. QED
  BY <1>1 DEF ActiveInv, WindowBounded

(* The window of one resolver counts, or begins again. *)
LEMMA CountedWindow ==
  ASSUME WindowType, NEW r, NEW field \in {"sent", "lost"}, NEW ended \in BOOLEAN,
         window' = Counted(r, field, ended)
  PROVE  /\ window' \in [Resolver -> [sent : Nat, lost : Nat]]
         /\ \A q \in Resolver :
              \/ window'[q].sent \in {window[q].sent, 0}
              \/ field = "sent" /\ window'[q].sent \in {window[q].sent + 1, 1}
<1> DEFINE base == IF ended THEN Empty ELSE window[r]
           next == [base EXCEPT ![field] = @ + 1]
<1>1. window' = [window EXCEPT ![r] = next]
  BY DEF Counted
<1>2. ASSUME r \in Resolver PROVE base \in [sent : Nat, lost : Nat] /\ base.sent \in {window[r].sent, 0}
  BY <1>2 DEF WindowType, Empty
<1>3. ASSUME r \in Resolver
      PROVE  /\ next \in [sent : Nat, lost : Nat]
             /\ next.sent = IF field = "sent" THEN base.sent + 1 ELSE base.sent
  <2>1. base = [sent |-> base.sent, lost |-> base.lost] /\ base.sent \in Nat /\ base.lost \in Nat
    BY <1>2, <1>3
  <2>2. next = IF field = "sent" THEN [sent |-> base.sent + 1, lost |-> base.lost]
                                 ELSE [sent |-> base.sent, lost |-> base.lost + 1]
    BY <2>1
  <2>3. QED
    BY <2>1, <2>2
<1> HIDE DEF next
<1>4. \A q \in Resolver : window'[q] = IF q = r THEN next ELSE window[q]
  BY <1>1 DEF ActiveType, WindowType
<1>5. window' \in [Resolver -> [sent : Nat, lost : Nat]]
  BY <1>1, <1>3 DEF ActiveType, WindowType
<1> HIDE DEF base
<1>6. ASSUME NEW q \in Resolver
      PROVE  \/ window'[q].sent \in {window[q].sent, 0}
             \/ field = "sent" /\ window'[q].sent \in {window[q].sent + 1, 1}
  <2>1. CASE q # r
    BY <1>4, <2>1
  <2>2. CASE q = r
    BY <1>2, <1>3, <1>4, <2>2
  <2>3. QED
    BY <2>1, <2>2
<1>7. QED
  BY <1>5, <1>6

LEMMA CountActive ==
  ASSUME Assumed, ActiveInv, NEW w \in Writer, Count(w)
  PROVE  WindowBounded' /\ window' \in [Resolver -> [sent : Nat, lost : Nat]]
<1>1. Busy' = Busy \ {w} /\ w \in Busy /\ UNCHANGED sends
  BY DEF Count, Busy, ActiveInv, TableInv, SampleType
<1>2. /\ IsFiniteSet(Busy) /\ Cardinality(Busy) \in Nat
      /\ Cardinality(Busy') = Cardinality(Busy) - 1 /\ Cardinality(Busy') \in Nat
  BY <1>1, SetsFinite, FS_RemoveElement DEF Busy
<1>3. /\ window' \in [Resolver -> [sent : Nat, lost : Nat]]
      /\ \A q \in Resolver : \/ window'[q].sent \in {window[q].sent, 0}
                            \/ window'[q].sent \in {window[q].sent + 1, 1}
  BY CountedWindow DEF Count, ActiveInv, ActiveType
<1>4. QED
  BY <1>1, <1>2, <1>3 DEF ActiveInv, ActiveType, WindowType, WindowBounded

(* Three active resolvers are out of reach of every window. *)
LEMMA ReportActive ==
  ASSUME Assumed, ActiveInv, NEW p \in Reporter, Report(p)
  PROVE  ReporterForm' /\ ActiveType' /\ WindowBounded' /\ ConfirmersSpared'
<1> DEFINE r == Head(reporter[p].todo)
<1>1. PICK ended \in BOOLEAN :
        /\ window' = Counted(r, "lost", ended)
        /\ reporter' = [reporter EXCEPT ![p] =
             IF Suspect(r, Counted(r, "lost", ended)[r]) THEN [@ EXCEPT !.at = "confirm"] ELSE Continue(p)]
  BY DEF Report
<1> DEFINE suspected == Suspect(r, window'[r])
<1>2. /\ window' \in [Resolver -> [sent : Nat, lost : Nat]]
      /\ \A q \in Resolver : window'[q].sent \in {window[q].sent, 0}
  BY <1>1, CountedWindow DEF ActiveInv, ActiveType
<1>3. UNCHANGED <<active, writer, sends>>
  BY DEF Report
<1>4. WindowBounded'
  BY <1>2, <1>3, WindowLess
<1>5. ActiveType'
  BY <1>2, <1>3 DEF ActiveInv, ActiveType, WindowType
<1>6. CASE suspected
  <2>1. reporter' = [reporter EXCEPT ![p].at = "confirm"]
    BY <1>1, <1>6
  <2>2. ReporterForm' /\ Confirming' = Confirming \cup {p}
    BY <2>1, ReporterMoves DEF ActiveInv
  <2>3. Cardinality(active) \in Nat
    BY SetsFinite DEF ActiveInv, ActiveType
  <2>4. /\ r \in Resolver /\ window'[r].sent >= MinObservations(Cardinality(active))
        /\ Cardinality(active) > 2
    BY <1>6 DEF Spare, Suspect, AllLost, ActiveInv, ActiveType, WindowType
  <2>5. window'[r].sent <= MaxSends
    <3>1. Cardinality(Busy) \in Nat /\ Cardinality(Busy') = Cardinality(Busy)
      BY <1>3, SetsFinite DEF Busy
    <3>2. window'[r].sent + Cardinality(Busy') <= sends' /\ sends' \in 0 .. MaxSends
      BY <1>4, <1>5, <2>4 DEF WindowBounded, ActiveType, WindowType
    <3>3. QED
      BY <1>2, <2>4, <3>1, <3>2 DEF Assumed
  <2>6. Cardinality(active) > Floor
    <3>1. window'[r].sent \in Nat
      BY <1>2, <2>4
    <3>2. QED
      BY <2>3, <2>4, <2>5, <3>1, FloorLeft
  <2>7. ConfirmersSpared'
    <3>1. p \notin Confirming /\ others[p] = 0
      BY DEF Report, Confirming, ActiveInv, ConfirmersSpared
    <3>2. UNCHANGED <<active, others>>
      BY DEF Report, world
    <3>3. Floor' = Floor
      BY DEF Floor, MinObservations
    <3>4. Cardinality(active) + others[p] > Floor
      BY <2>3, <2>6, <3>1, FloorType
    <3> QED
      BY <2>2, <3>1, <3>2, <3>3, <3>4 DEF ActiveInv, ConfirmersSpared
  <2>8. QED
    BY <1>4, <1>5, <2>2, <2>7
<1>7. CASE ~suspected
  <2> DEFINE rest == Tail(reporter[p].todo)
             at == IF rest # <<>> THEN "report" ELSE IF p = Health THEN "health" ELSE "idle"
  <2>1. reporter' = [reporter EXCEPT ![p] = [at |-> at, todo |-> rest]] /\ at # "confirm"
    BY <1>1, <1>7 DEF Continue
  <2> HIDE DEF at, rest
  <2>2. ReporterForm' /\ Confirming' = Confirming
    BY <2>1, ReporterGoesOn DEF ActiveInv, Report, Confirming
  <2>3. ConfirmersSpared'
    BY <1>3, <2>2, MoreSpared DEF ActiveInv, ActiveType, WindowType, Report, world
  <2>4. QED
    BY <1>4, <1>5, <2>2, <2>3
<1>8. QED
  BY <1>6, <1>7

(* Each goroutine that was about to disable a resolver takes one at most. *)
LEMMA ConfirmActive ==
  ASSUME Assumed, ActiveInv, NEW p \in Reporter, Confirm(p)
  PROVE  ReporterForm' /\ ActiveType' /\ WindowBounded' /\ ConfirmersSpared'
<1> DEFINE r == Head(reporter[p].todo)
           rest == Tail(reporter[p].todo)
           at == IF rest # <<>> THEN "report" ELSE IF p = Health THEN "health" ELSE "idle"
<1>1. /\ reporter' = [reporter EXCEPT ![p] = [at |-> at, todo |-> rest]] /\ at # "confirm"
      /\ UNCHANGED <<writer, sends>>
  BY DEF Confirm, Continue
<1>2. active' = active \/ active' = active \ {r}
  BY DEF Confirm, Disable, Deactivate, choice
<1>3. window' = window \/ window' = [window EXCEPT ![r] = Empty]
  BY DEF Confirm, Disable, ResetWindow, choice
<1>4. p \in Confirming
  BY DEF Confirm, Confirming
<1> HIDE DEF at, rest, r
<1>5. ReporterForm' /\ Confirming' = Confirming \ {p}
  BY <1>1, ReporterGoesOn DEF ActiveInv
<1>6. /\ window' \in [Resolver -> [sent : Nat, lost : Nat]]
      /\ \A q \in Resolver : window'[q].sent \in {window[q].sent, 0}
  BY <1>3 DEF ActiveInv, ActiveType, WindowType, Empty
<1>7. WindowBounded' /\ ActiveType'
  BY <1>1, <1>2, <1>6, WindowLess DEF ActiveInv, ActiveType, WindowType
<1>8. IsFiniteSet(active) /\ Cardinality(active) \in Nat
  BY SetsFinite DEF ActiveInv, ActiveType
<1>9. PICK down \in BOOLEAN :
        /\ active' = IF down THEN active \ {r} ELSE active
        /\ others' = [q \in Reporter |-> IF q = p \/ reporter[q].at # "confirm" THEN 0
                                       ELSE IF down THEN others[q] + 1 ELSE others[q]]
  <2>1. CASE r \in active /\ r \notin answers
    BY <2>1 DEF Confirm, Disable, Deactivate, r
  <2>2. CASE ~(r \in active /\ r \notin answers)
    BY <2>2 DEF Confirm, choice, r
  <2> QED
    BY <2>1, <2>2
<1>10. /\ Cardinality(active') \in Nat
       /\ Cardinality(active') + (IF down THEN 1 ELSE 0) >= Cardinality(active)
  <2>1. /\ IsFiniteSet(active \ {r}) /\ Cardinality(active \ {r}) \in Nat
        /\ Cardinality(active \ {r}) + 1 >= Cardinality(active)
    <3>1. /\ IsFiniteSet(active \ {r})
          /\ Cardinality(active \ {r}) = IF r \in active THEN Cardinality(active) - 1 ELSE Cardinality(active)
      BY <1>8, FS_RemoveElement
    <3>2. Cardinality(active \ {r}) \in Nat
      BY <3>1, FS_CardinalityType
    <3> QED
      BY <1>8, <3>1, <3>2
  <2>2. CASE down
    BY <1>9, <2>1, <2>2
  <2>3. CASE ~down
    BY <1>8, <1>9, <2>3
  <2> QED
    BY <2>2, <2>3
<1>11. ConfirmersSpared'
  <2>1. others \in [Reporter -> Nat]
    BY DEF ActiveInv, ConfirmersSpared
  <2>2. others' \in [Reporter -> Nat]
    BY <1>9, <2>1
  <2>3. Floor' = Floor /\ Floor \in Nat
    BY DEF Floor, MinObservations
  <2>4. ASSUME NEW q \in Reporter
        PROVE  IF q \in Confirming' THEN Cardinality(active') + others'[q] > Floor ELSE others'[q] = 0
    <3>1. CASE q = p \/ q \notin Confirming
      BY <1>5, <1>9, <3>1 DEF Confirming
    <3>2. CASE q # p /\ q \in Confirming
      <4>1. q \in Confirming' /\ others'[q] = others[q] + (IF down THEN 1 ELSE 0)
        BY <1>5, <1>9, <2>1, <3>2 DEF Confirming
      <4>2. Cardinality(active) + others[q] > Floor /\ others[q] \in Nat
        BY <2>1, <3>2 DEF ActiveInv, ConfirmersSpared
      <4> QED
        BY <1>8, <1>10, <2>3, <4>1, <4>2
    <3> QED
      BY <3>1, <3>2
  <2> QED
    BY <2>2, <2>3, <2>4 DEF ConfirmersSpared
<1>12. QED
  BY <1>5, <1>7, <1>11

LEMMA AnswerActive ==
  ASSUME Assumed, ActiveInv, NEW p \in Processor, NEW k \in Key, NEW failed \in BOOLEAN,
         Answer(p, k, failed)
  PROVE  ReporterForm' /\ Confirming' = Confirming
<1> DEFINE at == CASE ~failed /\ pending[k] = "late" -> "retract"
                   [] failed /\ pending[k] = "sent"  -> "report"
                   [] OTHER -> "idle"
           todo == CASE ~failed /\ pending[k] = "late" -> <<k[1]>>
                     [] failed /\ pending[k] = "sent"  -> <<k[1]>>
                     [] OTHER -> <<>>
<1>1. at # "confirm"
  OBVIOUS
<1>2. reporter' = [reporter EXCEPT ![p] = [at |-> at, todo |-> todo]]
  BY DEF Answer, Idle
<1>3. p \in Reporter
  BY DEF Reporter
<1> HIDE DEF at, todo
<1>4. p \notin Confirming
  BY DEF Answer, Confirming
<1>5. ReporterForm' /\ Confirming' = Confirming \ {p}
  BY <1>1, <1>2, <1>3, ReporterGoesOn DEF ActiveInv
<1>6. QED
  BY <1>4, <1>5

LEMMA SweepActive == ASSUME ActiveInv, Sweep PROVE ReporterForm' /\ Confirming' = Confirming
<1>1. PICK late, todo :
        reporter' = [reporter EXCEPT ![Health] =
          [at |-> IF late = {} THEN "health" ELSE "report", todo |-> todo]]
  BY Zenon DEF Sweep
<1>2. (IF late = {} THEN "health" ELSE "report") # "confirm"
  OBVIOUS
<1>3. Health \notin Confirming
  BY DEF Sweep, Confirming
<1>4. QED
  BY <1>1, <1>2, <1>3, ReporterGoesOn DEF ActiveInv, Reporter

LEMMA RecheckActive ==
  ASSUME Assumed, ActiveInv, NEW r \in Resolver, Recheck(r)
  PROVE  ActiveType' /\ WindowBounded' /\ ConfirmersSpared'
<1>1. /\ active' = active \/ active' = active \cup {r}
      /\ window' = window \/ window' = [window EXCEPT ![r] = Empty]
      /\ UNCHANGED <<reporter, writer, sends>>
  BY DEF Recheck, Activate, ResetWindow
<1>2. /\ window' \in [Resolver -> [sent : Nat, lost : Nat]]
      /\ \A q \in Resolver : window'[q].sent \in {window[q].sent, 0}
  BY <1>1 DEF ActiveInv, ActiveType, WindowType, Empty
<1>3. Confirming' = Confirming /\ UNCHANGED others
  BY <1>1 DEF Confirming, Recheck, world
<1>4. QED
  BY <1>1, <1>2, <1>3, WindowLess, MoreSpared DEF ActiveInv, ActiveType, WindowType

LEMMA RetractActive ==
  ASSUME Assumed, ActiveInv, NEW p \in Processor, Retract(p)
  PROVE  ReporterForm' /\ ActiveType' /\ WindowBounded' /\ ConfirmersSpared'
<1> DEFINE r == Head(reporter[p].todo)
           at == "idle"
           todo == <<>>
<1>1. /\ \/ window' = [window EXCEPT ![r] = Empty]
         \/ window' = [window EXCEPT ![r].lost = IF @ = 0 THEN 0 ELSE @ - 1]
      /\ reporter' = [reporter EXCEPT ![p] = [at |-> at, todo |-> todo]] /\ at # "confirm"
      /\ UNCHANGED <<active, writer, sends>>
  BY DEF Retract, Idle
<1> HIDE DEF r, at, todo
<1>2. /\ window' \in [Resolver -> [sent : Nat, lost : Nat]]
      /\ \A q \in Resolver : window'[q].sent \in {window[q].sent, 0}
  <2>1. CASE r \notin Resolver
    <3>1. window' = window
      BY <1>1, <2>1 DEF ActiveInv, ActiveType, WindowType
    <3>2. QED
      BY <3>1 DEF ActiveInv, ActiveType, WindowType
  <2>2. CASE r \in Resolver
    <3>1. /\ window[r] \in [sent : Nat, lost : Nat]
          /\ [window[r] EXCEPT !.lost = IF @ = 0 THEN 0 ELSE @ - 1] \in [sent : Nat, lost : Nat]
          /\ [window[r] EXCEPT !.lost = IF @ = 0 THEN 0 ELSE @ - 1].sent = window[r].sent
      BY <2>2 DEF ActiveInv, ActiveType, WindowType
    <3>2. PICK v \in [sent : Nat, lost : Nat] :
            v.sent \in {window[r].sent, 0} /\ window' = [window EXCEPT ![r] = v]
      BY <1>1, <3>1 DEF Empty
    <3>3. QED
      BY <2>2, <3>2 DEF ActiveInv, ActiveType, WindowType
  <2>3. QED
    BY <2>1, <2>2
<1>3. ReporterForm' /\ Confirming' = Confirming /\ UNCHANGED others
  <2>1. p \in Reporter /\ p \notin Confirming /\ UNCHANGED others
    BY DEF Reporter, Retract, Confirming, world
  <2>2. ReporterForm' /\ Confirming' = Confirming \ {p}
    BY <1>1, <2>1, ReporterGoesOn DEF ActiveInv
  <2>3. QED
    BY <2>1, <2>2
<1>4. QED
  BY <1>1, <1>2, <1>3, WindowLess, MoreSpared DEF ActiveInv, ActiveType, WindowType

LEMMA SelectActive == ASSUME ActiveInv, Select PROVE ReporterForm' /\ Confirming' = Confirming
<1>1. CASE UNCHANGED reporter
  BY <1>1 DEF ActiveInv, ReporterForm, Confirming
<1>2. CASE reporter' = [reporter EXCEPT ![Health].at = "recheck"]
  <2>1. Health \in Reporter /\ Health \notin Confirming
    BY DEF Reporter, Select, Confirming
  <2> DEFINE at == "recheck"
  <2>2. reporter' = [reporter EXCEPT ![Health].at = at] /\ at # "confirm"
    BY <1>2
  <2> HIDE DEF at
  <2>3. ReporterForm' /\ Confirming' = Confirming \ {Health}
    BY <2>1, <2>2, ReporterMoves DEF ActiveInv
  <2>4. QED
    BY <2>1, <2>3
<1>3. QED
  BY <1>1, <1>2 DEF Select

LEMMA RestActive ==
  ASSUME ActiveInv, NEW long \in BOOLEAN, Rest(long) PROVE ReporterForm' /\ Confirming' = Confirming
<1> DEFINE at == "idle"
           todo == <<>>
<1>1. reporter' = [reporter EXCEPT ![Health] = [at |-> at, todo |-> todo]] /\ at # "confirm"
  BY DEF Rest, Idle
<1> HIDE DEF at, todo
<1>2. Health \in Reporter /\ Health \notin Confirming
  BY DEF Reporter, Rest, Confirming
<1>3. ReporterForm' /\ Confirming' = Confirming \ {Health}
  BY <1>1, <1>2, ReporterGoesOn DEF ActiveInv
<1>4. QED
  BY <1>2, <1>3

(* A step that leaves windows, writers and the active set alone. *)
LEMMA Aside ==
  ASSUME Assumed, ActiveInv, UNCHANGED <<active, window, writer, sends, others>>,
         ReporterForm', Confirming' = Confirming
  PROVE  ReporterForm' /\ ActiveType' /\ WindowBounded' /\ ConfirmersSpared'
<1>1. ActiveType' /\ WindowBounded'
  BY DEF ActiveInv, ActiveType, WindowType, WindowBounded, Busy
<1>2. ConfirmersSpared'
  BY MoreSpared DEF ActiveInv, ActiveType, WindowType
<1>3. QED
  BY <1>1, <1>2

(* A writer only counts requests. *)
LEMMA WriterActive ==
  ASSUME Assumed, ActiveInv, NEW w \in Writer,
         (\E k \in Key : Write(w, k)) \/ Register(w) \/ Count(w)
  PROVE  ReporterForm' /\ ActiveType' /\ WindowBounded' /\ ConfirmersSpared'
<1>1. UNCHANGED <<active, reporter, others>>
  BY DEF Write, Register, Count, choice, world
<1>2. ReporterForm' /\ ConfirmersSpared'
  BY <1>1 DEF ActiveInv, ReporterForm, ConfirmersSpared, Confirming, Floor, MinObservations
<1>3. WindowBounded'
  BY WriteActive, RegisterActive, CountActive
<1>4. ActiveType'
  <2>1. CASE \E k \in Key : Write(w, k)
    BY <1>1, <2>1 DEF Write, choice, ActiveInv, ActiveType, WindowType, Assumed
  <2>2. CASE Register(w)
    BY <1>1, <2>2 DEF Register, choice, ActiveInv, ActiveType, WindowType
  <2>3. CASE Count(w)
    BY <1>1, <2>3, CountActive DEF Count, ActiveInv, ActiveType, WindowType
  <2>4. QED
    BY <2>1, <2>2, <2>3
<1>5. QED
  BY <1>2, <1>3, <1>4

LEMMA ActiveStep == ASSUME Assumed, ActiveInv, [Next]_vars PROVE ActiveInv'
<1> DEFINE Goal == ReporterForm' /\ ActiveType' /\ WindowBounded' /\ ConfirmersSpared'
<1>1. SUFFICES Goal
  BY TableStep DEF ActiveInv, Assumed
<1>2. CASE \E w \in Writer : (\E k \in Key : Write(w, k)) \/ Register(w) \/ Count(w)
  BY <1>2, WriterActive
<1>3. CASE \E p \in Processor, k \in Key, failed \in BOOLEAN : Answer(p, k, failed)
  <2>1. UNCHANGED <<active, window, writer, sends, others>>
    BY <1>3 DEF Answer, choice, world
  <2>2. QED
    BY <1>3, <2>1, AnswerActive, Aside
<1>4. CASE \E p \in Processor : Retract(p)
  BY <1>4, RetractActive
<1>5. CASE \E p \in Reporter : Report(p) \/ Confirm(p)
  BY <1>5, ReportActive, ConfirmActive
<1>6. CASE Sweep \/ Select \/ \E long \in BOOLEAN : Rest(long)
  <2>1. UNCHANGED <<active, window, writer, sends, others>>
    BY <1>6 DEF Sweep, Select, Rest, choice, world
  <2>2. QED
    BY <1>6, <2>1, SweepActive, SelectActive, RestActive, Aside
<1>7. CASE \E r \in Resolver : Recheck(r)
  <2>1. UNCHANGED reporter
    BY <1>7 DEF Recheck
  <2>2. ReporterForm'
    BY <2>1 DEF ActiveInv, ReporterForm
  <2>3. QED
    BY <1>7, <2>2, RecheckActive
<1>8. CASE UNCHANGED <<active, window, writer, sends, reporter, others>>
  <2>1. ReporterForm' /\ Confirming' = Confirming
    BY <1>8 DEF ActiveInv, ReporterForm, Confirming
  <2>2. QED
    BY <1>8, <2>1, Aside
<1>9. CASE \E r \in Resolver : ComeBack(r)
  BY <1>8, <1>9 DEF ComeBack, choice, world
<1>10. CASE \E s \in Stream : \/ EnsureStream(s) \/ CleanupStream(s) \/ NoteStreamProgress(s)
                              \/ \E resend \in BOOLEAN : SelectTargets(s, resend)
  BY <1>8, <1>10 DEF EnsureStream, CleanupStream, NoteStreamProgress, SelectTargets, world
<1>11. CASE UNCHANGED vars
  BY <1>8, <1>11 DEF vars
<1> HIDE DEF Goal
<1>12. QED
  BY <1>2, <1>3, <1>4, <1>5, <1>6, <1>7, <1>9, <1>10, <1>11 DEF Next

LEMMA ActiveAtFirst == ASSUME Assumed, Init PROVE ActiveInv
<1>1. TableInv
  <2>1. Kept = {}
    BY DEF Init, Kept
  <2>2. QED
    BY <2>1, FS_EmptySet DEF Init, TableInv, SampleType, PendingExact
<1>2. ReporterForm /\ Confirming = {}
  BY DEF Init, ReporterForm, Confirming, Idle
<1>3. Busy = {}
  BY DEF Init, Busy
<1>4. ActiveType
  BY DEF Init, ActiveType, WindowType, Empty, Assumed
<1>5. WindowBounded
  BY <1>3, FS_EmptySet DEF Init, WindowBounded, Empty
<1>6. ConfirmersSpared
  BY <1>2 DEF Init, ConfirmersSpared
<1>7. QED
  BY <1>1, <1>2, <1>4, <1>5, <1>6 DEF ActiveInv

(* A goroutine that confirms, and does not any more, and the active set    *)
(* changed: it has disabled its resolver.                                  *)
LEMMA WhoDisables ==
  ASSUME ActiveInv, [Next]_vars, NEW p \in Reporter,
         reporter[p].at = "confirm", reporter'[p].at # "confirm", active' # active
  PROVE  Confirm(p)
<1>1. PICK q \in Reporter : Confirm(q)
  <2>1. CASE \E w \in Writer : (\E k \in Key : Write(w, k)) \/ Register(w) \/ Count(w)
    BY <2>1 DEF Write, Register, Count, choice
  <2>2. CASE \E q \in Processor, k \in Key, failed \in BOOLEAN : Answer(q, k, failed)
    BY <2>2 DEF Answer, choice
  <2>3. CASE (\E q \in Processor : Retract(q)) \/ (\E q \in Reporter : Report(q))
    BY <2>3 DEF Retract, Report
  <2>4. CASE Sweep \/ Select \/ \E long \in BOOLEAN : Rest(long)
    BY <2>4 DEF Sweep, Select, Rest, choice
  <2>5. CASE \E r \in Resolver : Recheck(r) \/ ComeBack(r)
    BY <2>5 DEF Recheck, ComeBack
  <2>6. CASE \E s \in Stream : \/ EnsureStream(s) \/ CleanupStream(s) \/ NoteStreamProgress(s)
                               \/ \E resend \in BOOLEAN : SelectTargets(s, resend)
    BY <2>6 DEF EnsureStream, CleanupStream, NoteStreamProgress, SelectTargets
  <2>7. CASE UNCHANGED vars
    BY <2>7 DEF vars
  <2> QED
    BY <2>1, <2>2, <2>3, <2>4, <2>5, <2>6, <2>7 DEF Next
<1>2. q # p => reporter'[p] = reporter[p]
  BY <1>1 DEF Confirm, ActiveInv, ReporterForm
<1> QED
  BY <1>1, <1>2

(* However many resolvers and goroutines there are, and whatever their     *)
(* answers, whoever disables a resolver leaves the floor of active ones,   *)
(* but for those that others disabled since its check (ReportTimeout).     *)
THEOREM LeavesFloor == ASSUME Assumed PROVE Spec => LastActive
<1>1. Init => ActiveInv
  BY ActiveAtFirst
<1>2. ActiveInv /\ [Next]_vars => ActiveInv'
  BY ActiveStep
<1> DEFINE Leaves == \A p \in Reporter :
             reporter[p].at = "confirm" /\ reporter'[p].at # "confirm" /\ active' # active
               => Cardinality(active') + others[p] >= Floor
<1>3. ActiveInv /\ [Next]_vars => [Leaves]_vars
  <2> SUFFICES ASSUME ActiveInv, [Next]_vars, NEW p \in Reporter,
                      reporter[p].at = "confirm", reporter'[p].at # "confirm", active' # active
               PROVE  Cardinality(active') + others[p] >= Floor
    OBVIOUS
  <2>1. Confirm(p)
    BY WhoDisables
  <2> DEFINE r == Head(reporter[p].todo)
  <2>2. active' = active \ {r}
    BY <2>1 DEF Confirm, Disable, Deactivate, choice
  <2> HIDE DEF r
  <2>3. IsFiniteSet(active) /\ Cardinality(active) \in Nat
    BY SetsFinite DEF ActiveInv, ActiveType
  <2>4. Cardinality(active') = Cardinality(active) - 1
    BY <2>2, <2>3, FS_RemoveElement
  <2>5. Cardinality(active) + others[p] > Floor /\ others[p] \in Nat
    BY DEF Confirming, ActiveInv, ConfirmersSpared
  <2> QED
    BY <2>3, <2>4, <2>5, FloorType
<1>4. QED
  BY <1>1, <1>2, <1>3, PTL DEF Spec, LastActive

-----------------------------------------------------------------------------
(* The lists and the routes *)

Listed == Finite /\ Rejected \in Resolver /\ Threshold \in Nat \ {0}

(* Whoever has something to report has a resolver at the head of its list. *)
ReporterState ==
  {v \in [at : {"idle", "report", "confirm", "retract", "health", "recheck"}, todo : Seq(Resolver)] :
     v.at \in {"report", "confirm", "retract"} => v.todo # <<>>}
ReporterType == reporter \in [Reporter -> ReporterState]

HealthType ==
  /\ healthRR \in 0 .. RRCycle - 1 /\ recent \subseteq Resolver /\ batch \subseteq Resolver
  /\ wire \subseteq Key /\ answers \subseteq Resolver /\ others \in [Reporter -> Nat]

(* The inactive list has the resolvers that are not active, each one once. *)
ListsInv ==
  /\ active \subseteq Resolver /\ inactive \in Seq(Resolver)
  /\ \A i, j \in 1 .. Len(inactive) : inactive[i] = inactive[j] => i = j
  /\ \A r \in Resolver : r \notin active <=> \E i \in 1 .. Len(inactive) : inactive[i] = r
  /\ Len(inactive) = Cardinality(Resolver \ active)

RouteInv ==
  /\ route \in [Stream -> [on : BOOLEAN, preferred : Resolver \cup {NoResolver}, streak : 0 .. Threshold - 1]]
  /\ \A s \in Stream : route[s].preferred \in active \cup {NoResolver}

PreferInv == TableInv /\ WindowType /\ ReporterType /\ HealthType /\ ListsInv /\ RouteInv

LEMMA InactiveFinite ==
  ASSUME Finite PROVE IsFiniteSet(Resolver \ active) /\ Cardinality(Resolver \ active) \in Nat
BY FS_Subset, FS_CardinalityType DEF Finite

LEMMA InactiveFacts ==
  ASSUME ListsInv
  PROVE  /\ Len(inactive) \in Nat /\ DOMAIN inactive = 1 .. Len(inactive)
         /\ inactive \in [1 .. Len(inactive) -> Resolver]
         /\ \A i \in 1 .. Len(inactive) : inactive[i] \in Resolver
BY LenProperties, ElementOfSeq DEF ListsInv

(* moveConnectionStateLocked, when a resolver is disabled.                 *)
LEMMA DeactivateLists ==
  ASSUME Finite, ListsInv, NEW r \in active, Deactivate(r) PROVE ListsInv'
<1> DEFINE n == Len(inactive)
<1>1. r \in Resolver /\ active' = active \ {r} /\ inactive' = Append(inactive, r)
  BY DEF Deactivate, ListsInv
<1>2. n \in Nat
  BY InactiveFacts
<1>3. /\ inactive' \in Seq(Resolver) /\ Len(inactive') = n + 1 /\ inactive'[n + 1] = r
      /\ \A i \in 1 .. n : inactive'[i] = inactive[i]
  <2>1. inactive \in Seq(Resolver)
    BY DEF ListsInv
  <2> QED
    BY <1>1, <1>2, <2>1, AppendProperties
<1>4. /\ \A i \in 1 .. n : inactive[i] # r /\ inactive[i] \in Resolver
      /\ \A i, j \in 1 .. n : inactive[i] = inactive[j] => i = j
      /\ \A q \in Resolver : q \notin active <=> \E i \in 1 .. n : inactive[i] = q
  BY InactiveFacts DEF ListsInv
<1>5. Len(inactive') = Cardinality(Resolver \ active')
  <2>1. Resolver \ active' = (Resolver \ active) \cup {r} /\ r \notin Resolver \ active
    BY <1>1 DEF ListsInv
  <2>2. Cardinality(Resolver \ active') = Cardinality(Resolver \ active) + 1
    BY <2>1, InactiveFinite, FS_AddElement
  <2>3. n = Cardinality(Resolver \ active)
    BY DEF ListsInv
  <2> QED
    BY <1>3, <2>2, <2>3
<1> HIDE DEF n
<1>6. 1 .. n + 1 = 1 .. n \cup {n + 1} /\ n + 1 \notin 1 .. n
  BY <1>2
<1>7. \A i, j \in 1 .. n + 1 : inactive'[i] = inactive'[j] => i = j
  BY <1>3, <1>4, <1>6
<1>8. \A q \in Resolver : q \notin active' <=> \E i \in 1 .. n + 1 : inactive'[i] = q
  BY <1>1, <1>3, <1>4, <1>6
<1> QED
  BY <1>1, <1>3, <1>5, <1>7, <1>8 DEF ListsInv

(* and when it is taken back: the last element fills the gap.              *)
LEMMA ActivateLists ==
  ASSUME Finite, ListsInv, NEW r \in Resolver \ active, Activate(r) PROVE ListsInv'
<1> DEFINE n == Len(inactive)
           gap(i) == IF inactive[i] = r THEN inactive[n] ELSE inactive[i]
<1>1. active' = active \cup {r} /\ inactive' = [i \in 1 .. n - 1 |-> gap(i)]
  BY DEF Activate
<1>2. n \in Nat
  BY InactiveFacts
<1>3. /\ \A i \in 1 .. n : inactive[i] \in Resolver
      /\ \A i, j \in 1 .. n : inactive[i] = inactive[j] => i = j
      /\ \A q \in Resolver : q \notin active <=> \E i \in 1 .. n : inactive[i] = q
  BY InactiveFacts DEF ListsInv
<1>4. PICK g \in 1 .. n : inactive[g] = r
  BY <1>3
<1>5. Len(inactive) = Cardinality(Resolver \ active)
  BY DEF ListsInv
<1> HIDE DEF n
<1>6. n \in 1 .. n /\ 1 .. n = 1 .. n - 1 \cup {n} /\ n \notin 1 .. n - 1 /\ n - 1 \in Nat
  BY <1>2, <1>4
<1>7. \A i \in 1 .. n - 1 : gap(i) \in Resolver /\ inactive'[i] = gap(i)
  BY <1>1, <1>3, <1>6
<1>8. inactive' \in Seq(Resolver) /\ Len(inactive') = n - 1
  <2>1. inactive' \in [1 .. n - 1 -> Resolver]
    BY <1>1, <1>7
  <2> HIDE DEF gap
  <2> QED
    BY <1>6, <2>1, SeqDef, LenProperties
<1>9. \A i, j \in 1 .. n - 1 : inactive'[i] = inactive'[j] => i = j
  BY <1>3, <1>6, <1>7
<1>10. \A q \in Resolver : q \notin active' <=> \E i \in 1 .. n - 1 : inactive'[i] = q
  <2> SUFFICES ASSUME NEW q \in Resolver
               PROVE  q \notin active' <=> \E i \in 1 .. n - 1 : inactive'[i] = q
    OBVIOUS
  <2>1. ASSUME q \notin active' PROVE \E i \in 1 .. n - 1 : inactive'[i] = q
    <3>1. PICK i \in 1 .. n : inactive[i] = q /\ q # r
      BY <1>1, <1>3, <2>1
    <3>2. CASE i = n
      <4>1. g \in 1 .. n - 1 /\ gap(g) = q
        BY <1>4, <1>6, <3>1, <3>2
      <4> QED
        BY <1>7, <4>1
    <3>3. CASE i # n
      BY <1>6, <1>7, <3>1, <3>3
    <3> QED
      BY <3>2, <3>3
  <2>2. ASSUME NEW i \in 1 .. n - 1, inactive'[i] = q PROVE q \notin active'
    <3>1. q = gap(i) /\ i \in 1 .. n /\ i # n
      BY <1>6, <1>7, <2>2
    <3>2. q # r /\ \E j \in 1 .. n : inactive[j] = q
      BY <1>3, <1>4, <1>6, <3>1
    <3> QED
      BY <1>1, <1>3, <3>2
  <2> QED
    BY <2>1, <2>2
<1>11. Len(inactive') = Cardinality(Resolver \ active')
  <2>1. Resolver \ active' = (Resolver \ active) \ {r} /\ r \in Resolver \ active
    BY <1>1
  <2>2. Cardinality(Resolver \ active') = Cardinality(Resolver \ active) - 1
    BY <2>1, InactiveFinite, FS_RemoveElement
  <2> QED
    BY <1>5, <1>8, <2>2 DEF n
<1>12. active' \subseteq Resolver
  BY <1>1 DEF ListsInv
<1> QED
  BY <1>8, <1>9, <1>10, <1>11, <1>12 DEF ListsInv

LEMMA ListsStep == ASSUME Finite, PreferInv, [Next]_vars PROVE ListsInv'
<1>1. CASE UNCHANGED <<active, inactive>>
  BY <1>1 DEF PreferInv, ListsInv
<1>2. CASE \E p \in Reporter : Confirm(p)
  <2>1. PICK p \in Reporter : Confirm(p)
    BY <1>2
  <2>2. UNCHANGED <<active, inactive>> \/ \E r \in active : Deactivate(r)
    BY <2>1 DEF Confirm, Disable, choice
  <2> QED
    BY <1>1, <2>2, DeactivateLists DEF PreferInv
<1>3. CASE \E r \in Resolver : Recheck(r)
  <2>1. PICK r \in Resolver : Recheck(r)
    BY <1>3
  <2>2. UNCHANGED <<active, inactive>> \/ (r \notin active /\ Activate(r))
    BY <2>1 DEF Recheck
  <2> QED
    BY <1>1, <2>2, ActivateLists DEF PreferInv
<1>4. CASE \E w \in Writer : (\E k \in Key : Write(w, k)) \/ Register(w) \/ Count(w)
  BY <1>1, <1>4 DEF Write, Register, Count, choice
<1>5. CASE \E p \in Processor : Retract(p) \/ \E k \in Key, failed \in BOOLEAN : Answer(p, k, failed)
  BY <1>1, <1>5 DEF Answer, Retract, choice
<1>6. CASE (\E p \in Reporter : Report(p)) \/ Sweep \/ Select \/ \E long \in BOOLEAN : Rest(long)
  BY <1>1, <1>6 DEF Report, Sweep, Select, Rest, choice
<1>7. CASE \/ \E r \in Resolver : ComeBack(r)
           \/ \E s \in Stream : \/ EnsureStream(s) \/ CleanupStream(s) \/ NoteStreamProgress(s)
                                \/ \E resend \in BOOLEAN : SelectTargets(s, resend)
  BY <1>1, <1>7 DEF ComeBack, EnsureStream, CleanupStream, NoteStreamProgress, SelectTargets, choice
<1>8. CASE UNCHANGED vars
  BY <1>1, <1>8 DEF vars
<1> QED
  BY <1>2, <1>3, <1>4, <1>5, <1>6, <1>7, <1>8 DEF Next

(* The routes: whoever disables a resolver takes it from every stream.     *)
LEMMA RouteStep == ASSUME Listed, PreferInv, [Next]_vars PROVE RouteInv'
<1>0. Threshold - 1 \in Nat /\ 0 \in 0 .. Threshold - 1
  BY DEF Listed
<1>1. CASE UNCHANGED route /\ active \subseteq active'
  BY <1>1 DEF PreferInv, RouteInv
<1>2. CASE \E p \in Reporter : Confirm(p)
  <2>1. PICK p \in Reporter : Confirm(p)
    BY <1>2
  <2>2. UNCHANGED <<active, route>> \/ \E r \in active : active' = active \ {r} /\ Forget(r)
    BY <2>1 DEF Confirm, Disable, Deactivate, choice
  <2>3. ASSUME NEW r \in active, active' = active \ {r}, Forget(r) PROVE RouteInv'
    <3> DEFINE v(s) == IF route[s].preferred = r THEN [route[s] EXCEPT !.preferred = NoResolver, !.streak = 0] ELSE route[s]
    <3>1. \A s \in Stream : /\ v(s) \in [on : BOOLEAN, preferred : Resolver \cup {NoResolver}, streak : 0 .. Threshold - 1]
                            /\ v(s).preferred \in (active \ {r}) \cup {NoResolver}
      <4> SUFFICES ASSUME NEW s \in Stream
                   PROVE  /\ v(s) \in [on : BOOLEAN, preferred : Resolver \cup {NoResolver}, streak : 0 .. Threshold - 1]
                          /\ v(s).preferred \in (active \ {r}) \cup {NoResolver}
        OBVIOUS
      <4>1. /\ route[s] \in [on : BOOLEAN, preferred : Resolver \cup {NoResolver}, streak : 0 .. Threshold - 1]
            /\ route[s].preferred \in active \cup {NoResolver}
        BY DEF PreferInv, RouteInv
      <4> QED
        BY <1>0, <4>1
    <3>2. route' = [s \in Stream |-> v(s)]
      BY <2>3 DEF Forget
    <3> HIDE DEF v
    <3> QED
      BY <2>3, <3>1, <3>2 DEF RouteInv
  <2> QED
    BY <1>1, <2>2, <2>3
<1>3. CASE \E s \in Stream : \/ EnsureStream(s) \/ CleanupStream(s) \/ NoteStreamProgress(s)
                             \/ \E resend \in BOOLEAN : SelectTargets(s, resend)
  <2> DEFINE Routes == [on : BOOLEAN, preferred : Resolver \cup {NoResolver}, streak : 0 .. Threshold - 1]
  <2>1. PICK s \in Stream : \/ EnsureStream(s) \/ CleanupStream(s) \/ NoteStreamProgress(s)
                            \/ \E resend \in BOOLEAN : SelectTargets(s, resend)
    BY <1>3
  <2>2. route[s] \in Routes /\ route[s].preferred \in active \cup {NoResolver} /\ active \subseteq Resolver
    BY DEF PreferInv, RouteInv, ListsInv
  <2>3. active' = active
    BY <2>1 DEF EnsureStream, CleanupStream, NoteStreamProgress, SelectTargets
  <2>4. ASSUME NEW v \in Routes, v.preferred \in active \cup {NoResolver}, route' = [route EXCEPT ![s] = v]
        PROVE  RouteInv'
    <3> HIDE DEF Routes
    <3>1. route \in [Stream -> Routes] /\ \A t \in Stream : route[t].preferred \in active \cup {NoResolver}
      BY DEF PreferInv, RouteInv, Routes
    <3>2. route' \in [Stream -> Routes] /\ \A t \in Stream : route'[t].preferred \in active \cup {NoResolver}
      BY <2>4, <3>1
    <3> QED
      BY <2>3, <3>2 DEF RouteInv, Routes
  <2>5. CASE EnsureStream(s)
    <3>1. [route[s] EXCEPT !.on = TRUE] \in Routes /\ [route[s] EXCEPT !.on = TRUE].preferred = route[s].preferred
      BY <2>2
    <3> QED
      BY <2>2, <2>4, <2>5, <3>1 DEF EnsureStream
  <2>6. CASE CleanupStream(s)
    <3>1. NoRoute \in Routes /\ NoRoute.preferred = NoResolver
      BY <1>0 DEF NoRoute
    <3> QED
      BY <2>4, <2>6, <3>1 DEF CleanupStream
  <2>7. CASE NoteStreamProgress(s)
    <3>1. [route[s] EXCEPT !.streak = 0] \in Routes /\ [route[s] EXCEPT !.streak = 0].preferred = route[s].preferred
      BY <1>0, <2>2
    <3> QED
      BY <2>2, <2>4, <2>7, <3>1 DEF NoteStreamProgress
  <2>8. ASSUME NEW resend \in BOOLEAN, SelectTargets(s, resend) PROVE RouteInv'
    <3> DEFINE streak == IF resend /\ route[s].streak < Threshold - 1 THEN route[s].streak + 1 ELSE route[s].streak
    <3>1. \/ route' = [route EXCEPT ![s].streak = streak]
          \/ \E r \in active : route' = [route EXCEPT ![s].preferred = r, ![s].streak = 0]
      BY <2>8 DEF SelectTargets
    <3>2. streak \in 0 .. Threshold - 1
      BY <1>0, <2>2
    <3> HIDE DEF streak
    <3>3. [route[s] EXCEPT !.streak = streak] \in Routes /\ [route[s] EXCEPT !.streak = streak].preferred = route[s].preferred
      BY <2>2, <3>2
    <3>4. \A r \in active : /\ [route[s] EXCEPT !.preferred = r, !.streak = 0] \in Routes
                            /\ [route[s] EXCEPT !.preferred = r, !.streak = 0].preferred = r
      BY <1>0, <2>2
    <3>5. CASE route' = [route EXCEPT ![s].streak = streak]
      BY <2>2, <2>4, <3>3, <3>5
    <3>6. ASSUME NEW r \in active, route' = [route EXCEPT ![s].preferred = r, ![s].streak = 0] PROVE RouteInv'
      <4>1. route' = [route EXCEPT ![s] = [route[s] EXCEPT !.preferred = r, !.streak = 0]]
        BY <3>6
      <4> QED
        BY <2>4, <3>4, <4>1
    <3> QED
      BY <3>1, <3>5, <3>6
  <2> QED
    BY <2>1, <2>5, <2>6, <2>7, <2>8
<1>4. CASE \E r \in Resolver : Recheck(r)
  BY <1>1, <1>4 DEF Recheck, Activate
<1>5. CASE \E w \in Writer : (\E k \in Key : Write(w, k)) \/ Register(w) \/ Count(w)
  BY <1>1, <1>5 DEF Write, Register, Count, choice
<1>6. CASE \E p \in Processor : Retract(p) \/ \E k \in Key, failed \in BOOLEAN : Answer(p, k, failed)
  BY <1>1, <1>6 DEF Answer, Retract, choice
<1>7. CASE (\E p \in Reporter : Report(p)) \/ Sweep \/ Select \/ \E long \in BOOLEAN : Rest(long)
  BY <1>1, <1>7 DEF Report, Sweep, Select, Rest, choice
<1>8. CASE \E r \in Resolver : ComeBack(r)
  BY <1>1, <1>8 DEF ComeBack, choice
<1>9. CASE UNCHANGED vars
  BY <1>1, <1>9 DEF vars
<1> QED
  BY <1>2, <1>3, <1>4, <1>5, <1>6, <1>7, <1>8, <1>9 DEF Next

LEMMA WindowStep == ASSUME PreferInv, [Next]_vars PROVE WindowType'
<1>1. CASE UNCHANGED window
  BY <1>1 DEF PreferInv, WindowType
<1>2. CASE \E r : window' = [window EXCEPT ![r] = Empty]
  <2>1. PICK r : window' = [window EXCEPT ![r] = Empty]
    BY <1>2
  <2>2. Empty \in [sent : Nat, lost : Nat]
    BY DEF Empty
  <2> QED
    BY <2>1, <2>2 DEF PreferInv, WindowType
<1>3. CASE \E w \in Writer : Count(w)
  BY <1>3, CountedWindow DEF Count, PreferInv, WindowType
<1>4. CASE \E p \in Reporter : Report(p)
  <2>1. PICK p \in Reporter : Report(p)
    BY <1>4
  <2> DEFINE r == Head(reporter[p].todo)
  <2>2. PICK ended \in BOOLEAN : window' = Counted(r, "lost", ended)
    BY <2>1 DEF Report
  <2> HIDE DEF r
  <2> QED
    BY <2>2, CountedWindow DEF PreferInv, WindowType
<1>5. CASE \E p \in Processor : Retract(p)
  <2>1. PICK p \in Processor : Retract(p)
    BY <1>5
  <2> DEFINE r == Head(reporter[p].todo)
  <2>2. \/ window' = [window EXCEPT ![r] = Empty]
        \/ window' = [window EXCEPT ![r].lost = IF @ = 0 THEN 0 ELSE @ - 1]
    BY <2>1 DEF Retract
  <2> HIDE DEF r
  <2>3. ASSUME r \in Resolver
        PROVE  [window[r] EXCEPT !.lost = IF @ = 0 THEN 0 ELSE @ - 1] \in [sent : Nat, lost : Nat]
    BY <2>3 DEF PreferInv, WindowType
  <2> QED
    BY <1>2, <2>2, <2>3 DEF PreferInv, WindowType
<1>6. CASE \E p \in Reporter : Confirm(p)
  BY <1>1, <1>2, <1>6 DEF Confirm, Disable, ResetWindow, choice
<1>7. CASE \E r \in Resolver : Recheck(r)
  BY <1>1, <1>2, <1>7 DEF Recheck, ResetWindow
<1>8. CASE \E w \in Writer : (\E k \in Key : Write(w, k)) \/ Register(w)
  BY <1>1, <1>8 DEF Write, Register, choice
<1>9. CASE \/ \E p \in Processor, k \in Key, failed \in BOOLEAN : Answer(p, k, failed)
           \/ Sweep \/ Select \/ \E long \in BOOLEAN : Rest(long)
  BY <1>1, <1>9 DEF Answer, Sweep, Select, Rest, choice
<1>10. CASE \/ \E r \in Resolver : ComeBack(r)
            \/ \E s \in Stream : \/ EnsureStream(s) \/ CleanupStream(s) \/ NoteStreamProgress(s)
                                 \/ \E resend \in BOOLEAN : SelectTargets(s, resend)
  BY <1>1, <1>10 DEF ComeBack, EnsureStream, CleanupStream, NoteStreamProgress, SelectTargets, choice
<1>11. CASE UNCHANGED vars
  BY <1>1, <1>11 DEF vars
<1> QED
  BY <1>3, <1>4, <1>5, <1>6, <1>7, <1>8, <1>9, <1>10, <1>11 DEF Next

LEMMA IdleTyped == Idle \in ReporterState
BY EmptySeq DEF Idle, ReporterState

LEMMA ContinueTyped ==
  ASSUME ReporterType, NEW p \in Reporter, reporter[p].at \in {"report", "confirm"}
  PROVE  Continue(p) \in ReporterState
<1> DEFINE rest == Tail(reporter[p].todo)
<1>1. reporter[p].todo \in Seq(Resolver) /\ reporter[p].todo # <<>>
  BY DEF ReporterType, ReporterState
<1>2. rest \in Seq(Resolver)
  BY <1>1, HeadTailProperties
<1> HIDE DEF rest
<1>3. Continue(p) = [at |-> IF rest # <<>> THEN "report" ELSE IF p = Health THEN "health" ELSE "idle", todo |-> rest]
  BY DEF Continue, rest
<1> QED
  BY <1>2, <1>3 DEF ReporterState

LEMMA KeySeq == ASSUME Finite, NEW k \in Key PROVE k[1] \in Resolver /\ <<k[1]>> \in Seq(Resolver) /\ <<k[1]>> # <<>>
<1>1. k[1] \in Resolver
  BY DEF Key, Finite
<1>2. \A x \in Resolver : <<x>> \in Seq(Resolver) /\ <<x>> # <<>>
  OBVIOUS
<1> QED
  BY <1>1, <1>2

LEMMA SweepReporter ==
  ASSUME Finite, PreferInv, Sweep
  PROVE  \E v \in ReporterState : reporter' = [reporter EXCEPT ![Health] = v]
<1>1. PICK late \in SUBSET {k \in Key : pending[k] = "sent"} : \E order \in Orders(late) :
        reporter' = [reporter EXCEPT ![Health] =
          [at |-> IF late = {} THEN "health" ELSE "report", todo |-> [i \in DOMAIN order |-> order[i][1]]]]
  BY Zenon DEF Sweep
<1>2. PICK order \in Orders(late) :
        reporter' = [reporter EXCEPT ![Health] =
          [at |-> IF late = {} THEN "health" ELSE "report", todo |-> [i \in DOMAIN order |-> order[i][1]]]]
  BY <1>1
<1> DEFINE n == Cardinality(late)
           todo == [i \in DOMAIN order |-> order[i][1]]
<1>3. IsFiniteSet(late) /\ n \in Nat /\ (n = 0 <=> late = {}) /\ late \subseteq Key
  BY KeyFinite, FS_Subset, FS_CardinalityType, FS_EmptySet
<1>4. order \in [1 .. n -> late]
  BY DEF Orders
<1>5. todo \in [1 .. n -> Resolver]
  BY <1>3, <1>4, KeySeq
<1> HIDE DEF n, todo
<1>6. todo \in Seq(Resolver) /\ Len(todo) = n
  BY <1>3, <1>5, SeqDef, LenProperties
<1>7. late # {} => todo # <<>>
  BY <1>3, <1>6, EmptySeq
<1>8. [at |-> IF late = {} THEN "health" ELSE "report", todo |-> todo] \in ReporterState
  BY <1>6, <1>7 DEF ReporterState
<1> QED
  BY <1>2, <1>8 DEF todo

LEMMA ReporterStep == ASSUME Finite, PreferInv, [Next]_vars PROVE ReporterType'
<1>0. reporter \in [Reporter -> ReporterState] /\ Health \in Reporter /\ Processor \subseteq Reporter
  BY DEF PreferInv, ReporterType, Reporter
<1>1. CASE UNCHANGED reporter
  BY <1>0, <1>1 DEF ReporterType
<1>2. CASE \E p \in Reporter, v \in ReporterState : reporter' = [reporter EXCEPT ![p] = v]
  BY <1>0, <1>2 DEF ReporterType
<1>3. CASE \E p \in Processor, k \in Key, failed \in BOOLEAN : Answer(p, k, failed)
  <2>1. PICK p \in Processor, k \in Key, failed \in BOOLEAN : Answer(p, k, failed)
    BY <1>3
  <2> DEFINE v == CASE ~failed /\ pending[k] = "late" -> [at |-> "retract", todo |-> <<k[1]>>]
                    [] failed /\ pending[k] = "sent"  -> [at |-> "report", todo |-> <<k[1]>>]
                    [] OTHER -> Idle
  <2>2. [at |-> "retract", todo |-> <<k[1]>>] \in ReporterState /\ [at |-> "report", todo |-> <<k[1]>>] \in ReporterState
    BY KeySeq DEF ReporterState
  <2>3. v \in ReporterState
    BY <2>2, IdleTyped
  <2>4. reporter' = [reporter EXCEPT ![p] = v]
    BY <2>1 DEF Answer
  <2> QED
    BY <1>0, <1>2, <2>3, <2>4
<1>4. CASE \E p \in Reporter : Report(p) \/ Confirm(p)
  <2>1. PICK p \in Reporter : Report(p) \/ Confirm(p)
    BY <1>4
  <2>2. reporter[p].at \in {"report", "confirm"}
    BY <2>1 DEF Report, Confirm
  <2>3. Continue(p) \in ReporterState
    BY <2>2, ContinueTyped DEF PreferInv
  <2>4. [reporter[p] EXCEPT !.at = "confirm"] \in ReporterState
    BY <1>0, <2>2 DEF ReporterState
  <2>5. \/ reporter' = [reporter EXCEPT ![p] = [reporter[p] EXCEPT !.at = "confirm"]]
        \/ reporter' = [reporter EXCEPT ![p] = Continue(p)]
    BY <2>1 DEF Report, Confirm
  <2> QED
    BY <1>2, <2>3, <2>4, <2>5
<1>5. CASE \E p \in Processor : Retract(p)
  BY <1>0, <1>2, <1>5, IdleTyped DEF Retract
<1>6. CASE Sweep
  BY <1>0, <1>2, <1>6, SweepReporter
<1>7. CASE Select
  <2>1. [reporter[Health] EXCEPT !.at = "recheck"] \in ReporterState
    BY <1>0 DEF ReporterState
  <2>2. UNCHANGED reporter \/ reporter' = [reporter EXCEPT ![Health] = [reporter[Health] EXCEPT !.at = "recheck"]]
    BY <1>7 DEF Select
  <2> QED
    BY <1>0, <1>1, <1>2, <2>1, <2>2
<1>8. CASE \E long \in BOOLEAN : Rest(long)
  BY <1>0, <1>2, <1>8, IdleTyped DEF Rest
<1>9. CASE \E r \in Resolver : Recheck(r) \/ ComeBack(r)
  BY <1>1, <1>9 DEF Recheck, ComeBack
<1>10. CASE \E w \in Writer : (\E k \in Key : Write(w, k)) \/ Register(w) \/ Count(w)
  BY <1>1, <1>10 DEF Write, Register, Count
<1>11. CASE \E s \in Stream : \/ EnsureStream(s) \/ CleanupStream(s) \/ NoteStreamProgress(s)
                              \/ \E resend \in BOOLEAN : SelectTargets(s, resend)
  BY <1>1, <1>11 DEF EnsureStream, CleanupStream, NoteStreamProgress, SelectTargets
<1>12. CASE UNCHANGED vars
  BY <1>1, <1>12 DEF vars
<1> QED
  BY <1>3, <1>4, <1>5, <1>6, <1>7, <1>8, <1>9, <1>10, <1>11, <1>12 DEF Next

LEMMA FirstDueListed == ASSUME PreferInv PROVE FirstDue \subseteq Resolver
<1> SUFFICES ASSUME NEW i \in 1 .. Len(inactive) PROVE InTurn(i) \in Resolver
  BY DEF FirstDue
<1> DEFINE n == Len(inactive)
<1>1. n \in Nat /\ healthRR \in Nat /\ \A j \in 1 .. n : inactive[j] \in Resolver
  BY InactiveFacts DEF PreferInv, HealthType, RRCycle
<1>2. InTurn(i) = inactive[((healthRR + i - 1) % n) + 1]
  BY DEF InTurn
<1> HIDE DEF n
<1>3. i \in 1 .. n
  BY DEF n
<1>4. ((healthRR + i - 1) % n) + 1 \in 1 .. n
  BY <1>1, <1>3
<1> QED
  BY <1>1, <1>2, <1>4

LEMMA HealthStep == ASSUME Finite, PreferInv, [Next]_vars PROVE HealthType'
<1>0. HealthType
  BY DEF PreferInv
<1>1. CASE UNCHANGED <<health, wire, answers, others>>
  BY <1>0, <1>1 DEF HealthType, health
<1>2. CASE \E w \in Writer, k \in Key : Write(w, k)
  BY <1>0, <1>2 DEF HealthType, Write, health, world
<1>3. CASE \E p \in Processor, k \in Key, failed \in BOOLEAN : Answer(p, k, failed)
  BY <1>0, <1>3 DEF HealthType, Answer, health, world
<1>4. CASE Select
  <2>1. healthRR' \in 0 .. RRCycle - 1
    BY <1>0, <1>4 DEF Select, HealthType, RRCycle
  <2>2. recent' \subseteq Resolver /\ batch' \subseteq Resolver
    BY <1>0, <1>4, FirstDueListed DEF Select, HealthType
  <2> QED
    BY <1>0, <1>4, <2>1, <2>2 DEF Select, HealthType, world
<1>5. CASE \E r \in Resolver : Recheck(r) \/ ComeBack(r)
  BY <1>0, <1>5 DEF HealthType, Recheck, ComeBack, health, world
<1>6. CASE \E long \in BOOLEAN : Rest(long)
  BY <1>0, <1>6 DEF HealthType, Rest, health, world
<1>7. CASE \E w \in Writer : Register(w) \/ Count(w)
  BY <1>1, <1>7 DEF Register, Count, world
<1>8. CASE (\E p \in Processor : Retract(p)) \/ (\E p \in Reporter : Report(p)) \/ Sweep
  BY <1>1, <1>8 DEF Retract, Report, Sweep, world
<1>11. CASE \E p \in Reporter : Confirm(p)
  <2>1. others' \in [Reporter -> Nat]
    BY <1>0, <1>11 DEF HealthType, Confirm
  <2> QED
    BY <1>0, <1>11, <2>1 DEF HealthType, Confirm, health
<1>9. CASE \E s \in Stream : \/ EnsureStream(s) \/ CleanupStream(s) \/ NoteStreamProgress(s)
                             \/ \E resend \in BOOLEAN : SelectTargets(s, resend)
  BY <1>1, <1>9 DEF EnsureStream, CleanupStream, NoteStreamProgress, SelectTargets, world
<1>10. CASE UNCHANGED vars
  BY <1>1, <1>10 DEF vars, health
<1> QED
  BY <1>2, <1>3, <1>4, <1>5, <1>6, <1>7, <1>8, <1>9, <1>10, <1>11 DEF Next

LEMMA InitPrefer == ASSUME Listed, Init PROVE PreferInv
<1>1. TableInv
  <2>1. Kept = {}
    BY DEF Init, Kept
  <2> QED
    BY <2>1, FS_EmptySet DEF Init, TableInv, SampleType, PendingExact
<1>2. WindowType /\ HealthType
  BY DEF Init, WindowType, HealthType, Empty, RRCycle, Listed
<1>3. ReporterType
  BY IdleTyped DEF Init, ReporterType
<1>4. RouteInv
  <2>1. 0 \in 0 .. Threshold - 1
    BY DEF Listed
  <2> QED
    BY <2>1 DEF Init, RouteInv, NoRoute
<1>5. ListsInv
  <2>1. CASE active = Resolver /\ inactive = <<>>
    <3>1. Resolver \ active = {} /\ Len(inactive) = 0 /\ inactive \in Seq(Resolver)
      BY <2>1, EmptySeq
    <3> QED
      BY <2>1, <3>1, FS_EmptySet DEF ListsInv
  <2>2. CASE active = Resolver \ {Rejected} /\ inactive = <<Rejected>>
    <3>1. Resolver \ active = {Rejected} /\ Rejected \in Resolver
      BY <2>2 DEF Listed
    <3>2. inactive \in Seq(Resolver) /\ Len(inactive) = 1 /\ inactive[1] = Rejected
      BY <2>2, <3>1
    <3>3. \A i \in 1 .. Len(inactive) : i = 1
      BY <3>2
    <3>4. \A q \in Resolver : q \notin active <=> \E i \in 1 .. Len(inactive) : inactive[i] = q
      BY <2>2, <3>1, <3>2, <3>3
    <3> QED
      BY <2>2, <3>1, <3>2, <3>3, <3>4, FS_Singleton DEF ListsInv
  <2> QED
    BY <2>1, <2>2 DEF Init
<1> QED
  BY <1>1, <1>2, <1>3, <1>4, <1>5 DEF PreferInv

(* moveConnectionStateLocked, clearPreferredResolverReferencesLocked: for  *)
(* any number of resolvers, streams and goroutines each resolver is in one *)
(* of the two lists, and no stream prefers one that was disabled.          *)
THEOREM PrefersActive == ASSUME Listed PROVE Spec => []PreferredActive
<1>1. Init => PreferInv
  BY InitPrefer
<1>2. PreferInv /\ [Next]_vars => PreferInv'
  <2> SUFFICES ASSUME PreferInv, [Next]_vars PROVE PreferInv'
    OBVIOUS
  <2>1. TableInv'
    BY TableStep DEF PreferInv, Listed
  <2> QED
    BY <2>1, WindowStep, ReporterStep, HealthStep, ListsStep, RouteStep DEF PreferInv, Listed
<1>3. PreferInv => PreferredActive
  <2> SUFFICES ASSUME PreferInv PROVE PreferredActive
    OBVIOUS
  <2>1. pendingSize \in Int /\ pending \in [Key -> {"none", "sent", "late"}]
    BY KeyFinite, FS_CardinalityType DEF PreferInv, TableInv, SampleType, PendingExact, Listed
  <2>2. {inactive[i] : i \in DOMAIN inactive} = Resolver \ active
    <3>1. /\ DOMAIN inactive = 1 .. Len(inactive) /\ \A i \in 1 .. Len(inactive) : inactive[i] \in Resolver
          /\ \A r \in Resolver : r \notin active <=> \E i \in 1 .. Len(inactive) : inactive[i] = r
      BY InactiveFacts DEF PreferInv, ListsInv
    <3>2. \A i \in DOMAIN inactive : inactive[i] \in Resolver \ active
      BY <3>1
    <3>3. \A r \in Resolver \ active : \E i \in DOMAIN inactive : inactive[i] = r
      BY <3>1
    <3> QED
      BY <3>2, <3>3
  <2>3. \A p \in Reporter : reporter[p].todo \in Seq(Resolver)
    BY DEF PreferInv, ReporterType, ReporterState
  <2> QED
    BY <2>1, <2>2, <2>3 DEF PreferInv, WindowType, HealthType, ListsInv, RouteInv, PreferredActive, TypeOK
<1> QED
  BY <1>1, <1>2, <1>3, PTL DEF Spec
=============================================================================
