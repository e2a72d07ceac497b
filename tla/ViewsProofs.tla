---------------------------- MODULE ViewsProofs ----------------------------
(***************************************************************************)
(* Proofs about what the pages show of the ledger.                         *)
(***************************************************************************)
EXTENDS Views, Induction, FunctionTheorems, SequenceTheorems

-----------------------------------------------------------------------------
(***************************************************************************)
(* Sorted lists.                                                           *)
(***************************************************************************)

\* An order that puts any two elements of S one before the other.
TotalOn(order, S) ==
  /\ \A a \in S : <<a, a>> \notin order
  /\ \A a, b, c \in S : <<a, b>> \in order /\ <<b, c>> \in order => <<a, c>> \in order
  /\ \A a, b \in S : a = b \/ <<a, b>> \in order \/ <<b, a>> \in order

Before(S, order, e) == {d \in S : <<d, e>> \in order}

\* The more come before an element the later it is.
LEMMA RankGrows ==
  ASSUME NEW S, NEW order, IsFiniteSet(S), TotalOn(order, S),
         NEW a \in S, NEW b \in S, <<a, b>> \in order
  PROVE  Cardinality(Before(S, order, a)) < Cardinality(Before(S, order, b))
<1>1. Before(S, order, b) \in SUBSET S /\ Before(S, order, a) \in SUBSET Before(S, order, b)
  BY DEF Before, TotalOn
<1>2. IsFiniteSet(Before(S, order, b)) /\ Cardinality(Before(S, order, b)) \in Nat
  BY <1>1, FS_Subset, FS_CardinalityType
<1>3. a \in Before(S, order, b) /\ a \notin Before(S, order, a)
  BY DEF Before, TotalOn
<1>4. /\ Cardinality(Before(S, order, a)) \in Nat
      /\ Cardinality(Before(S, order, a)) <= Cardinality(Before(S, order, b))
      /\ Cardinality(Before(S, order, a)) # Cardinality(Before(S, order, b))
  BY <1>1, <1>2, <1>3, FS_Subset, FS_CardinalityType
<1>5. QED
  BY <1>2, <1>4

\* For every place there is one element that belongs there.
LEMMA RankBijective ==
  ASSUME NEW S, NEW order, IsFiniteSet(S), TotalOn(order, S)
  PROVE  /\ \A e \in S : Cardinality(Before(S, order, e)) + 1 \in 1..Cardinality(S)
         /\ \A i \in 1..Cardinality(S) :
              \E e \in S : Cardinality(Before(S, order, e)) = i - 1
<1> DEFINE n == Cardinality(S)
           rank == [e \in S |-> Cardinality(Before(S, order, e)) + 1]
<1>1. n \in Nat
  BY FS_CardinalityType
<1>2. ASSUME NEW e \in S
      PROVE  /\ Cardinality(Before(S, order, e)) \in Nat
             /\ Cardinality(Before(S, order, e)) + 1 \in 1..n
  <2>1. Before(S, order, e) \in SUBSET S /\ Before(S, order, e) # S
    BY DEF Before, TotalOn
  <2>2. /\ IsFiniteSet(Before(S, order, e))
        /\ Cardinality(Before(S, order, e)) <= n
        /\ Cardinality(Before(S, order, e)) # n
    BY <2>1, FS_Subset
  <2>3. Cardinality(Before(S, order, e)) \in Nat
    BY <2>2, FS_CardinalityType
  <2>4. QED
    BY <1>1, <2>2, <2>3
<1>3. /\ rank \in [S -> 1..n]
      /\ \A e \in S : rank[e] = Cardinality(Before(S, order, e)) + 1
  BY <1>2
<1> HIDE DEF rank, n
<1>4. ASSUME NEW a \in S, NEW b \in S, rank[a] = rank[b] PROVE a = b
  <2>1. Cardinality(Before(S, order, a)) = Cardinality(Before(S, order, b))
    BY <1>2, <1>3, <1>4
  <2>2. <<a, b>> \notin order
    <3> SUFFICES ASSUME <<a, b>> \in order PROVE FALSE
      OBVIOUS
    <3>1. Cardinality(Before(S, order, a)) < Cardinality(Before(S, order, b))
      BY RankGrows
    <3>2. QED
      BY <1>2, <2>1, <3>1
  <2>3. <<b, a>> \notin order
    <3> SUFFICES ASSUME <<b, a>> \in order PROVE FALSE
      OBVIOUS
    <3>1. Cardinality(Before(S, order, b)) < Cardinality(Before(S, order, a))
      BY RankGrows
    <3>2. QED
      BY <1>2, <2>1, <3>1
  <2>4. QED
    BY <2>2, <2>3 DEF TotalOn
<1>5. rank \in Injection(S, 1..n)
  BY <1>3, <1>4 DEF Injection, IsInjective
<1>6. IsFiniteSet(1..n) /\ Cardinality(1..n) = n
  <2>1. 1 \in Int /\ n \in Int
    BY <1>1
  <2>2. QED
    BY <1>1, <2>1, FS_Interval
<1>7. rank \in Surjection(S, 1..n)
  BY <1>5, <1>6, FS_Injection DEF n
<1>8. \A i \in 1..n : \E e \in S : rank[e] = i
  BY <1>7 DEF Surjection
<1>9. \A i \in 1..n : \E e \in S : Cardinality(Before(S, order, e)) = i - 1
  <2> TAKE i \in 1..n
  <2>1. PICK e \in S : rank[e] = i
    BY <1>8
  <2>2. Cardinality(Before(S, order, e)) = i - 1
    BY <1>1, <1>2, <1>3, <2>1
  <2>3. QED
    BY <2>2
<1>10. QED
  BY <1>2, <1>9 DEF n

\* A sorted list has every element once, the earlier before the later.
LEMMA SortedFacts ==
  ASSUME NEW S, NEW order, IsFiniteSet(S), TotalOn(order, S)
  PROVE  /\ Cardinality(S) \in Nat
         /\ Sorted(S, order) \in [1..Cardinality(S) -> S]
         /\ \A e \in S : \E i \in 1..Cardinality(S) : Sorted(S, order)[i] = e
         /\ \A i, j \in 1..Cardinality(S) :
              i < j => <<Sorted(S, order)[i], Sorted(S, order)[j]>> \in order
<1> DEFINE n == Cardinality(S)
           q == Sorted(S, order)
<1>1. n \in Nat
  BY FS_CardinalityType
<1>2. q = [i \in 1..n |-> CHOOSE e \in S : Cardinality(Before(S, order, e)) = i - 1]
  BY DEF Sorted, Before
<1>3. \A i \in 1..n : q[i] \in S /\ Cardinality(Before(S, order, q[i])) = i - 1
  <2> TAKE i \in 1..n
  <2>1. \E e \in S : Cardinality(Before(S, order, e)) = i - 1
    BY RankBijective
  <2>2. q[i] = CHOOSE e \in S : Cardinality(Before(S, order, e)) = i - 1
    BY <1>2
  <2> HIDE DEF q
  <2>3. QED
    BY <2>1, <2>2
<1>4. q \in [1..n -> S]
  BY <1>2, <1>3
<1> HIDE DEF q
<1>5. \A e \in S : \E i \in 1..n : q[i] = e
  <2> TAKE e \in S
  <2> DEFINE i == Cardinality(Before(S, order, e)) + 1
  <2>1. i \in 1..n
    BY RankBijective
  <2> SUFFICES q[i] = e
    BY <2>1
  <2>2. q[i] \in S /\ Cardinality(Before(S, order, q[i])) = i - 1
    BY <1>3, <2>1
  <2>3. Cardinality(Before(S, order, e)) \in Nat
    <3>1. Before(S, order, e) \in SUBSET S
      BY DEF Before
    <3>2. QED
      BY <3>1, FS_Subset, FS_CardinalityType
  <2>4. Cardinality(Before(S, order, q[i])) = Cardinality(Before(S, order, e))
    BY <2>2, <2>3
  <2> HIDE DEF i
  <2>5. CASE <<e, q[i]>> \in order
    BY <2>2, <2>3, <2>4, <2>5, RankGrows
  <2>6. CASE <<q[i], e>> \in order
    BY <2>2, <2>3, <2>4, <2>6, RankGrows
  <2>7. QED
    BY <2>2, <2>5, <2>6 DEF TotalOn
<1>6. ASSUME NEW i \in 1..n, NEW j \in 1..n, i < j PROVE <<q[i], q[j]>> \in order
  <2>1. q[i] \in S /\ Cardinality(Before(S, order, q[i])) = i - 1
    BY <1>3
  <2>2. q[j] \in S /\ Cardinality(Before(S, order, q[j])) = j - 1
    BY <1>3
  <2>3. q[i] # q[j]
    BY <1>1, <1>6, <2>1, <2>2
  <2>4. <<q[j], q[i]>> \notin order
    <3> SUFFICES ASSUME <<q[j], q[i]>> \in order PROVE FALSE
      OBVIOUS
    <3>1. Cardinality(Before(S, order, q[j])) < Cardinality(Before(S, order, q[i]))
      BY <2>1, <2>2, RankGrows
    <3>2. QED
      BY <1>1, <1>6, <2>1, <2>2, <3>1
  <2>5. QED
    BY <2>1, <2>2, <2>3, <2>4 DEF TotalOn
<1>7. QED
  BY <1>1, <1>4, <1>5, <1>6 DEF q

\* Numbers are in order.
LEMMA NumbersTotal ==
  ASSUME NEW S \in SUBSET Nat
  PROVE  TotalOn(Ascending(S), S)
<1>1. \A a, b \in S : <<a, b>> \in Ascending(S) <=> a < b
  BY DEF Ascending
<1>2. QED
  BY <1>1 DEF TotalOn

\* A proper subset of a finite set is smaller.
LEMMA SmallerSubset ==
  ASSUME NEW S, NEW T, IsFiniteSet(T), S \subseteq T, S # T
  PROVE  Cardinality(S) \in Nat /\ Cardinality(T) \in Nat /\ Cardinality(S) < Cardinality(T)
<1>1. S \in SUBSET T
  OBVIOUS
<1>2. IsFiniteSet(S) /\ Cardinality(S) <= Cardinality(T) /\ Cardinality(S) # Cardinality(T)
  BY <1>1, FS_Subset
<1>3. QED
  BY <1>2, FS_CardinalityType

-----------------------------------------------------------------------------
(***************************************************************************)
(* Privacy.                                                                *)
(***************************************************************************)

PrivacySpec == PrivacyInit /\ [][PrivacyNext]_privacyVars

EventSound(n) ==
  LET e == executed[n]
  IN /\ e.parent < n
     /\ e.parent # 0 => executed[e.parent].type = "exercised"
     /\ e.type = "created" =>
          e.informees = e.signatories \cup e.observers /\ e.actingParties = {}
     /\ e.type = "exercised" =>
          e.signatories = {} /\ e.observers = {} /\ e.actingParties \subseteq e.informees

LedgerSound ==
  /\ executed \in Seq(LedgerEvent) /\ Len(executed) <= MaxPrivateEvents
  /\ \A n \in DOMAIN executed : EventSound(n)

NotFound == [NotAnalyzed EXCEPT !.step = "notFound"]

AnalysisSound ==
  privacy \in {NotAnalyzed, NotFound} \cup {AnalysisOf(r) : r \in SUBSET Parties}

PrivacyInv == LedgerSound /\ AnalysisSound

LEMMA ExecutedFacts ==
  ASSUME LedgerSound
  PROVE  /\ Len(executed) \in Nat /\ DOMAIN executed = 1..Len(executed)
         /\ \A n \in DOMAIN executed : executed[n] \in LedgerEvent /\ n \in Nat \ {0}
<1>1. executed \in Seq(LedgerEvent)
  BY DEF LedgerSound
<1>2. Len(executed) \in Nat /\ DOMAIN executed = 1..Len(executed)
  BY <1>1, LenProperties
<1>3. QED
  BY <1>1, <1>2, ElementOfSeq

\* What is above an event: exercises, and what is above them.
LEMMA LineageFacts ==
  ASSUME LedgerSound, NEW n \in DOMAIN executed
  PROVE  /\ n \in Lineage(n) /\ Lineage(n) \subseteq 1..n
         /\ \A i \in Lineage(n) : Lineage(i) \subseteq Lineage(n)
         /\ \A i \in Lineage(n) \ {n} : i < n /\ executed[i].type = "exercised"
<1>1. /\ Len(executed) \in Nat /\ DOMAIN executed = 1..Len(executed)
      /\ \A k \in DOMAIN executed : executed[k] \in LedgerEvent /\ k \in Nat \ {0}
  BY ExecutedFacts
<1> DEFINE Closed(A, m) == m \in A /\ \A j \in A : executed[j].parent \in A \cup {0}
<1>2. \A m : Lineage(m) = {i \in 1..m : \A A \in SUBSET (1..m) : Closed(A, m) => i \in A}
  BY DEF Lineage
<1>3. n \in 1..n /\ 1..n \subseteq DOMAIN executed
  BY <1>1
<1>4. n \in Lineage(n) /\ Lineage(n) \subseteq 1..n
  BY <1>2, <1>3
<1>5. ASSUME NEW i \in Lineage(n) PROVE Lineage(i) \subseteq Lineage(n)
  <2>1. i \in 1..n /\ i \in Nat
    BY <1>1, <1>3, <1>4
  <2>0. Lineage(i) \subseteq 1..n
    <3>1. Lineage(i) \subseteq 1..i
      BY <1>2
    <3>2. QED
      BY <1>1, <2>1, <3>1
  <2> SUFFICES ASSUME NEW x \in Lineage(i), NEW A \in SUBSET (1..n), Closed(A, n)
               PROVE  x \in A
    <3> HIDE DEF Closed
    <3> QED BY <1>2, <2>0
  <2> DEFINE B == A \cap (1..i)
  <2>2. i \in A
    BY <1>2
  <2>3. Closed(B, i)
    <3>1. i \in B
      BY <2>1, <2>2
    <3>2. ASSUME NEW j \in B PROVE executed[j].parent \in B \cup {0}
      <4>1. j \in DOMAIN executed /\ j \in Nat /\ j <= i /\ j \in A
        BY <1>1, <1>3, <2>1
      <4>2. executed[j].parent < j /\ executed[j].parent \in 0..MaxPrivateEvents
        BY <4>1, <1>1 DEF LedgerSound, EventSound, LedgerEvent
      <4>3. executed[j].parent \in A \cup {0}
        BY <4>1
      <4>4. executed[j].parent \in Nat
        BY <4>2, PrivacyConstantsOK
      <4>5. QED
        BY <2>1, <4>1, <4>2, <4>3, <4>4
    <3>3. QED
      BY <3>1, <3>2
  <2>4. B \in SUBSET (1..i)
    OBVIOUS
  <2>5. x \in B
    <3> HIDE DEF B
    <3> QED BY <1>2, <2>3, <2>4
  <2>6. QED
    BY <2>1, <2>5, <1>1
<1>6. ASSUME NEW i \in Lineage(n) \ {n} PROVE i < n /\ executed[i].type = "exercised"
  <2> DEFINE A == {n} \cup {j \in 1..n : j < n /\ executed[j].type = "exercised"}
  <2>1. A \in SUBSET (1..n)
    BY <1>3
  <2>2. Closed(A, n)
    <3>1. n \in A
      OBVIOUS
    <3>2. ASSUME NEW j \in A PROVE executed[j].parent \in A \cup {0}
      <4>1. j \in DOMAIN executed /\ j \in Nat /\ j <= n
        BY <1>1, <1>3
      <4>2. executed[j].parent < j /\ executed[j].parent \in 0..MaxPrivateEvents
            /\ (executed[j].parent # 0 => executed[executed[j].parent].type = "exercised")
        BY <4>1, <1>1 DEF LedgerSound, EventSound, LedgerEvent
      <4>3. executed[j].parent \in Nat
        BY <4>2, PrivacyConstantsOK
      <4>4. QED
        BY <1>1, <4>1, <4>2, <4>3
    <3>3. QED
      BY <3>1, <3>2
  <2>3. i \in A
    <3> HIDE DEF A
    <3> QED BY <1>2, <2>1, <2>2
  <2>4. QED
    BY <2>3
<1>7. QED
  BY <1>4, <1>5, <1>6

LEMMA ProjectionFacts ==
  ASSUME LedgerSound, NEW n \in DOMAIN executed
  PROVE  /\ executed[n].informees \subseteq Projection(n) /\ Projection(n) \subseteq Parties
         /\ \A i \in Lineage(n) : Projection(i) \subseteq Projection(n)
<1>1. n \in Lineage(n) /\ \A i \in Lineage(n) : i \in DOMAIN executed /\ Lineage(i) \subseteq Lineage(n)
  BY LineageFacts, ExecutedFacts
<1>2. \A i \in Lineage(n) : executed[i].informees \subseteq Parties
  BY <1>1, ExecutedFacts DEF LedgerEvent
<1>3. QED
  BY <1>1, <1>2 DEF Projection

\* Everyone named with an event sees it.
LEMMA NamedSee ==
  ASSUME LedgerSound, NEW n \in DOMAIN executed
  PROVE  /\ executed[n].signatories \subseteq Projection(n)
         /\ executed[n].observers \subseteq Projection(n)
         /\ executed[n].actingParties \subseteq Projection(n)
<1>1. executed[n].type \in {"created", "exercised"}
  BY ExecutedFacts DEF LedgerEvent
<1>2. QED
  BY <1>1, ProjectionFacts DEF LedgerSound, EventSound

\* The events of a reply: what some requested party sees, in the ledger's order.
LEMMA EventsFacts ==
  ASSUME LedgerSound, NEW requested \in SUBSET Parties
  PROVE  LET events == PrivacyEvents(requested)
         IN /\ \E m \in Nat : DOMAIN events = 1..m
            /\ \A i \in DOMAIN events :
                 /\ events[i].number \in DOMAIN executed
                 /\ events[i] = BuildPrivacyEvent(events[i].number, requested)
                 /\ events[i].witnesses # {}
            /\ \A i, j \in DOMAIN events : i < j => events[i].number < events[j].number
            /\ \A n \in DOMAIN executed :
                 Projection(n) \cap requested # {} => \E i \in DOMAIN events : events[i].number = n
<1> DEFINE S == {n \in DOMAIN executed : Projection(n) \cap requested # {}}
           q == Sorted(S, Ascending(S))
           m == Cardinality(S)
           events == PrivacyEvents(requested)
<1>1. IsFiniteSet(S) /\ S \in SUBSET Nat
  <2>1. DOMAIN executed = 1..Len(executed) /\ Len(executed) \in Int /\ 1 \in Int
    BY ExecutedFacts
  <2>2. IsFiniteSet(DOMAIN executed)
    BY <2>1, FS_Interval
  <2>3. S \in SUBSET (DOMAIN executed) /\ DOMAIN executed \subseteq Nat
    BY <2>1
  <2>4. QED
    BY <2>2, <2>3, FS_Subset
<1>2. events = [i \in DOMAIN q |-> BuildPrivacyEvent(q[i], requested)]
  BY DEF PrivacyEvents, Visible
<1> HIDE DEF S, q, events
<1>3. /\ m \in Nat /\ q \in [1..m -> S]
      /\ \A e \in S : \E i \in 1..m : q[i] = e
      /\ \A i, j \in 1..m : i < j => <<q[i], q[j]>> \in Ascending(S)
  <2> DEFINE order == Ascending(S)
  <2>1. TotalOn(order, S) /\ q = Sorted(S, order)
    BY <1>1, NumbersTotal DEF q
  <2> HIDE DEF order
  <2>2. /\ m \in Nat /\ q \in [1..m -> S]
        /\ \A e \in S : \E i \in 1..m : q[i] = e
        /\ \A i, j \in 1..m : i < j => <<q[i], q[j]>> \in order
    BY <1>1, <2>1, SortedFacts
  <2>3. QED
    BY <2>2 DEF order
<1>4. DOMAIN events = 1..m /\ \A i \in 1..m : events[i] = BuildPrivacyEvent(q[i], requested)
  BY <1>2, <1>3
<1>5. \A n : /\ BuildPrivacyEvent(n, requested).number = n
             /\ BuildPrivacyEvent(n, requested).witnesses = Projection(n) \cap requested
  BY DEF BuildPrivacyEvent
<1>6. \A i \in 1..m : events[i].number = q[i] /\ q[i] \in S
  BY <1>3, <1>4, <1>5
<1>7. \A i, j \in 1..m : i < j => q[i] < q[j]
  BY <1>3 DEF Ascending
<1>8. \A n \in S : n \in DOMAIN executed /\ Projection(n) \cap requested # {}
  BY DEF S
<1>9. \A i \in DOMAIN events : events[i].witnesses # {} /\ events[i].number \in DOMAIN executed
                               /\ events[i] = BuildPrivacyEvent(events[i].number, requested)
  BY <1>4, <1>5, <1>6, <1>8
<1>10. \A i, j \in DOMAIN events : i < j => events[i].number < events[j].number
  BY <1>4, <1>6, <1>7
<1>11. \A n \in DOMAIN executed :
         Projection(n) \cap requested # {} => \E i \in DOMAIN events : events[i].number = n
  <2> TAKE n \in DOMAIN executed
  <2> HAVE Projection(n) \cap requested # {}
  <2>1. n \in S
    BY DEF S
  <2>2. PICK i \in 1..m : q[i] = n
    BY <1>3, <2>1
  <2>3. QED
    BY <1>4, <1>6, <2>2
<1> USE DEF events
<1> HIDE DEF m
<1>12. QED
  BY <1>3, <1>4, <1>9, <1>10, <1>11

\* What an event of a reply says.
LEMMA EventSays ==
  ASSUME LedgerSound, NEW requested \in SUBSET Parties, NEW n \in DOMAIN executed,
         NEW pe, pe = BuildPrivacyEvent(n, requested)
  PROVE  /\ pe \in PrivacyEvent
         /\ pe.number = n /\ pe.type = executed[n].type
         /\ pe.witnesses = Projection(n) \cap requested
         /\ pe.signatories = executed[n].signatories
         /\ pe.observers = executed[n].observers
         /\ pe.actingParties = executed[n].actingParties
         /\ pe.isDisclosed \in BOOLEAN
         /\ \A p : IsVisibleToParty(pe, p) => p \in Projection(n)
         /\ \A p \in requested : p \in Projection(n) => IsVisibleToParty(pe, p)
<1> DEFINE d == /\ executed[n].type = "exercised"
                /\ Cardinality(Projection(n) \cap requested)
                     > Cardinality(executed[n].actingParties)
<1>1. pe = [number |-> n, type |-> executed[n].type,
            signatories |-> executed[n].signatories, observers |-> executed[n].observers,
            witnesses |-> Projection(n) \cap requested,
            actingParties |-> executed[n].actingParties, isDisclosed |-> d]
  BY DEF BuildPrivacyEvent
<1>2. d \in BOOLEAN
  OBVIOUS
<1> HIDE DEF d
<1>3. /\ pe.number = n /\ pe.type = executed[n].type
      /\ pe.witnesses = Projection(n) \cap requested
      /\ pe.signatories = executed[n].signatories
      /\ pe.observers = executed[n].observers
      /\ pe.actingParties = executed[n].actingParties
      /\ pe.isDisclosed = d
  BY <1>1
<1>4. executed[n] \in LedgerEvent /\ n \in 1..MaxPrivateEvents
  BY ExecutedFacts, PrivacyConstantsOK DEF LedgerSound
<1>5. pe \in PrivacyEvent
  BY <1>1, <1>2, <1>4 DEF LedgerEvent, PrivacyEvent
<1>6. /\ \A p : IsVisibleToParty(pe, p) => p \in Projection(n)
      /\ \A p \in requested : p \in Projection(n) => IsVisibleToParty(pe, p)
  BY <1>3, NamedSee DEF IsVisibleToParty
<1>7. QED
  BY <1>2, <1>3, <1>5, <1>6

LEMMA AnalysisFacts ==
  ASSUME NEW requested
  PROVE  /\ AnalysisOf(requested).step = "analyzed"
         /\ AnalysisOf(requested).requested = requested
         /\ AnalysisOf(requested).events = PrivacyEvents(requested)
         /\ AnalysisOf(requested).matrix = VisibilityMatrix(PrivacyEvents(requested))
         /\ AnalysisOf(requested).boundaries = DisclosedBoundaries(PrivacyEvents(requested))
  BY DEF AnalysisOf

LEMMA PrivacyInitially == PrivacyInit => PrivacyInv
<1> SUFFICES ASSUME PrivacyInit PROVE PrivacyInv
  OBVIOUS
<1>1. executed = <<>> /\ privacy = NotAnalyzed
  BY DEF PrivacyInit
<1>2. executed \in Seq(LedgerEvent) /\ Len(executed) = 0 /\ DOMAIN executed = {}
  BY <1>1, EmptySeq
<1>3. LedgerSound
  BY <1>2, PrivacyConstantsOK DEF LedgerSound
<1>4. QED
  BY <1>1, <1>3 DEF PrivacyInv, AnalysisSound

LEMMA ExecuteEventStep ==
  ASSUME PrivacyInv, ExecuteEvent
  PROVE  PrivacyInv'
<1>1. privacy.step = "idle" /\ Len(executed) < MaxPrivateEvents /\ privacy' = privacy
  BY DEF ExecuteEvent
<1> DEFINE n == Len(executed)
<1>2. /\ n \in Nat /\ DOMAIN executed = 1..n /\ executed \in Seq(LedgerEvent)
      /\ \A i \in DOMAIN executed : EventSound(i)
  BY ExecutedFacts DEF PrivacyInv, LedgerSound
<1>3. PICK e : /\ executed' = Append(executed, e) /\ e \in LedgerEvent
               /\ e.parent \in {0} \cup {i \in 1..n : executed[i].type = "exercised"}
               /\ e.type = "created" =>
                    e.informees = e.signatories \cup e.observers /\ e.actingParties = {}
               /\ e.type = "exercised" =>
                    /\ e.signatories = {} /\ e.observers = {}
                    /\ e.actingParties \subseteq e.informees
  <2>1. PICK parent \in {0} \cup {i \in Lineage(n) : executed[i].type = "exercised"} :
          \/ \E s \in SUBSET Parties \ {{}}, o \in SUBSET Parties :
               /\ s \cap o = {}
               /\ executed' = Append(executed,
                    [type |-> "created", signatories |-> s, observers |-> o,
                     actingParties |-> {}, informees |-> s \cup o,
                     parent |-> parent])
          \/ \E a \in SUBSET Parties \ {{}}, i \in SUBSET Parties :
               /\ a \subseteq i
               /\ executed' = Append(executed,
                    [type |-> "exercised", signatories |-> {}, observers |-> {},
                     actingParties |-> a, informees |-> i, parent |-> parent])
    BY DEF ExecuteEvent
  <2>2. Lineage(n) \subseteq 1..n
    BY DEF Lineage
  <2>3. parent \in {0} \cup {i \in 1..n : executed[i].type = "exercised"}
    BY <2>2
  <2>4. parent \in 0..MaxPrivateEvents
    BY <1>1, <1>2, <2>3, PrivacyConstantsOK
  <2>5. CASE \E s \in SUBSET Parties \ {{}}, o \in SUBSET Parties :
               executed' = Append(executed,
                    [type |-> "created", signatories |-> s, observers |-> o,
                     actingParties |-> {}, informees |-> s \cup o,
                     parent |-> parent])
    <3>1. PICK s \in SUBSET Parties, o \in SUBSET Parties :
               executed' = Append(executed,
                    [type |-> "created", signatories |-> s, observers |-> o,
                     actingParties |-> {}, informees |-> s \cup o,
                     parent |-> parent])
      BY <2>5
    <3> DEFINE e == [type |-> "created", signatories |-> s, observers |-> o,
                     actingParties |-> {}, informees |-> s \cup o,
                     parent |-> parent]
    <3>2. /\ e.type = "created" /\ e.informees = e.signatories \cup e.observers
          /\ e.actingParties = {} /\ e.parent = parent /\ e \in LedgerEvent
      BY <2>4 DEF LedgerEvent
    <3>3. QED
      BY <2>3, <3>1, <3>2
  <2>6. CASE \E a \in SUBSET Parties \ {{}}, i \in SUBSET Parties :
               /\ a \subseteq i
               /\ executed' = Append(executed,
                    [type |-> "exercised", signatories |-> {}, observers |-> {},
                     actingParties |-> a, informees |-> i, parent |-> parent])
    <3>1. PICK a \in SUBSET Parties, i \in SUBSET Parties :
               /\ a \subseteq i
               /\ executed' = Append(executed,
                    [type |-> "exercised", signatories |-> {}, observers |-> {},
                     actingParties |-> a, informees |-> i, parent |-> parent])
      BY <2>6
    <3> DEFINE e == [type |-> "exercised", signatories |-> {}, observers |-> {},
                     actingParties |-> a, informees |-> i, parent |-> parent]
    <3>2. /\ e.type = "exercised" /\ e.signatories = {} /\ e.observers = {}
          /\ e.actingParties \subseteq e.informees /\ e.parent = parent /\ e \in LedgerEvent
      BY <2>4, <3>1 DEF LedgerEvent
    <3>3. QED
      BY <2>3, <3>1, <3>2
  <2>7. QED
    BY <2>1, <2>5, <2>6
<1>4. /\ executed' \in Seq(LedgerEvent) /\ Len(executed') = n + 1
      /\ \A i \in 1..n : executed'[i] = executed[i]
      /\ executed'[n + 1] = e
  BY <1>2, <1>3, AppendProperties
<1>5. DOMAIN executed' = 1..(n + 1)
  BY <1>4, LenProperties
<1>6. ASSUME NEW i \in 1..(n + 1) PROVE EventSound(i)'
  <2>1. CASE i \in 1..n
    <3>1. EventSound(i)
      BY <1>2, <2>1
    <3>2. executed[i].parent \in 0..MaxPrivateEvents
      <4>1. executed[i] \in LedgerEvent
        BY <1>2, <2>1, ElementOfSeq
      <4>2. QED
        BY <4>1 DEF LedgerEvent
    <3>3. executed[i].parent # 0 => executed[i].parent \in 1..n
      BY <1>2, <2>1, <3>1, <3>2, PrivacyConstantsOK DEF EventSound
    <3>4. executed[i].parent # 0 => executed'[executed[i].parent] = executed[executed[i].parent]
      BY <1>4, <3>3
    <3>5. QED
      BY <1>4, <2>1, <3>1, <3>4 DEF EventSound
  <2>2. CASE i = n + 1
    <3>1. e.parent < n + 1 /\ (e.parent # 0 => e.parent \in 1..n /\ executed[e.parent].type = "exercised")
      BY <1>2, <1>3
    <3>2. QED
      BY <1>3, <1>4, <2>2, <3>1 DEF EventSound
  <2>3. QED
    BY <1>2, <2>1, <2>2
<1>7. LedgerSound'
  BY <1>1, <1>2, <1>4, <1>5, <1>6, PrivacyConstantsOK DEF LedgerSound
<1>8. privacy = NotAnalyzed
  BY <1>1, AnalysisFacts DEF PrivacyInv, AnalysisSound, NotAnalyzed, NotFound
<1>9. AnalysisSound'
  BY <1>1, <1>8 DEF AnalysisSound, NotAnalyzed
<1>10. QED
  BY <1>7, <1>9 DEF PrivacyInv

LEMMA AnalysisKept ==
  ASSUME executed' = executed, NEW r
  PROVE  AnalysisOf(r)' = AnalysisOf(r)
<1>1. \A n : Lineage(n)' = Lineage(n)
  BY DEF Lineage
<1>2. \A n : Projection(n)' = Projection(n)
  BY <1>1 DEF Projection
<1>3. Visible(r)' = Visible(r)
  BY <1>2 DEF Visible
<1>4. \A n : BuildPrivacyEvent(n, r)' = BuildPrivacyEvent(n, r)
  BY <1>2 DEF BuildPrivacyEvent
<1>5. PrivacyEvents(r)' = PrivacyEvents(r)
  BY <1>3, <1>4 DEF PrivacyEvents
<1>6. QED
  BY <1>5 DEF AnalysisOf

LEMMA PrivacyAlways == PrivacySpec => []PrivacyInv
<1>1. PrivacyInv /\ [PrivacyNext]_privacyVars => PrivacyInv'
  <2> SUFFICES ASSUME PrivacyInv, [PrivacyNext]_privacyVars PROVE PrivacyInv'
    OBVIOUS
  <2>0. ASSUME executed' = executed PROVE LedgerSound'
    BY <2>0 DEF PrivacyInv, LedgerSound, EventSound
  <2>1. CASE ExecuteEvent
    BY <2>1, ExecuteEventStep
  <2>2. CASE Analyze
    <3>1. executed' = executed
      BY <2>2 DEF Analyze
    <3>2. PICK r \in SUBSET Parties :
            privacy' = IF Visible(r) = <<>> THEN NotFound ELSE AnalysisOf(r)
      BY <2>2 DEF Analyze, NotFound
    <3>3. AnalysisOf(r)' = AnalysisOf(r)
      BY <3>1, AnalysisKept
    <3>4. NotFound' = NotFound
      BY DEF NotFound, NotAnalyzed
    <3>5. AnalysisSound'
      BY <3>2, <3>3, <3>4 DEF AnalysisSound
    <3>6. QED
      BY <2>0, <3>1, <3>5 DEF PrivacyInv
  <2>3. CASE UNCHANGED privacyVars
    <3>1. executed' = executed /\ privacy' = privacy
      BY <2>3 DEF privacyVars
    <3>2. \A r : AnalysisOf(r)' = AnalysisOf(r)
      BY <3>1, AnalysisKept
    <3>3. AnalysisSound'
      BY <3>1, <3>2 DEF PrivacyInv, AnalysisSound, NotFound, NotAnalyzed
    <3>4. QED
      BY <2>0, <3>1, <3>3 DEF PrivacyInv
  <2>4. QED
    BY <2>1, <2>2, <2>3 DEF PrivacyNext
<1>2. QED
  BY <1>1, PrivacyInitially, PTL DEF PrivacySpec

-----------------------------------------------------------------------------
(***************************************************************************)
(* The views of an analysis.                                               *)
(***************************************************************************)

AnalyzedFor(requested) ==
  LedgerSound /\ requested \in SUBSET Parties /\ privacy = AnalysisOf(requested)

LEMMA ReplyFacts ==
  ASSUME NEW requested, AnalyzedFor(requested)
  PROVE  /\ \E m \in Nat : DOMAIN privacy.events = 1..m
         /\ \A i \in DOMAIN privacy.events :
              /\ i \in Nat \ {0}
              /\ privacy.events[i].number \in DOMAIN executed
              /\ privacy.events[i] = BuildPrivacyEvent(privacy.events[i].number, requested)
              /\ privacy.events[i].witnesses # {}
              /\ privacy.events[i].type \in {"created", "exercised"}
         /\ \A i, j \in DOMAIN privacy.events :
              i < j => privacy.events[i].number < privacy.events[j].number
         /\ \A n \in DOMAIN executed :
              Projection(n) \cap requested # {} =>
                \E i \in DOMAIN privacy.events : privacy.events[i].number = n
<1>1. privacy.events = PrivacyEvents(requested)
  BY AnalysisFacts DEF AnalyzedFor
<1>2. \A n \in DOMAIN executed : BuildPrivacyEvent(n, requested).type \in {"created", "exercised"}
  BY ExecutedFacts DEF AnalyzedFor, LedgerEvent, BuildPrivacyEvent
<1>3. QED
  BY <1>1, <1>2, EventsFacts DEF AnalyzedFor

LEMMA CanSeeFacts ==
  ASSUME NEW requested, AnalyzedFor(requested),
         NEW e \in DOMAIN privacy.events, NEW p \in Parties
  PROVE  /\ CanSee(e, p) <=> IsVisibleToParty(privacy.events[e], p)
         /\ CanSee(e, p) => p \in Projection(privacy.events[e].number)
         /\ p \in requested => (p \in Projection(privacy.events[e].number) => CanSee(e, p))
<1> DEFINE events == privacy.events
<1>1. events = PrivacyEvents(requested) /\ privacy.matrix = VisibilityMatrix(events)
  BY AnalysisFacts DEF AnalyzedFor
<1>2. CanSee(e, p) <=> p \in PartiesOf(events) /\ e \in privacy.matrix[p]
  BY <1>1 DEF CanSee, VisibilityMatrix
<1>3. p \in PartiesOf(events) =>
        (e \in privacy.matrix[p] <=> IsVisibleToParty(events[e], p))
  BY <1>1 DEF VisibilityMatrix
<1>4. IsVisibleToParty(events[e], p) => p \in PartiesOf(events)
  BY DEF PartiesOf
<1>5. /\ events[e].number \in DOMAIN executed
      /\ events[e] = BuildPrivacyEvent(events[e].number, requested)
  BY ReplyFacts
<1>6. /\ IsVisibleToParty(events[e], p) => p \in Projection(events[e].number)
      /\ p \in requested /\ p \in Projection(events[e].number)
           => IsVisibleToParty(events[e], p)
  <2> DEFINE n == events[e].number
             pe == events[e]
  <2>1. n \in DOMAIN executed /\ pe = BuildPrivacyEvent(n, requested)
    BY <1>5
  <2>2. LedgerSound /\ requested \in SUBSET Parties
    BY DEF AnalyzedFor
  <2> HIDE DEF n, pe
  <2>3. /\ IsVisibleToParty(pe, p) => p \in Projection(n)
        /\ p \in requested => (p \in Projection(n) => IsVisibleToParty(pe, p))
    BY <2>1, <2>2, EventSays
  <2>4. QED
    BY <2>3 DEF n, pe
<1>7. QED
  BY <1>2, <1>3, <1>4, <1>6

\* Who an event is claimed by.
LEMMA ClaimantFacts ==
  ASSUME NEW requested, AnalyzedFor(requested), NEW y \in DOMAIN privacy.events
  PROVE  /\ Claimants(y) \subseteq DOMAIN privacy.events
         /\ Claimants(y) \subseteq Roots
         /\ Claimants(y) # {} =>
              /\ y \notin Roots
              /\ \E x \in Claimants(y) : y \in DrawnUnder(x)
<1>1. PICK m \in Nat : DOMAIN privacy.events = 1..m
  BY ReplyFacts
<1>2. Claimants(y) \subseteq 1..(y - 1) /\ y \in 1..m
  BY <1>1 DEF Claimants
<1>3. Claimants(y) \subseteq DOMAIN privacy.events
  BY <1>1, <1>2
<1>4. \A x \in Claimants(y) : privacy.events[x].type = "exercised"
  BY DEF Claimants
<1>5. \A x \in Claimants(y) : Claimants(x) = {}
  BY <1>4 DEF Claimants
<1>6. Claimants(y) \subseteq Roots
  BY <1>3, <1>5 DEF Roots
<1>7. ASSUME Claimants(y) # {} PROVE \E x \in Claimants(y) : y \in DrawnUnder(x)
  <2>1. Claimants(y) \in SUBSET Nat
    BY <1>1, <1>3
  <2>2. PICK x \in Claimants(y) : \A z \in Claimants(y) : x <= z
    BY <1>7, <2>1, SmallestElement
  <2>3. QED
    BY <2>2 DEF DrawnUnder
<1>8. QED
  BY <1>3, <1>6, <1>7 DEF Roots

\* A node says where it belongs.
LEMMA NodeFacts ==
  ASSUME NEW requested, AnalyzedFor(requested), NEW n \in TreeNodes
  PROVE  /\ n.event \in DOMAIN privacy.events /\ n.root \in DOMAIN privacy.events
         /\ n.depth \in {0, 1}
         /\ n = [event |-> n.event, root |-> n.root, depth |-> n.depth]
         /\ n.depth = 0 => n.event \in Roots /\ n.root = n.event
         /\ n.depth = 1 => n.event \notin Roots /\ n.event \in DrawnUnder(n.root)
<1>1. CASE n \in {[event |-> x, root |-> x, depth |-> 0] : x \in Roots}
  <2>1. PICK x \in Roots : n = [event |-> x, root |-> x, depth |-> 0]
    BY <1>1
  <2>2. n.event = x /\ n.root = x /\ n.depth = 0 /\ x \in DOMAIN privacy.events
    BY <2>1 DEF Roots
  <2>3. QED
    BY <2>1, <2>2
<1>2. CASE n \in UNION {{[event |-> y, root |-> x, depth |-> 1] : y \in DrawnUnder(x)} : x \in Roots}
  <2>0. PICK x \in Roots :
          n \in {[event |-> y, root |-> x, depth |-> 1] : y \in DrawnUnder(x)}
    BY <1>2
  <2>1. PICK y \in DrawnUnder(x) : n = [event |-> y, root |-> x, depth |-> 1]
    BY <2>0
  <2>2. /\ n.event = y /\ n.root = x /\ n.depth = 1
        /\ x \in DOMAIN privacy.events /\ y \in DOMAIN privacy.events
    BY <2>1 DEF Roots, DrawnUnder
  <2>3. y \notin Roots
    BY <2>1 DEF DrawnUnder, Roots
  <2>4. QED
    BY <2>1, <2>2, <2>3
<1>3. QED
  BY <1>1, <1>2 DEF TreeNodes

LEMMA NodeOfEvent ==
  ASSUME NEW requested, AnalyzedFor(requested), NEW e \in DOMAIN privacy.events
  PROVE  \E n \in TreeNodes : n.event = e
<1>1. CASE Claimants(e) = {}
  <2>1. e \in Roots
    BY <1>1 DEF Roots
  <2>2. [event |-> e, root |-> e, depth |-> 0] \in TreeNodes
    BY <2>1 DEF TreeNodes
  <2>3. QED
    BY <2>2
<1>2. CASE Claimants(e) # {}
  <2>1. PICK x \in Claimants(e) : e \in DrawnUnder(x) /\ x \in Roots
    BY <1>2, ClaimantFacts
  <2>2. [event |-> e, root |-> x, depth |-> 1] \in TreeNodes
    BY <2>1 DEF TreeNodes
  <2>3. QED
    BY <2>2
<1>3. QED
  BY <1>1, <1>2

\* An event has one node.
LEMMA OneNode ==
  ASSUME NEW requested, AnalyzedFor(requested),
         NEW a \in TreeNodes, NEW b \in TreeNodes, a.event = b.event
  PROVE  a = b
<1>1. a.depth = b.depth
  BY NodeFacts
<1>2. a.depth = 0 => a.root = b.root
  BY <1>1, NodeFacts
<1>3. ASSUME a.depth = 1 PROVE a.root = b.root
  <2>1. a.event \in DrawnUnder(a.root) /\ a.event \in DrawnUnder(b.root)
    BY <1>1, <1>3, NodeFacts
  <2>2. a.root <= b.root /\ b.root <= a.root
    BY <2>1 DEF DrawnUnder
  <2>3. a.root \in Nat /\ b.root \in Nat
    BY NodeFacts, ReplyFacts
  <2>4. QED
    BY <2>2, <2>3
<1>4. a.depth \in {0, 1}
  BY NodeFacts
<1>5. a.root = b.root
  BY <1>2, <1>3, <1>4
<1>6. /\ a = [event |-> a.event, root |-> a.root, depth |-> a.depth]
      /\ b = [event |-> b.event, root |-> b.root, depth |-> b.depth]
  BY NodeFacts
<1>7. QED
  BY <1>1, <1>5, <1>6

LEMMA LayoutSorted ==
  ASSUME NEW requested, AnalyzedFor(requested)
  PROVE  IsFiniteSet(TreeNodes) /\ TotalOn(LayoutOrder, TreeNodes)
<1>1. IsFiniteSet(TreeNodes)
  <2>1. PICK m \in Nat : DOMAIN privacy.events = 1..m
    BY ReplyFacts
  <2>2. IsFiniteSet(1..m)
    <3>1. 1 \in Int /\ m \in Int
      BY <2>1
    <3>2. QED
      BY <3>1, FS_Interval
  <2> DEFINE f == [n \in TreeNodes |-> n.event]
  <2>3. f \in [TreeNodes -> 1..m]
    BY <2>1, NodeFacts
  <2>4. \A a, b \in TreeNodes : f[a] = f[b] => a = b
    BY OneNode
  <2>5. f \in Injection(TreeNodes, 1..m)
    BY <2>3, <2>4 DEF Injection, IsInjective
  <2>6. QED
    BY <2>2, <2>5, FS_Injection
<1>2. \A n \in TreeNodes :
        /\ n.root \in Nat /\ n.event \in Nat /\ n.depth \in Nat
        /\ n = [event |-> n.event, root |-> n.root, depth |-> n.depth]
  BY NodeFacts, ReplyFacts
<1>3. \A a, b \in TreeNodes :
        <<a, b>> \in LayoutOrder <=>
          \/ a.root < b.root
          \/ /\ a.root = b.root
             /\ a.depth < b.depth \/ (a.depth = b.depth /\ a.event < b.event)
  BY DEF LayoutOrder
<1>4. \A a \in TreeNodes : <<a, a>> \notin LayoutOrder
  BY <1>2, <1>3
<1>5. ASSUME NEW a \in TreeNodes, NEW b \in TreeNodes, NEW c \in TreeNodes,
             <<a, b>> \in LayoutOrder, <<b, c>> \in LayoutOrder
      PROVE  <<a, c>> \in LayoutOrder
  <2>1. /\ a.root \in Nat /\ a.event \in Nat /\ a.depth \in Nat
        /\ b.root \in Nat /\ b.event \in Nat /\ b.depth \in Nat
        /\ c.root \in Nat /\ c.event \in Nat /\ c.depth \in Nat
    BY <1>2
  <2>2. /\ \/ a.root < b.root
           \/ /\ a.root = b.root
              /\ a.depth < b.depth \/ (a.depth = b.depth /\ a.event < b.event)
        /\ \/ b.root < c.root
           \/ /\ b.root = c.root
              /\ b.depth < c.depth \/ (b.depth = c.depth /\ b.event < c.event)
    BY <1>3, <1>5
  <2>3. \/ a.root < c.root
        \/ /\ a.root = c.root
           /\ a.depth < c.depth \/ (a.depth = c.depth /\ a.event < c.event)
    BY <2>1, <2>2
  <2>4. QED
    BY <1>3, <2>3
<1>6. ASSUME NEW a \in TreeNodes, NEW b \in TreeNodes,
             <<a, b>> \notin LayoutOrder, <<b, a>> \notin LayoutOrder
      PROVE  a = b
  <2>1. /\ a.root \in Nat /\ a.event \in Nat /\ a.depth \in Nat
        /\ b.root \in Nat /\ b.event \in Nat /\ b.depth \in Nat
    BY <1>2
  <2>2. /\ ~ \/ a.root < b.root
             \/ /\ a.root = b.root
                /\ a.depth < b.depth \/ (a.depth = b.depth /\ a.event < b.event)
        /\ ~ \/ b.root < a.root
             \/ /\ b.root = a.root
                /\ b.depth < a.depth \/ (b.depth = a.depth /\ b.event < a.event)
    BY <1>3, <1>6
  <2>3. a.event = b.event
    BY <2>1, <2>2
  <2>4. QED
    BY <2>3, OneNode
<1>7. QED
  BY <1>1, <1>4, <1>5, <1>6 DEF TotalOn

\* The tree draws every event once, each at a place of its own.
LEMMA LayoutFacts ==
  ASSUME NEW requested, AnalyzedFor(requested)
  PROVE  /\ \A k \in DOMAIN Layout : Layout[k].event \in DOMAIN privacy.events
         /\ \A e \in DOMAIN privacy.events : \E k \in DOMAIN Layout : Layout[k].event = e
         /\ \A j, k \in DOMAIN Layout :
              j # k => /\ Layout[j].event # Layout[k].event
                       /\ Place(Layout, j) # Place(Layout, k)
<1> DEFINE q == Layout
           n == Cardinality(TreeNodes)
<1>1. /\ n \in Nat /\ q \in [1..n -> TreeNodes]
      /\ \A a \in TreeNodes : \E i \in 1..n : q[i] = a
      /\ \A i, j \in 1..n : i < j => <<q[i], q[j]>> \in LayoutOrder
  BY LayoutSorted, SortedFacts DEF Layout
<1>2. TotalOn(LayoutOrder, TreeNodes)
  BY LayoutSorted
<1> HIDE DEF q, n
<1>3. DOMAIN q = 1..n
  BY <1>1
<1>4. \A k \in DOMAIN q : q[k].event \in DOMAIN privacy.events
  BY <1>1, <1>3, NodeFacts
<1>5. ASSUME NEW e \in DOMAIN privacy.events PROVE \E k \in DOMAIN q : q[k].event = e
  <2>1. PICK a \in TreeNodes : a.event = e
    BY NodeOfEvent
  <2>2. QED
    BY <1>1, <1>3, <2>1
<1>6. ASSUME NEW j \in 1..n, NEW k \in 1..n, j < k
      PROVE  q[j].event # q[k].event /\ Place(q, j) # Place(q, k)
  <2>1. q[j] \in TreeNodes /\ q[k] \in TreeNodes
    BY <1>1
  <2>2. q[j] # q[k]
    BY <1>1, <1>2, <1>6, <2>1 DEF TotalOn
  <2>3. q[j].event # q[k].event
    BY <2>1, <2>2, OneNode
  <2>4. ASSUME q[j].depth = q[k].depth, Place(q, j).index = Place(q, k).index PROVE FALSE
    <3> DEFINE A == {i \in 1..(j - 1) : q[i].depth = q[j].depth}
               B == {i \in 1..(k - 1) : q[i].depth = q[k].depth}
    <3>1. Cardinality(A) = Cardinality(B)
      BY <2>4 DEF Place
    <3>2. j \in B /\ j \notin A /\ A \subseteq B
      BY <1>1, <1>6, <2>4
    <3>3. IsFiniteSet(B)
      <4>1. k - 1 \in Int /\ 1 \in Int
        BY <1>1
      <4>2. IsFiniteSet(1..(k - 1)) /\ B \in SUBSET (1..(k - 1))
        BY <4>1, FS_Interval
      <4>3. QED
        BY <4>2, FS_Subset
    <3> HIDE DEF A, B
    <3>4. Cardinality(A) < Cardinality(B) /\ Cardinality(A) \in Nat /\ Cardinality(B) \in Nat
      BY <3>2, <3>3, SmallerSubset
    <3>5. QED
      BY <3>1, <3>4
  <2>5. Place(q, j).depth = q[j].depth /\ Place(q, k).depth = q[k].depth
    BY DEF Place
  <2>6. QED
    BY <2>3, <2>4, <2>5
<1>7. ASSUME NEW j \in 1..n, NEW k \in 1..n, j # k
      PROVE  q[j].event # q[k].event /\ Place(q, j) # Place(q, k)
  <2>1. CASE j < k
    BY <1>6, <2>1
  <2>2. CASE k < j
    BY <1>6, <2>2
  <2>3. QED
    BY <1>1, <1>7, <2>1, <2>2
<1> USE DEF q
<1>8. QED
  BY <1>3, <1>4, <1>5, <1>7

\* A create is drawn under an exercise if one it is a consequence of is drawn.
LEMMA NoStrayCreate ==
  ASSUME NEW requested, AnalyzedFor(requested),
         NEW e \in DOMAIN privacy.events, NEW x \in DOMAIN privacy.events,
         privacy.events[e].type = "created",
         privacy.events[x].number
           \in Lineage(privacy.events[e].number) \ {privacy.events[e].number}
  PROVE  e \notin Roots
<1> DEFINE n == privacy.events[e].number
           a == privacy.events[x].number
<1>1. /\ n \in DOMAIN executed /\ a \in DOMAIN executed /\ n \in Nat /\ a \in Nat
      /\ privacy.events[e] = BuildPrivacyEvent(n, requested)
      /\ privacy.events[x] = BuildPrivacyEvent(a, requested)
      /\ privacy.events[x].witnesses # {}
      /\ e \in Nat \ {0} /\ x \in Nat \ {0}
  BY ReplyFacts, ExecutedFacts DEF AnalyzedFor
<1>2. a < n /\ executed[a].type = "exercised" /\ Projection(a) \subseteq Projection(n)
  BY <1>1, LineageFacts, ProjectionFacts DEF AnalyzedFor
<1>3. x < e
  <2>1. e = x \/ e < x \/ x < e
    BY <1>1
  <2>2. e # x
    BY <1>1, <1>2
  <2>3. ~(e < x)
    <3> SUFFICES ASSUME e < x PROVE FALSE
      OBVIOUS
    <3>1. n < a
      BY ReplyFacts
    <3>2. QED
      BY <1>1, <1>2, <3>1
  <2>4. QED
    BY <2>1, <2>2, <2>3
<1>4. /\ privacy.events[x].type = "exercised"
      /\ privacy.events[x].witnesses = Projection(a) \cap requested
      /\ privacy.events[e].witnesses = Projection(n) \cap requested
  BY <1>1, <1>2 DEF BuildPrivacyEvent
<1>5. privacy.events[x].witnesses \cap privacy.events[e].witnesses # {}
  BY <1>1, <1>2, <1>4
<1>6. Related(privacy.events[x], privacy.events[e])
  BY <1>5 DEF Related
<1>7. x \in 1..(e - 1)
  BY <1>1, <1>3
<1>8. x \in Claimants(e)
  BY <1>4, <1>6, <1>7 DEF Claimants
<1>9. QED
  BY <1>8 DEF Roots

\* When everyone was requested the tree greys what the matrix leaves unticked.
LEMMA AllRequested ==
  ASSUME NEW requested, AnalyzedFor(requested), Parties \subseteq requested,
         NEW e \in DOMAIN privacy.events
  PROVE  /\ \A selected \in SUBSET Parties :
              IsGrayed(e, selected, {}) <=> ~\E p \in selected : CanSee(e, p)
         /\ privacy.events[e].type = "exercised" =>
              (privacy.events[e].isDisclosed <=>
                 \E p \in Parties \ privacy.events[e].actingParties : CanSee(e, p))
<1> DEFINE n == privacy.events[e].number
           pe == privacy.events[e]
<1>1. n \in DOMAIN executed /\ pe = BuildPrivacyEvent(n, requested)
  BY ReplyFacts
<1>2. LedgerSound /\ requested \in SUBSET Parties
  BY DEF AnalyzedFor
<1>3. \A p \in Parties : CanSee(e, p) <=> p \in Projection(n)
  BY CanSeeFacts
<1> HIDE DEF n, pe
<1>4. /\ pe.witnesses = Projection(n) \cap requested
      /\ pe.type = executed[n].type /\ pe.actingParties = executed[n].actingParties
      /\ pe.isDisclosed <=>
              /\ executed[n].type = "exercised"
              /\ Cardinality(pe.witnesses) > Cardinality(executed[n].actingParties)
  <2>1. /\ pe.witnesses = Projection(n) \cap requested
        /\ pe.type = executed[n].type /\ pe.actingParties = executed[n].actingParties
    BY <1>1 DEF BuildPrivacyEvent
  <2>2. pe.isDisclosed <=>
              /\ executed[n].type = "exercised"
              /\ Cardinality(pe.witnesses) > Cardinality(executed[n].actingParties)
    <3> DEFINE d == /\ executed[n].type = "exercised"
                    /\ Cardinality(Projection(n) \cap requested)
                         > Cardinality(executed[n].actingParties)
    <3>1. BuildPrivacyEvent(n, requested).isDisclosed = d
      BY DEF BuildPrivacyEvent
    <3>2. d <=> /\ executed[n].type = "exercised"
                /\ Cardinality(pe.witnesses) > Cardinality(executed[n].actingParties)
      BY <2>1
    <3> HIDE DEF d
    <3>3. pe.isDisclosed = d
      BY <1>1, <3>1
    <3>4. QED
      BY <3>2, <3>3
  <2>3. QED
    BY <2>1, <2>2
<1>5. pe.witnesses = Projection(n) /\ Projection(n) \in SUBSET Parties
  BY <1>1, <1>2, <1>4, ProjectionFacts
<1>6. ASSUME NEW selected \in SUBSET Parties
      PROVE  IsGrayed(e, selected, {}) <=> ~\E p \in selected : CanSee(e, p)
  <2>1. IsGrayed(e, selected, {}) <=> Projection(n) \cap selected = {}
    BY <1>5 DEF IsGrayed, pe
  <2>2. QED
    BY <1>3, <2>1
<1>7. ASSUME pe.type = "exercised"
      PROVE  pe.isDisclosed <=> \E p \in Parties \ pe.actingParties : CanSee(e, p)
  <2> DEFINE A == executed[n].actingParties
             W == Projection(n)
  <2>1. A \subseteq W
    BY <1>1, <1>2, NamedSee
  <2>2. IsFiniteSet(W) /\ Cardinality(W) \in Nat
    BY <1>5, PrivacyConstantsOK, FS_Subset, FS_CardinalityType
  <2>3. Cardinality(W) > Cardinality(A) <=> A # W
    BY <2>1, <2>2, SmallerSubset
  <2>4. A # W <=> \E p \in Parties \ A : CanSee(e, p)
    BY <1>3, <1>5, <2>1
  <2> HIDE DEF A, W
  <2>5. pe.isDisclosed <=> Cardinality(W) > Cardinality(A)
    BY <1>4, <1>5, <1>7 DEF A, W
  <2>6. QED
    BY <1>4, <2>3, <2>4, <2>5 DEF A
<1>8. QED
  BY <1>6, <1>7 DEF pe

LEMMA ProjectionGives ==
  ASSUME PrivacyInv
  PROVE  ProjectionShown
<1> SUFFICES ASSUME privacy.step = "analyzed" PROVE ProjectionShown
  BY DEF ProjectionShown
<1>1. PICK requested \in SUBSET Parties : privacy = AnalysisOf(requested)
  BY DEF PrivacyInv, AnalysisSound, NotAnalyzed, NotFound
<1>2. AnalyzedFor(requested) /\ privacy.requested = requested
  BY <1>1, AnalysisFacts DEF AnalyzedFor, PrivacyInv
<1> DEFINE events == privacy.events
<1>3. \A e \in DOMAIN events, p \in Parties :
            /\ CanSee(e, p) => p \in Projection(events[e].number)
            /\ p \in privacy.requested =>
                 (p \in Projection(events[e].number) => CanSee(e, p))
  BY <1>2, CanSeeFacts
<1>4. \A n \in DOMAIN executed, p \in privacy.requested :
            p \in Projection(n) => \E e \in DOMAIN events : events[e].number = n
  BY <1>2, ReplyFacts
<1>5. /\ \A k \in DOMAIN Layout : Layout[k].event \in DOMAIN events
      /\ \A e \in DOMAIN events : \E k \in DOMAIN Layout : Layout[k].event = e
      /\ \A j, k \in DOMAIN Layout :
              j # k => /\ Layout[j].event # Layout[k].event
                       /\ Place(Layout, j) # Place(Layout, k)
  BY <1>2, LayoutFacts
<1>6. \A e, x \in DOMAIN events :
            /\ events[e].type = "created"
            /\ events[x].number \in Lineage(events[e].number) \ {events[e].number}
            => e \notin Roots
  BY <1>2, NoStrayCreate
<1>7. Parties \subseteq privacy.requested =>
        \A e \in DOMAIN events, selected \in SUBSET Parties :
            /\ IsGrayed(e, selected, {}) <=> ~\E p \in selected : CanSee(e, p)
            /\ events[e].type = "exercised" =>
                 (events[e].isDisclosed <=>
                    \E p \in Parties \ events[e].actingParties : CanSee(e, p))
  BY <1>2, AllRequested
<1>8. \A b \in privacy.boundaries : CanSee(b.event, b.accessedBy)
  <2>1. events = PrivacyEvents(requested) /\ privacy.boundaries = DisclosedBoundaries(events)
    BY <1>1, AnalysisFacts
  <2> SUFFICES ASSUME NEW b \in privacy.boundaries PROVE CanSee(b.event, b.accessedBy)
    OBVIOUS
  <2>2. /\ b.event \in DOMAIN events /\ b.accessedBy \in PartiesOf(events)
        /\ IsVisibleToParty(events[b.event], b.accessedBy)
    BY <2>1 DEF DisclosedBoundaries
  <2>3. b.accessedBy \in Parties
    BY <2>2 DEF PartiesOf
  <2>4. QED
    BY <1>2, <2>2, <2>3, CanSeeFacts
<1>9. QED
  BY <1>3, <1>4, <1>5, <1>6, <1>7, <1>8 DEF ProjectionShown

LEMMA PrivacyTyped ==
  ASSUME PrivacyInv
  PROVE  PrivacyTypeOK
<1>1. executed \in Seq(LedgerEvent) /\ Len(executed) <= MaxPrivateEvents
  BY DEF PrivacyInv, LedgerSound
<1>2. CASE privacy \in {NotAnalyzed, NotFound}
  <2>1. /\ privacy.step \in {"idle", "notFound"} /\ privacy.requested = {}
        /\ privacy.events = <<>> /\ privacy.matrix = <<>>
    BY <1>2 DEF NotAnalyzed, NotFound
  <2>2. privacy.events \in Seq(PrivacyEvent) /\ DOMAIN privacy.matrix = {}
    BY <2>1, EmptySeq
  <2>3. QED
    BY <1>1, <2>1, <2>2 DEF PrivacyTypeOK
<1>3. CASE \E r \in SUBSET Parties : privacy = AnalysisOf(r)
  <2>1. PICK requested \in SUBSET Parties : privacy = AnalysisOf(requested)
    BY <1>3
  <2>2. /\ privacy.step = "analyzed" /\ privacy.requested = requested
        /\ privacy.matrix = VisibilityMatrix(privacy.events)
        /\ AnalyzedFor(requested)
    BY <2>1, AnalysisFacts DEF AnalyzedFor, PrivacyInv
  <2>3. DOMAIN privacy.matrix \subseteq Parties
    BY <2>2 DEF VisibilityMatrix, PartiesOf
  <2>4. PICK m \in Nat : DOMAIN privacy.events = 1..m
    BY <2>2, ReplyFacts
  <2>5. ASSUME NEW i \in 1..m PROVE privacy.events[i] \in PrivacyEvent
    <3> DEFINE n == privacy.events[i].number
               pe == privacy.events[i]
    <3>1. n \in DOMAIN executed /\ pe = BuildPrivacyEvent(n, requested)
      BY <2>2, <2>4, ReplyFacts
    <3>2. LedgerSound /\ requested \in SUBSET Parties
      BY <2>2 DEF AnalyzedFor
    <3> HIDE DEF n, pe
    <3>3. pe \in PrivacyEvent
      BY <3>1, <3>2, EventSays
    <3>4. QED
      BY <3>3 DEF pe
  <2>6. privacy.events \in [1..m -> PrivacyEvent]
    <3>1. privacy.events = PrivacyEvents(requested)
      BY <2>1, AnalysisFacts
    <3>2. privacy.events = [i \in 1..m |-> privacy.events[i]]
      BY <2>4, <3>1 DEF PrivacyEvents
    <3>3. QED
      BY <2>5, <3>2
  <2>7. privacy.events \in Seq(PrivacyEvent)
    BY <2>6, SeqDef
  <2>8. QED
    BY <1>1, <2>2, <2>3, <2>7 DEF PrivacyTypeOK
<1>4. QED
  BY <1>2, <1>3 DEF PrivacyInv, AnalysisSound

\* The privacy analysis of a transaction (routes/privacy.ts) and the tree and
\* matrix drawn of it (privacy-tree.tsx, visibility-matrix.tsx) are true to what
\* the parties see on the ledger, for every set of parties, every transaction
\* and every choice of requested parties.
THEOREM PrivacyTheorem == PrivacySpec => [](PrivacyTypeOK /\ ProjectionShown)
<1>1. PrivacyInv => PrivacyTypeOK /\ ProjectionShown
  BY ProjectionGives, PrivacyTyped
<1>2. QED
  BY <1>1, PrivacyAlways, PTL

-----------------------------------------------------------------------------
(***************************************************************************)
(* The transaction page.                                                   *)
(***************************************************************************)

TxPageSpec == TxPageInit(TRUE) /\ [][TxPageNext]_txPageVars

AllViewers == UNION {ViewersOf(tx) : tx \in TxIds}
Viewer == AllViewers \cup {Absent}
QueryStates == {"idle", "failed", "loading", "have"}

Page == [tx : TxIds \cup {NoTx}, query : QueryStates,
         tab : {"tree", "state-diff", "privacy", "workflow"},
         own : Correlations \cup {NoCorrelation}]

View == [kind : {"tree", "matrix", "comparison"}, a : Viewer, b : Viewer, up : BOOLEAN]

PrivacyTab == [query : QueryStates, ticked : SUBSET AllViewers, marked : Viewer, view : View]

FlowTab == [correlation : Correlations \cup {NoCorrelation}, given : BOOLEAN, query : QueryStates]

\* The page shows a transaction of the ledger.
PageSound(page) == page \in Page /\ (page.query # "idle" => page.tx \in TxIds)

\* The parties compared see something of the transaction, if anyone does.
ViewOf(view, tx) ==
  view.kind = "comparison" /\ ViewersOf(tx) # {} =>
    view.a \in ViewersOf(tx) /\ view.b \in ViewersOf(tx)

PrivacySound(pane, page) ==
  /\ pane \in PrivacyTab
  /\ pane.query = "have" => /\ TabOpen(page, "privacy") /\ pane.ticked \subseteq ViewersOf(page.tx)
                           /\ ViewOf(pane.view, page.tx)

FlowSound(pane, page) ==
  /\ pane \in FlowTab
  /\ TabOpen(page, "workflow") /\ pane.given /\ Default(page) # NoCorrelation
       => pane.correlation = Default(page)

TxPageInv ==
  PageSound(txPage) /\ PrivacySound(privacyTab, txPage) /\ FlowSound(flowTab, txPage)

LEMMA LedgerFacts ==
  /\ NoTx \notin TxIds /\ IsFiniteSet(TxIds)
  /\ \A tx \in TxIds : /\ tx \in Nat /\ IsFiniteSet(ViewersOf(tx)) /\ Absent \notin ViewersOf(tx)
                       /\ ViewersOf(tx) \subseteq AllViewers
                       /\ Len(Ledger[tx].seen) \in Nat
                       /\ DOMAIN Ledger[tx].seen = 1..Len(Ledger[tx].seen)
                       /\ IsFiniteSet(DOMAIN Ledger[tx].seen)
                       /\ Cardinality(DOMAIN Ledger[tx].seen) = Len(Ledger[tx].seen)
                       /\ Ledger[tx].trace # Absent => Ledger[tx].span # 0
<1>1. /\ Len(Ledger) \in Nat /\ TxIds = 1..Len(Ledger)
      /\ \A tx \in TxIds :
           /\ Len(Ledger[tx].seen) \in Nat /\ DOMAIN Ledger[tx].seen = 1..Len(Ledger[tx].seen)
           /\ \A e \in DOMAIN Ledger[tx].seen :
                IsFiniteSet(Ledger[tx].seen[e]) /\ Absent \notin Ledger[tx].seen[e]
           /\ Ledger[tx].trace # Absent => Ledger[tx].span # 0
  BY TxPageConstantsOK
<1>2. NoTx \notin TxIds /\ TxIds \subseteq Nat /\ IsFiniteSet(TxIds)
  <2>1. 1 \in Int /\ Len(Ledger) \in Int
    BY <1>1
  <2>2. QED
    BY <1>1, <2>1, FS_Interval DEF NoTx
<1>3. ASSUME NEW tx \in TxIds
      PROVE  /\ IsFiniteSet(DOMAIN Ledger[tx].seen)
             /\ Cardinality(DOMAIN Ledger[tx].seen) = Len(Ledger[tx].seen)
             /\ IsFiniteSet(ViewersOf(tx)) /\ Absent \notin ViewersOf(tx)
  <2> DEFINE seen == Ledger[tx].seen
             n == Len(seen)
             f == [e \in DOMAIN seen |-> seen[e]]
             T == {seen[e] : e \in DOMAIN seen}
  <2>1. n \in Nat /\ DOMAIN seen = 1..n /\ 1 \in Int /\ n \in Int
    BY <1>1
  <2>2. IsFiniteSet(1..n) /\ Cardinality(1..n) = n
    <3> HIDE DEF n
    <3> QED BY <2>1, FS_Interval
  <2>3. f \in Surjection(DOMAIN seen, T)
    BY DEF Surjection
  <2>4. IsFiniteSet(T)
    BY <2>1, <2>2, <2>3, FS_Surjection
  <2>5. \A t \in T : IsFiniteSet(t) /\ Absent \notin t
    BY <1>1
  <2>6. ViewersOf(tx) = UNION T
    BY DEF ViewersOf
  <2> HIDE DEF T
  <2>7. IsFiniteSet(UNION T)
    BY <2>4, <2>5, FS_UNION
  <2>8. QED
    BY <2>1, <2>2, <2>5, <2>6, <2>7
<1>4. \A tx \in TxIds : ViewersOf(tx) \subseteq AllViewers
  BY DEF AllViewers
<1>5. QED
  BY <1>1, <1>2, <1>3, <1>4

\* Every finite set can be listed.
LEMMA ListExists ==
  ASSUME NEW S, IsFiniteSet(S)
  PROVE  Orders(S) # {}
<1>1. Cardinality(S) \in Nat /\ ExistsBijection(1..Cardinality(S), S)
  BY FS_CardinalityType
<1>2. PICK f : f \in Bijection(1..Cardinality(S), S)
  BY <1>1 DEF ExistsBijection
<1>3. f \in [1..Cardinality(S) -> S] /\ \A c \in S : \E i \in 1..Cardinality(S) : f[i] = c
  BY <1>2 DEF Bijection, Injection, Surjection
<1>4. f \in Orders(S)
  BY <1>3 DEF Orders
<1>5. QED
  BY <1>4

LEMMA ColumnsFacts ==
  ASSUME NEW tx \in TxIds
  PROVE  /\ Len(Columns(tx)) = Cardinality(ViewersOf(tx)) /\ Len(Columns(tx)) \in Nat
         /\ \A i \in 1..Len(Columns(tx)) : Columns(tx)[i] \in ViewersOf(tx)
         /\ ViewersOf(tx) # {} => Len(Columns(tx)) > 0
<1> DEFINE S == ViewersOf(tx)
           q == Columns(tx)
<1>1. IsFiniteSet(S) /\ Cardinality(S) \in Nat /\ Orders(S) # {}
  BY LedgerFacts, ListExists, FS_CardinalityType
<1>2. q \in Orders(S)
  BY <1>1 DEF Columns
<1> HIDE DEF S, q
<1>3. q \in [1..Cardinality(S) -> S]
  BY <1>2 DEF Orders
<1>4. q \in Seq(S)
  BY <1>1, <1>3, SeqDef
<1>5. Len(q) \in Nat /\ DOMAIN q = 1..Len(q) /\ DOMAIN q = 1..Cardinality(S)
  BY <1>3, <1>4, LenProperties
<1>6. Len(q) = Cardinality(S)
  BY <1>1, <1>5
<1>7. S # {} => Cardinality(S) # 0
  BY <1>1, FS_EmptySet
<1>8. QED
  BY <1>1, <1>3, <1>5, <1>6, <1>7 DEF S, q

LEMMA RecomparedFacts ==
  ASSUME NEW tx \in TxIds, NEW view \in View
  PROVE  Recompared(view, tx) \in View /\ ViewOf(Recompared(view, tx), tx)
<1> DEFINE parties == Columns(tx)
           kept(p, i) == IF p \in ViewersOf(tx) \/ ViewersOf(tx) = {} THEN p
                         ELSE parties[IF i > Len(parties) THEN 1 ELSE i]
<1>1. Recompared(view, tx) = IF view.kind # "comparison" THEN view
        ELSE [view EXCEPT !.a = kept(view.a, 1), !.b = kept(view.b, 2)]
  BY DEF Recompared
<1>2. ViewersOf(tx) \subseteq AllViewers
  BY LedgerFacts
<1>3. ASSUME NEW p \in Viewer, NEW i \in {1, 2}
      PROVE  kept(p, i) \in Viewer /\ (ViewersOf(tx) # {} => kept(p, i) \in ViewersOf(tx))
  <2>1. CASE p \in ViewersOf(tx) \/ ViewersOf(tx) = {}
    BY <2>1
  <2>2. CASE ~(p \in ViewersOf(tx) \/ ViewersOf(tx) = {})
    <3> DEFINE j == IF i > Len(parties) THEN 1 ELSE i
    <3>1. j \in 1..Len(parties)
      BY <2>2, ColumnsFacts
    <3>2. parties[j] \in ViewersOf(tx)
      BY <3>1, ColumnsFacts
    <3>3. QED
      BY <1>2, <2>2, <3>2 DEF Viewer
  <2>3. QED
    BY <2>1, <2>2
<1>4. CASE view.kind # "comparison"
  BY <1>1, <1>4 DEF ViewOf
<1>5. CASE view.kind = "comparison"
  <2> DEFINE x == kept(view.a, 1)
             y == kept(view.b, 2)
  <2>1. view.a \in Viewer /\ view.b \in Viewer
    BY DEF View
  <2>2. /\ x \in Viewer /\ y \in Viewer
        /\ ViewersOf(tx) # {} => x \in ViewersOf(tx) /\ y \in ViewersOf(tx)
    BY <1>3, <2>1
  <2> HIDE DEF x, y
  <2>3. Recompared(view, tx) = [view EXCEPT !.a = x, !.b = y]
    BY <1>1, <1>5 DEF x, y
  <2>4. QED
    BY <2>2, <2>3 DEF View, ViewOf
<1>6. QED
  BY <1>4, <1>5

LEMMA AnalyzedFacts ==
  ASSUME NEW pane \in PrivacyTab, NEW page, PageSound(page), TabOpen(page, "privacy")
  PROVE  PrivacySound(Analyzed(pane, page.tx), page)
<1> DEFINE view == Recompared(pane.view, page.tx)
           T == ViewersOf(page.tx)
<1>1. page.tx \in TxIds /\ pane.view \in View
  BY DEF PageSound, TabOpen, PrivacyTab
<1>2. view \in View /\ ViewOf(view, page.tx) /\ T \in SUBSET AllViewers
  BY <1>1, RecomparedFacts, LedgerFacts
<1> HIDE DEF view, T
<1>3. Analyzed(pane, page.tx) = [pane EXCEPT !.query = "have", !.ticked = T, !.view = view]
  BY DEF Analyzed, view, T
<1>4. QED
  BY <1>2, <1>3 DEF PrivacySound, PrivacyTab, QueryStates, T

\* Drawn again, the privacy tab speaks of the new page's transaction.
LEMMA PrivacyAfterSound ==
  ASSUME PrivacySound(privacyTab, txPage), NEW old, NEW new,
         old = txPage \/ old.query = "idle", PageSound(new),
         NEW t \in PrivacyAfter(old, new)
  PROVE  PrivacySound(t, new)
<1> DEFINE before == IF TabOpen(old, "privacy") THEN privacyTab ELSE NoPrivacyTab
<1>1. NoPrivacyTab \in PrivacyTab /\ NoPrivacyTab.query = "idle" /\ TreeView \in View
  BY DEF NoPrivacyTab, PrivacyTab, TreeView, View, Viewer, QueryStates
<1>2. before \in PrivacyTab
  BY <1>1 DEF PrivacySound
<1>3. CASE ~TabOpen(new, "privacy")
  <2>1. t = NoPrivacyTab
    BY <1>3 DEF PrivacyAfter
  <2>2. QED
    BY <1>1, <2>1 DEF PrivacySound
<1>4. CASE TabOpen(new, "privacy") /\ TabOpen(old, "privacy") /\ old.tx = new.tx
  <2>1. t = privacyTab /\ old = txPage
    BY <1>4 DEF PrivacyAfter, TabOpen
  <2>2. QED
    BY <1>4, <2>1 DEF PrivacySound
<1>5. CASE TabOpen(new, "privacy") /\ ~(TabOpen(old, "privacy") /\ old.tx = new.tx)
  <2> HIDE DEF before
  <2>1. t \in {[before EXCEPT !.query = "loading", !.view = TreeView], Analyzed(before, new.tx)}
    BY <1>5 DEF PrivacyAfter, before
  <2>2. CASE t = [before EXCEPT !.query = "loading", !.view = TreeView]
    BY <1>1, <1>2, <2>2 DEF PrivacySound, PrivacyTab, QueryStates
  <2>3. CASE t = Analyzed(before, new.tx)
    BY <1>2, <1>5, <2>3, AnalyzedFacts
  <2>4. QED
    BY <2>1, <2>2, <2>3
<1>6. QED
  BY <1>3, <1>4, <1>5

LEMMA DefaultFacts ==
  ASSUME NEW page, PageSound(page)
  PROVE  Default(page) \in Correlations \cup {NoCorrelation}
<1>1. page.own \in Correlations \cup {NoCorrelation}
  BY DEF PageSound, Page
<1>2. page.query = "have" => page.tx \in TxIds
  BY DEF PageSound
<1>3. \A tx \in TxIds : /\ By("workflow_id", Ledger[tx].workflow, 0) \in Correlations
                        /\ By("trace_context", Ledger[tx].trace, Ledger[tx].span) \in Correlations
  BY DEF Correlations
<1>4. QED
  BY <1>1, <1>2, <1>3 DEF Default

LEMMA CorrelatedFacts ==
  ASSUME NEW pane \in FlowTab, NEW c \in Correlations \cup {NoCorrelation},
         NEW given \in BOOLEAN, NEW t \in CorrelatedBy(pane, c, given)
  PROVE  t \in FlowTab /\ t.correlation = c /\ t.given = given
<1>1. PICK q : t = [correlation |-> c, given |-> given, query |-> q]
               /\ q \in IF c = NoCorrelation THEN {"idle"}
                        ELSE IF c = pane.correlation THEN {pane.query} ELSE Begun
  BY DEF CorrelatedBy
<1>2. q \in QueryStates
  BY <1>1 DEF FlowTab, QueryStates, Begun
<1>3. QED
  BY <1>1, <1>2 DEF FlowTab

LEMMA FlowAfterSound ==
  ASSUME FlowSound(flowTab, txPage), NEW old, NEW new, NEW searched \in BOOLEAN,
         old = txPage \/ old.query = "idle", PageSound(new),
         searched \/ old.query = "idle" \/ new.own = old.own,
         NEW t \in FlowAfter(old, new, searched)
  PROVE  FlowSound(t, new)
<1>1. NoFlowTab \in FlowTab /\ ~NoFlowTab.given
  BY DEF NoFlowTab, FlowTab, QueryStates
<1>2. Default(new) \in Correlations \cup {NoCorrelation}
  BY DefaultFacts
<1>3. flowTab \in FlowTab
  BY DEF FlowSound
<1>4. CASE ~TabOpen(new, "workflow")
  <2>1. t = NoFlowTab
    BY <1>4 DEF FlowAfter
  <2>2. QED
    BY <1>1, <2>1 DEF FlowSound
<1>5. CASE TabOpen(new, "workflow") /\ t \in CorrelatedBy(NoFlowTab, Default(new), TRUE)
  <2>1. t \in FlowTab /\ t.correlation = Default(new)
    BY <1>1, <1>2, <1>5, CorrelatedFacts
  <2>2. QED
    BY <2>1 DEF FlowSound
<1>6. CASE TabOpen(new, "workflow") /\ t \in CorrelatedBy(flowTab, Default(new), TRUE)
  <2>1. t \in FlowTab /\ t.correlation = Default(new)
    BY <1>2, <1>3, <1>6, CorrelatedFacts
  <2>2. QED
    BY <2>1 DEF FlowSound
<1>7. CASE /\ TabOpen(new, "workflow") /\ TabOpen(old, "workflow") /\ t = flowTab
           /\ ~(Default(new) # NoCorrelation /\ (searched \/ new.own = NoCorrelation))
  <2>1. old = txPage
    BY <1>7 DEF TabOpen
  <2>2. ASSUME Default(new) # NoCorrelation PROVE Default(new) = Default(old)
    <3>1. ~searched /\ new.own # NoCorrelation
      BY <1>7, <2>2
    <3>2. new.own = old.own
      BY <1>7, <3>1 DEF TabOpen
    <3>3. QED
      BY <3>1, <3>2 DEF Default
  <2>3. QED
    BY <1>3, <1>7, <2>1, <2>2 DEF FlowSound
<1>8. QED
  BY <1>4, <1>5, <1>6, <1>7 DEF FlowAfter

LEMMA RedrawnSound ==
  ASSUME TxPageInv, NEW old, NEW new, NEW searched \in BOOLEAN,
         old = txPage \/ old.query = "idle", PageSound(new),
         searched \/ old.query = "idle" \/ new.own = old.own,
         Redrawn(old, new, searched)
  PROVE  TxPageInv'
<1>1. /\ txPage' = new /\ privacyTab' \in PrivacyAfter(old, new)
      /\ flowTab' \in FlowAfter(old, new, searched)
  BY DEF Redrawn
<1>2. PrivacySound(privacyTab', new)
  BY <1>1, PrivacyAfterSound DEF TxPageInv
<1>3. FlowSound(flowTab', new)
  BY <1>1, FlowAfterSound DEF TxPageInv
<1>4. QED
  BY <1>1, <1>2, <1>3 DEF TxPageInv

LEMMA TxPageInitially == TxPageInit(TRUE) => TxPageInv
<1> SUFFICES ASSUME TxPageInit(TRUE) PROVE TxPageInv
  OBVIOUS
<1>1. PICK tx \in TxIds \cup {NoTx} : txPage = NewPage(tx)
  BY DEF TxPageInit
<1>2. privacyTab = NoPrivacyTab /\ flowTab = NoFlowTab
  BY DEF TxPageInit
<1>3. PageSound(txPage)
  BY <1>1 DEF NewPage, PageSound, Page, QueryStates
<1>4. PrivacySound(privacyTab, txPage)
  BY <1>2 DEF PrivacySound, NoPrivacyTab, PrivacyTab, TreeView, View, Viewer, QueryStates
<1>5. FlowSound(flowTab, txPage)
  BY <1>2 DEF FlowSound, NoFlowTab, FlowTab, QueryStates
<1>6. QED
  BY <1>3, <1>4, <1>5 DEF TxPageInv

LEMMA GoToStep ==
  ASSUME TxPageInv, NEW tx \in TxIds \cup {NoTx},
         NEW pane \in {"tree", "state-diff", "privacy", "workflow"}, GoTo(tx, pane)
  PROVE  TxPageInv'
<1>1. PageSound(txPage) /\ txPage \in Page
  BY DEF TxPageInv, PageSound
<1>2. CASE NoTx \in {tx, txPage.tx}
  <2>1. PICK q \in IF tx = NoTx THEN {"idle"} ELSE Begun :
          Redrawn(NewPage(NoTx), [NewPage(tx) EXCEPT !.query = q], FALSE)
    BY <1>2 DEF GoTo
  <2> DEFINE new == [NewPage(tx) EXCEPT !.query = q]
  <2>2. new \in Page /\ new.query = q /\ new.tx = tx
    BY <2>1 DEF NewPage, Page, QueryStates, Begun
  <2>3. PageSound(new)
    BY <2>1, <2>2 DEF PageSound
  <2>4. NewPage(NoTx).query = "idle"
    BY DEF NewPage
  <2> HIDE DEF new
  <2>5. QED
    BY <2>1, <2>3, <2>4, RedrawnSound DEF new
<1>3. CASE NoTx \notin {tx, txPage.tx}
  <2>1. PICK q \in IF tx = txPage.tx THEN {txPage.query} ELSE Begun :
          Redrawn(txPage, [txPage EXCEPT !.tx = tx, !.query = q, !.tab = pane], FALSE)
    BY <1>3 DEF GoTo
  <2> DEFINE new == [txPage EXCEPT !.tx = tx, !.query = q, !.tab = pane]
  <2>2. new \in Page /\ new.tx = tx /\ new.own = txPage.own
    BY <1>1, <2>1 DEF Page, QueryStates, Begun
  <2>3. PageSound(new)
    BY <1>3, <2>2 DEF PageSound
  <2> HIDE DEF new
  <2>4. QED
    BY <2>1, <2>2, <2>3, RedrawnSound DEF new
<1>4. QED
  BY <1>2, <1>3

LEMMA SearchedFacts ==
  ASSUME NEW c \in Searchable
  PROVE  Searched(c) \in Correlations
<1>1. c \in Correlations
  BY DEF Searchable
<1>2. PICK tx \in TxIds :
        c \in {By("workflow_id", Ledger[tx].workflow, 0), By("trace_context", Ledger[tx].trace, 0),
               By("trace_context", Ledger[tx].trace, Ledger[tx].span)}
  BY <1>1 DEF Correlations
<1>3. Searched(c) \in {By("workflow_id", Ledger[tx].workflow, 0),
                       By("trace_context", Ledger[tx].trace, 0)}
  BY <1>2 DEF Searched, By
<1>4. QED
  BY <1>3 DEF Correlations

LEMMA PageSteps ==
  ASSUME TxPageInv, SelectTransaction \/ TransactionAnswered \/ SwitchTab \/ UsePopover
  PROVE  TxPageInv'
<1>1. PageSound(txPage) /\ txPage \in Page
  BY DEF TxPageInv, PageSound
<1>2. CASE SelectTransaction
  <2>1. PICK tx \in (TxIds \cup {NoTx}) \ {txPage.tx} : GoTo(tx, txPage.tab)
    BY <1>2 DEF SelectTransaction
  <2>2. txPage.tab \in {"tree", "state-diff", "privacy", "workflow"}
    BY <1>1 DEF Page
  <2>3. QED
    BY <2>1, <2>2, GoToStep
<1>3. CASE TransactionAnswered
  <2>1. PICK q \in {"have", "failed"} : Redrawn(txPage, [txPage EXCEPT !.query = q], FALSE)
    BY <1>3 DEF TransactionAnswered
  <2> DEFINE new == [txPage EXCEPT !.query = q]
  <2>2. new \in Page /\ new.tx = txPage.tx /\ new.own = txPage.own
    BY <1>1, <2>1 DEF Page, QueryStates
  <2>3. txPage.query = "loading"
    BY <1>3 DEF TransactionAnswered
  <2>4. PageSound(new)
    BY <1>1, <2>2, <2>3 DEF PageSound
  <2> HIDE DEF new
  <2>5. QED
    BY <2>1, <2>2, <2>4, RedrawnSound DEF new
<1>4. CASE SwitchTab
  <2>1. PICK pane \in {"tree", "state-diff", "privacy", "workflow"} :
          Redrawn(txPage, [txPage EXCEPT !.tab = pane], FALSE)
    BY <1>4 DEF SwitchTab
  <2> DEFINE new == [txPage EXCEPT !.tab = pane]
  <2>2. PageSound(new) /\ new.own = txPage.own
    BY <1>1, <2>1 DEF Page, PageSound
  <2> HIDE DEF new
  <2>3. QED
    BY <2>1, <2>2, RedrawnSound DEF new
<1>5. CASE UsePopover
  <2>1. CASE \E c \in Searchable :
               Redrawn(txPage, [txPage EXCEPT !.own = Searched(c), !.tab = "workflow"], TRUE)
    <3>1. PICK c \in Searchable :
               Redrawn(txPage, [txPage EXCEPT !.own = Searched(c), !.tab = "workflow"], TRUE)
      BY <2>1
    <3> DEFINE new == [txPage EXCEPT !.own = Searched(c), !.tab = "workflow"]
    <3>2. PageSound(new)
      BY <1>1, SearchedFacts DEF Page, PageSound
    <3> HIDE DEF new
    <3>3. QED
      BY <3>1, <3>2, RedrawnSound DEF new
  <2>2. CASE Redrawn(txPage, [txPage EXCEPT !.tab = "workflow"], FALSE)
    <3> DEFINE new == [txPage EXCEPT !.tab = "workflow"]
    <3>1. PageSound(new) /\ new.own = txPage.own
      BY <1>1 DEF Page, PageSound
    <3> HIDE DEF new
    <3>2. QED
      BY <2>2, <3>1, RedrawnSound DEF new
  <2>3. CASE Redrawn(txPage, txPage, FALSE)
    BY <1>1, <2>3, RedrawnSound
  <2>4. QED
    BY <1>5, <2>1, <2>2, <2>3 DEF UsePopover
<1>6. QED
  BY <1>2, <1>3, <1>4, <1>5

\* What the user and the answers do inside the privacy tab.
LEMMA InPrivacyTabStep ==
  ASSUME TxPageInv, InPrivacyTab
  PROVE  TxPageInv'
<1>1. /\ TabOpen(txPage, "privacy") /\ txPage' = txPage /\ flowTab' = flowTab
      /\ PageSound(txPage) /\ privacyTab \in PrivacyTab /\ txPage.tx \in TxIds
  BY DEF InPrivacyTab, TxPageInv, PrivacySound, PageSound, TabOpen
<1>2. PrivacySound(privacyTab', txPage)
  <2>1. CASE privacyTab' = Analyzed(privacyTab, txPage.tx)
    BY <1>1, <2>1, AnalyzedFacts
  <2>2. CASE privacyTab' = [privacyTab EXCEPT !.query = "failed"]
    BY <1>1, <2>2 DEF PrivacySound, PrivacyTab, QueryStates
  <2>3. ASSUME privacyTab.query = "have", NEW p \in ViewersOf(txPage.tx),
               privacyTab' = [privacyTab EXCEPT
                 !.ticked = IF p \in privacyTab.ticked THEN privacyTab.ticked \ {p}
                            ELSE privacyTab.ticked \cup {p}]
        PROVE  PrivacySound(privacyTab', txPage)
    <3> DEFINE T == IF p \in privacyTab.ticked THEN privacyTab.ticked \ {p}
                    ELSE privacyTab.ticked \cup {p}
    <3>1. T \subseteq ViewersOf(txPage.tx) /\ T \in SUBSET AllViewers
      BY <1>1, <2>3, LedgerFacts DEF TxPageInv, PrivacySound
    <3>2. privacyTab' = [privacyTab EXCEPT !.ticked = T]
      BY <2>3
    <3> HIDE DEF T
    <3>3. QED
      BY <1>1, <2>3, <3>1, <3>2 DEF TxPageInv, PrivacySound, PrivacyTab
  <2>4. ASSUME privacyTab.query = "have", NEW p \in ViewersOf(txPage.tx),
               privacyTab' = [privacyTab EXCEPT
                 !.marked = IF privacyTab.marked = p THEN Absent ELSE p]
        PROVE  PrivacySound(privacyTab', txPage)
    <3>1. p \in Viewer /\ Absent \in Viewer
      BY <1>1, LedgerFacts DEF Viewer
    <3>2. QED
      BY <1>1, <2>4, <3>1 DEF TxPageInv, PrivacySound, PrivacyTab
  <2>5. QED
    BY <2>1, <2>2, <2>3, <2>4 DEF InPrivacyTab
<1>3. QED
  BY <1>1, <1>2 DEF TxPageInv

\* A view that is opened or changed inside the privacy tab.
LEMMA ViewKept ==
  ASSUME TxPageInv, TabOpen(txPage, "privacy"), NEW view \in View,
         privacyTab.query = "have" => ViewOf(view, txPage.tx)
  PROVE  PrivacySound([privacyTab EXCEPT !.view = view], txPage)
  BY DEF TxPageInv, PrivacySound, PrivacyTab

LEMMA InPrivacyViewStep ==
  ASSUME TxPageInv, InPrivacyView
  PROVE  TxPageInv'
<1>1. /\ TabOpen(txPage, "privacy") /\ privacyTab.query = "have"
      /\ txPage' = txPage /\ flowTab' = flowTab
      /\ PageSound(txPage) /\ privacyTab \in PrivacyTab /\ txPage.tx \in TxIds
      /\ privacyTab.view \in View /\ ViewOf(privacyTab.view, txPage.tx)
  BY DEF InPrivacyView, TxPageInv, PrivacySound, PageSound, TabOpen, PrivacyTab
<1>2. PICK view \in {TreeView, MatrixView, [TreeView EXCEPT !.kind = "comparison"]} :
        \/ view.kind # privacyTab.view.kind
           /\ privacyTab' = [privacyTab EXCEPT !.view = Recompared(view, txPage.tx)]
        \/ /\ view.kind = privacyTab.view.kind
           /\ \E p \in ViewersOf(txPage.tx) :
                \/ /\ view.kind = "comparison" /\ Cardinality(ViewersOf(txPage.tx)) > 1
                   /\ \/ privacyTab' = [privacyTab EXCEPT !.view.a = p]
                      \/ privacyTab' = [privacyTab EXCEPT !.view.b = p]
                \/ /\ view.kind = "matrix"
                   /\ \E field \in {p, Absent} :
                        privacyTab' = [privacyTab EXCEPT !.view.a = field,
                                         !.view.up = field # privacyTab.view.a \/ ~@]
  BY DEF InPrivacyView
<1>3. view \in View
  <2>1. TreeView \in View
    BY DEF TreeView, View, Viewer
  <2>2. MatrixView \in View /\ [TreeView EXCEPT !.kind = "comparison"] \in View
    BY <2>1 DEF MatrixView, View
  <2>3. QED
    BY <1>2, <2>1, <2>2
<1>4. \A p \in ViewersOf(txPage.tx) \cup {Absent} : p \in Viewer
  BY <1>1, LedgerFacts DEF Viewer
<1>5. PrivacySound(privacyTab', txPage)
  <2>1. CASE privacyTab' = [privacyTab EXCEPT !.view = Recompared(view, txPage.tx)]
    BY <1>1, <1>3, <2>1, RecomparedFacts, ViewKept
  <2>2. ASSUME NEW p \in ViewersOf(txPage.tx), privacyTab' = [privacyTab EXCEPT !.view.a = p]
        PROVE  PrivacySound(privacyTab', txPage)
    <3> DEFINE v == [privacyTab.view EXCEPT !.a = p]
    <3>1. v \in View /\ ViewOf(v, txPage.tx)
      BY <1>1, <1>4 DEF View, ViewOf
    <3>2. privacyTab' = [privacyTab EXCEPT !.view = v]
      BY <2>2
    <3> HIDE DEF v
    <3>3. QED
      BY <1>1, <3>1, <3>2, ViewKept
  <2>3. ASSUME NEW p \in ViewersOf(txPage.tx), privacyTab' = [privacyTab EXCEPT !.view.b = p]
        PROVE  PrivacySound(privacyTab', txPage)
    <3> DEFINE v == [privacyTab.view EXCEPT !.b = p]
    <3>1. v \in View /\ ViewOf(v, txPage.tx)
      BY <1>1, <1>4 DEF View, ViewOf
    <3>2. privacyTab' = [privacyTab EXCEPT !.view = v]
      BY <2>3
    <3> HIDE DEF v
    <3>3. QED
      BY <1>1, <3>1, <3>2, ViewKept
  <2>4. ASSUME NEW p \in ViewersOf(txPage.tx), NEW field \in {p, Absent},
               privacyTab.view.kind = "matrix",
               privacyTab' = [privacyTab EXCEPT !.view.a = field,
                                         !.view.up = field # privacyTab.view.a \/ ~@]
        PROVE  PrivacySound(privacyTab', txPage)
    <3> DEFINE up == field # privacyTab.view.a \/ ~privacyTab.view.up
               v == [privacyTab.view EXCEPT !.a = field, !.up = up]
    <3>1. up \in BOOLEAN
      OBVIOUS
    <3>2. privacyTab' = [privacyTab EXCEPT !.view = v]
      BY <2>4
    <3> HIDE DEF up
    <3>3. v \in View /\ ViewOf(v, txPage.tx)
      BY <1>1, <1>4, <2>4, <3>1 DEF View, ViewOf
    <3> HIDE DEF v
    <3>4. QED
      BY <1>1, <3>2, <3>3, ViewKept
  <2>5. QED
    BY <1>2, <2>1, <2>2, <2>3, <2>4
<1>6. QED
  BY <1>1, <1>5 DEF TxPageInv

LEMMA InFlowTabStep ==
  ASSUME TxPageInv, InFlowTab
  PROVE  TxPageInv'
<1>1. /\ txPage' = txPage /\ privacyTab' = privacyTab /\ flowTab \in FlowTab
      /\ FlowSound(flowTab, txPage)
  BY DEF InFlowTab, TxPageInv, FlowSound
<1>2. CASE flowTab' \in {[flowTab EXCEPT !.query = "have"], [flowTab EXCEPT !.query = "failed"]}
  BY <1>1, <1>2 DEF TxPageInv, FlowSound, FlowTab, QueryStates
<1>3. ASSUME NEW c \in Searchable, flowTab' \in CorrelatedBy(flowTab, Searched(c), FALSE)
      PROVE  TxPageInv'
  <2>1. flowTab' \in FlowTab /\ flowTab'.given = FALSE
    BY <1>1, <1>3, SearchedFacts, CorrelatedFacts
  <2>2. QED
    BY <1>1, <2>1 DEF TxPageInv, FlowSound
<1>4. QED
  BY <1>2, <1>3 DEF InFlowTab

LEMMA TxPageAlways == TxPageSpec => []TxPageInv
<1>1. TxPageInv /\ [TxPageNext]_txPageVars => TxPageInv'
  <2> SUFFICES ASSUME TxPageInv, [TxPageNext]_txPageVars PROVE TxPageInv'
    OBVIOUS
  <2>1. CASE PickInTimeline
    <3>1. PICK tx \in Timeline(flowTab.correlation) : GoTo(tx, "tree")
      BY <2>1 DEF PickInTimeline
    <3>2. tx \in TxIds
      BY <3>1 DEF Timeline
    <3>3. QED
      BY <3>1, <3>2, GoToStep
  <2>2. CASE UNCHANGED txPageVars
    BY <2>2 DEF txPageVars, TxPageInv
  <2>3. QED
    BY <2>1, <2>2, PageSteps, InPrivacyTabStep, InPrivacyViewStep, InFlowTabStep DEF TxPageNext
<1>2. QED
  BY <1>1, TxPageInitially, PTL DEF TxPageSpec

\* The rows of the matrix are sorted by a strict total order.
RowOrder(view, seen) ==
  {p \in (DOMAIN seen) \X (DOMAIN seen) : RowBefore(view, seen, p[1], p[2])}

LEMMA RowsOrdered ==
  ASSUME NEW view, NEW seen, NEW n \in Nat, DOMAIN seen = 1..n, view.up \in BOOLEAN
  PROVE  TotalOn(RowOrder(view, seen), DOMAIN seen)
<1> DEFINE S == DOMAIN seen
           rank == [e \in S |-> IF view.a = Absent THEN e
                                ELSE IF view.a \in seen[e] THEN 1 ELSE 0]
           up == view.up
<1>1. rank \in [S -> Nat] /\ S \subseteq Nat
  OBVIOUS
<1>2. \A d, e \in S :
        <<d, e>> \in RowOrder(view, seen) <=>
          IF rank[d] = rank[e] THEN d < e
          ELSE IF up THEN rank[d] < rank[e] ELSE rank[d] > rank[e]
  BY DEF RowOrder, RowBefore
<1> HIDE DEF rank, S, up
<1>3. \A d \in S : <<d, d>> \notin RowOrder(view, seen)
  BY <1>1, <1>2
<1>4. ASSUME NEW a \in S, NEW b \in S, NEW c \in S,
             <<a, b>> \in RowOrder(view, seen), <<b, c>> \in RowOrder(view, seen)
      PROVE  <<a, c>> \in RowOrder(view, seen)
  <2>1. /\ rank[a] \in Nat /\ rank[b] \in Nat /\ rank[c] \in Nat
        /\ a \in Nat /\ b \in Nat /\ c \in Nat
    BY <1>1
  <2>2. /\ IF rank[a] = rank[b] THEN a < b
           ELSE IF up THEN rank[a] < rank[b] ELSE rank[a] > rank[b]
        /\ IF rank[b] = rank[c] THEN b < c
           ELSE IF up THEN rank[b] < rank[c] ELSE rank[b] > rank[c]
    BY <1>2, <1>4
  <2>3. IF rank[a] = rank[c] THEN a < c
        ELSE IF up THEN rank[a] < rank[c] ELSE rank[a] > rank[c]
    BY <2>1, <2>2
  <2>4. QED
    BY <1>2, <2>3
<1>5. ASSUME NEW a \in S, NEW b \in S, <<a, b>> \notin RowOrder(view, seen),
             <<b, a>> \notin RowOrder(view, seen)
      PROVE  a = b
  <2>1. rank[a] \in Nat /\ rank[b] \in Nat /\ a \in Nat /\ b \in Nat
    BY <1>1
  <2>2. /\ ~ IF rank[a] = rank[b] THEN a < b
             ELSE IF up THEN rank[a] < rank[b] ELSE rank[a] > rank[b]
        /\ ~ IF rank[b] = rank[a] THEN b < a
             ELSE IF up THEN rank[b] < rank[a] ELSE rank[b] > rank[a]
    BY <1>2, <1>5
  <2>3. QED
    BY <2>1, <2>2
<1>6. QED
  BY <1>3, <1>4, <1>5 DEF TotalOn, S

LEMMA SameInterval ==
  ASSUME NEW m \in Nat, NEW n \in Nat, 1..m = 1..n
  PROVE  m = n
<1>1. m > n => m \in 1..m /\ m \notin 1..n
  OBVIOUS
<1>2. n > m => n \in 1..n /\ n \notin 1..m
  OBVIOUS
<1>3. QED
  BY <1>1, <1>2

\* The rows a party sees stand together.
LEMMA RowsFacts ==
  ASSUME NEW tx \in TxIds, NEW view \in View
  PROVE  LET seen == Ledger[tx].seen
             rows == MatrixRows(view, tx)
         IN /\ Len(rows) = Len(seen) /\ \A e \in DOMAIN seen : \E i \in DOMAIN rows : rows[i] = e
            /\ \A i, j, k \in DOMAIN rows :
                 (i < j /\ j < k /\ view.a \in seen[rows[i]] \cap seen[rows[k]])
                   => view.a \in seen[rows[j]]
<1> DEFINE seen == Ledger[tx].seen
           S == DOMAIN seen
           rows == MatrixRows(view, tx)
           n == Len(seen)
<1>1. n \in Nat /\ S = 1..n /\ IsFiniteSet(S) /\ Cardinality(S) = n
  BY LedgerFacts
<1>2. rows = Sorted(S, RowOrder(view, seen))
  BY DEF MatrixRows, RowOrder
<1>3. TotalOn(RowOrder(view, seen), S)
  BY <1>1, RowsOrdered DEF View
<1>4. \A e \in S : view.a = Absent => view.a \notin seen[e]
  BY TxPageConstantsOK
<1>5. \A d, e \in S :
        <<d, e>> \in RowOrder(view, seen) => RowBefore(view, seen, d, e)
  BY DEF RowOrder
<1> HIDE DEF seen, S, rows, n
<1>6. /\ rows \in [1..n -> S]
      /\ \A e \in S : \E i \in 1..n : rows[i] = e
      /\ \A i, j \in 1..n : i < j => <<rows[i], rows[j]>> \in RowOrder(view, seen)
  <2> DEFINE order == RowOrder(view, seen)
             q == Sorted(S, order)
             m == Cardinality(S)
  <2>1. IsFiniteSet(S) /\ TotalOn(order, S) /\ rows = q /\ m = n
    BY <1>1, <1>2, <1>3
  <2> HIDE DEF order
  <2>2. /\ q \in [1..m -> S]
        /\ \A e \in S : \E i \in 1..m : q[i] = e
        /\ \A i, j \in 1..m : i < j => <<q[i], q[j]>> \in order
    BY <2>1, SortedFacts
  <2> HIDE DEF q, m
  <2>3. QED
    BY <2>1, <2>2 DEF order
<1>7. DOMAIN rows = 1..n /\ Len(rows) = n
  <2>1. rows \in Seq(S)
    BY <1>1, <1>6, SeqDef, SMTT(30)
  <2>2. Len(rows) \in Nat /\ DOMAIN rows = 1..Len(rows) /\ DOMAIN rows = 1..n
    BY <1>6, <2>1, LenProperties
  <2>3. 1..Len(rows) = 1..n
    BY <2>2
  <2>4. Len(rows) = n
    BY <1>1, <2>2, <2>3, SameInterval
  <2>5. QED
    BY <2>2, <2>4
<1>8. ASSUME NEW i \in 1..n, NEW j \in 1..n, NEW k \in 1..n, i < j, j < k,
             view.a \in seen[rows[i]], view.a \in seen[rows[k]]
      PROVE  view.a \in seen[rows[j]]
  <2>1. rows[i] \in S /\ rows[j] \in S /\ rows[k] \in S
    BY <1>6
  <2>2. RowBefore(view, seen, rows[i], rows[j]) /\ RowBefore(view, seen, rows[j], rows[k])
    BY <1>5, <1>6, <1>8, <2>1
  <2>3. view.a # Absent
    BY <1>4, <1>8, <2>1
  <2>4. QED
    BY <1>8, <2>2, <2>3 DEF RowBefore
<1> USE DEF seen, S, rows, n
<1>9. QED
  BY <1>6, <1>7, <1>8

LEMMA AnalysisGives ==
  ASSUME TxPageInv
  PROVE  AnalysisFollows
<1> SUFFICES ASSUME privacyTab.query = "have" PROVE AnalysisFollows
  BY DEF AnalysisFollows
<1> DEFINE tx == txPage.tx
           seen == Ledger[tx].seen
           view == privacyTab.view
           rows == MatrixRows(view, tx)
           column(p) == Cardinality({e \in DOMAIN seen : p \in seen[e]})
<1>1. /\ TabOpen(txPage, "privacy") /\ privacyTab.ticked \subseteq ViewersOf(tx)
      /\ ViewOf(view, tx) /\ view \in View /\ tx \in TxIds
  BY DEF TxPageInv, PrivacySound, PageSound, TabOpen, PrivacyTab
<1>2. InCategory(view, tx, {"both", "only a"}) = column(view.a)
  <2>1. \A e \in DOMAIN seen :
          Category(view, seen[e]) \in {"both", "only a"} <=> view.a \in seen[e]
    BY DEF Category
  <2>2. {e \in DOMAIN seen : Category(view, seen[e]) \in {"both", "only a"}}
          = {e \in DOMAIN seen : view.a \in seen[e]}
    BY <2>1
  <2>3. QED
    BY <2>2 DEF InCategory
<1>3. InCategory(view, tx, {"both", "only b"}) = column(view.b)
  <2>1. \A e \in DOMAIN seen :
          Category(view, seen[e]) \in {"both", "only b"} <=> view.b \in seen[e]
    BY DEF Category
  <2>2. {e \in DOMAIN seen : Category(view, seen[e]) \in {"both", "only b"}}
          = {e \in DOMAIN seen : view.b \in seen[e]}
    BY <2>1
  <2>3. QED
    BY <2>2 DEF InCategory
<1>4. /\ Len(rows) = Len(seen) /\ \A e \in DOMAIN seen : \E i \in DOMAIN rows : rows[i] = e
      /\ \A i, j, k \in DOMAIN rows :
           (i < j /\ j < k /\ view.a \in seen[rows[i]] \cap seen[rows[k]])
             => view.a \in seen[rows[j]]
  BY <1>1, RowsFacts
<1>5. view.kind = "comparison" /\ ViewersOf(tx) # {} =>
        {view.a, view.b} \subseteq ViewersOf(tx)
  BY <1>1 DEF ViewOf
<1> HIDE DEF column
<1>6. QED
  BY <1>1, <1>2, <1>3, <1>4, <1>5 DEF AnalysisFollows, column

LEMMA WorkflowGives ==
  ASSUME TxPageInv
  PROVE  WorkflowFollows
<1> SUFFICES ASSUME TabOpen(txPage, "workflow") PROVE WorkflowFollows
  BY DEF WorkflowFollows
<1> DEFINE c == flowTab.correlation
           txs == Timeline(c)
           t == Ledger[txPage.tx]
<1>1. txPage.tx \in TxIds /\ txPage.query = "have" /\ flowTab \in FlowTab
  BY DEF TxPageInv, FlowSound, PageSound, TabOpen
<1>2. flowTab.given /\ Default(txPage) # NoCorrelation => c = Default(txPage)
  BY DEF TxPageInv, FlowSound
<1>3. ASSUME txPage.own = NoCorrelation, c = Default(txPage)
      PROVE  txPage.tx \in txs <=> c.type = "workflow_id" /\ txPage.tx > BootstrapTx
  <2>1. c = IF t.workflow # Absent THEN By("workflow_id", t.workflow, 0)
            ELSE IF t.trace # Absent THEN By("trace_context", t.trace, t.span)
            ELSE NoCorrelation
    BY <1>1, <1>3 DEF Default
  <2>2. t.trace # Absent => t.span # 0
    BY <1>1, LedgerFacts
  <2>3. CASE t.workflow # Absent
    <3>1. c.type = "workflow_id" /\ c.key = t.workflow
      BY <2>1, <2>3 DEF By
    <3>2. QED
      BY <1>1, <3>1 DEF Timeline
  <2>4. CASE t.workflow = Absent /\ t.trace # Absent
    <3>1. c.type = "trace_context" /\ c.span # 0
      BY <2>1, <2>2, <2>4 DEF By
    <3>2. QED
      BY <3>1 DEF Timeline
  <2>5. CASE t.workflow = Absent /\ t.trace = Absent
    <3>1. c.type = Absent
      BY <2>1, <2>5 DEF By, NoCorrelation
    <3>2. QED
      BY <3>1 DEF Timeline, Absent
  <2>6. QED
    BY <2>3, <2>4, <2>5
<1>4. \A i, j \in txs :
        (i < j /\ SameParent(i, j) /\ \A k \in txs : i < k /\ k < j => ~SameParent(i, k))
          => (<<i, j>> \in ContractArrows(txs) <=> <<i, j>> \notin TraceArrows(txs))
  <2> SUFFICES ASSUME NEW i \in txs, NEW j \in txs, i < j, SameParent(i, j),
                      \A k \in txs : i < k /\ k < j => ~SameParent(i, k)
               PROVE  <<i, j>> \in ContractArrows(txs) <=> <<i, j>> \notin TraceArrows(txs)
    OBVIOUS
  <2> HIDE DEF txs
  <2>1. <<i, j>> \in TraceArrows(txs) <=> <<i, j>> \notin ContractArrows(txs)
    BY DEF TraceArrows
  <2>2. QED
    BY <2>1
<1>5. QED
  BY <1>2, <1>3, <1>4 DEF WorkflowFollows

LEMMA TxPageTyped ==
  ASSUME TxPageInv
  PROVE  TxPageTypeOK
<1>1. txPage \in Page /\ privacyTab \in PrivacyTab /\ flowTab \in FlowTab
  BY DEF TxPageInv, PageSound, PrivacySound, FlowSound
<1>2. QED
  BY <1>1 DEF TxPageTypeOK, Page, PrivacyTab, FlowTab, QueryStates, Begun, AllViewers

\* The transaction page (features/transactions) analyses and traces the
\* transaction it shows, however quickly the user goes from one to the next and
\* in whatever order the answers come, for every ledger.
THEOREM TxPageTheorem == TxPageSpec => [](TxPageTypeOK /\ AnalysisFollows /\ WorkflowFollows)
<1>1. TxPageInv => TxPageTypeOK /\ AnalysisFollows /\ WorkflowFollows
  BY AnalysisGives, WorkflowGives, TxPageTyped
<1>2. QED
  BY <1>1, TxPageAlways, PTL

\* Together: what the analysis and the pages show of who sees a transaction is
\* what the ledger has of it.
THEOREM TransactionTheorem == PrivacySpec /\ TxPageSpec => []TransactionShown
<1>1. ProjectionShown /\ AnalysisFollows /\ WorkflowFollows => TransactionShown
  BY DEF TransactionShown
<1>2. QED
  BY <1>1, PrivacyTheorem, TxPageTheorem, PTL

-----------------------------------------------------------------------------
(***************************************************************************)
(* EventsPage: the stream.                                                 *)
(***************************************************************************)

EventsSpec == EventsInit(TRUE) /\ [][EventsNext]_eventsVars

Card == [update : DOMAIN Content \cup {Unset}, event : AllEvents \cup {Summary}]

EventList ==
  [updates : Seq(DOMAIN Content), filter : EventFilters,
   chosen : [key : (DOMAIN Content \cup {Unset}) \X Nat, card : Card],
   atTop : BOOLEAN, unseen : Nat, counted : Nat]

NoneTwice(s) == \A i, j \in DOMAIN s : s[i] = s[j] => i = j

ListSound(l) ==
  /\ l \in EventList /\ NoneTwice(l.updates)
  /\ l.chosen.key[1] = l.chosen.card.update
  /\ l.atTop => l.unseen = 0

LEMMA ContentFacts ==
  ASSUME NEW u \in DOMAIN Content
  PROVE  /\ Len(Content[u]) \in Nat /\ DOMAIN Content[u] = 1..Len(Content[u])
         /\ Content[u] = <<>> <=> DOMAIN Content[u] = {}
         /\ EventsOf(u) \subseteq AllEvents
<1>1. Content[u] \in Seq(EventsOf(u))
  BY EventsConstantsOK
<1>2. Len(Content[u]) \in Nat /\ DOMAIN Content[u] = 1..Len(Content[u])
  BY <1>1, LenProperties
<1>3. Content[u] = <<>> <=> Len(Content[u]) = 0
  BY <1>1, EmptySeq
<1>4. Len(Content[u]) = 0 <=> 1..Len(Content[u]) = {}
  <2> DEFINE n == Len(Content[u])
  <2>1. n \in Nat
    BY <1>2
  <2> HIDE DEF n
  <2>2. n # 0 => 1 \in 1..n
    BY <2>1
  <2>3. n = 0 => 1..n = {}
    OBVIOUS
  <2> USE DEF n
  <2>4. QED
    BY <2>2, <2>3
<1>5. EventsOf(u) \subseteq AllEvents
  BY DEF AllEvents
<1>6. QED
  BY <1>2, <1>3, <1>4, <1>5

LEMMA UpdatesFacts ==
  ASSUME NEW l \in EventList
  PROVE  /\ Len(l.updates) \in Nat /\ DOMAIN l.updates = 1..Len(l.updates)
         /\ \A i \in DOMAIN l.updates : l.updates[i] \in DOMAIN Content
         /\ FilteredEvents(l) \subseteq DOMAIN l.updates
         /\ IsFiniteSet(FilteredEvents(l)) /\ Cardinality(FilteredEvents(l)) \in Nat
<1>1. l.updates \in Seq(DOMAIN Content)
  BY DEF EventList
<1>2. Len(l.updates) \in Nat /\ DOMAIN l.updates = 1..Len(l.updates)
  BY <1>1, LenProperties
<1>3. \A i \in DOMAIN l.updates : l.updates[i] \in DOMAIN Content
  BY <1>1, <1>2, ElementOfSeq
<1>4. IsFiniteSet(DOMAIN l.updates)
  <2>1. 1 \in Int /\ Len(l.updates) \in Int
    BY <1>2
  <2>2. QED
    BY <1>2, <2>1, FS_Interval
<1>5. FilteredEvents(l) \in SUBSET (DOMAIN l.updates)
  BY DEF FilteredEvents
<1>6. IsFiniteSet(FilteredEvents(l))
  BY <1>4, <1>5, FS_Subset
<1>7. QED
  BY <1>2, <1>3, <1>5, <1>6, FS_CardinalityType

\* The events of one update that are drawn.
LEMMA CardsOfFacts ==
  ASSUME NEW f, NEW u \in DOMAIN Content
  PROVE  /\ IsFiniteSet(CardsOf(f, u)) /\ CardsOf(f, u) \subseteq Nat
         /\ \A k \in CardsOf(f, u) : EventAt(u, k) \in AllEvents \cup {Summary}
<1>1. /\ Len(Content[u]) \in Nat /\ DOMAIN Content[u] = 1..Len(Content[u])
      /\ EventsOf(u) \subseteq AllEvents
  BY ContentFacts
<1>2. CASE Content[u] = <<>>
  <2>1. CardsOf(f, u) = {1} /\ \A k \in CardsOf(f, u) : EventAt(u, k) = Summary
    BY <1>2 DEF CardsOf, EventAt
  <2>2. IsFiniteSet({1})
    BY FS_Singleton
  <2>3. QED
    BY <2>1, <2>2
<1>3. CASE Content[u] # <<>>
  <2>1. CardsOf(f, u) \in SUBSET (1..Len(Content[u]))
    BY <1>1, <1>3 DEF CardsOf
  <2>2. 1 \in Int /\ Len(Content[u]) \in Int
    BY <1>1
  <2>3. IsFiniteSet(CardsOf(f, u))
    BY <2>1, <2>2, FS_Interval, FS_Subset
  <2>4. \A k \in CardsOf(f, u) : EventAt(u, k) \in EventsOf(u)
    BY <1>1, <1>3, <2>1 DEF EventAt, EventsOf
  <2>5. QED
    BY <1>1, <2>1, <2>3, <2>4
<1>4. QED
  BY <1>2, <1>3

LEMMA PlacesFacts ==
  ASSUME NEW l \in EventList
  PROVE  /\ IsFiniteSet(Places(l))
         /\ \A p \in Places(l) : /\ p = <<p[1], p[2]>> /\ p[1] \in Nat /\ p[2] \in Nat
                                 /\ p[1] \in FilteredEvents(l)
                                 /\ p[2] \in CardsOf(l.filter, l.updates[p[1]])
         /\ \A i \in FilteredEvents(l) : \A k \in CardsOf(l.filter, l.updates[i]) :
              <<i, k>> \in Places(l)
         /\ TotalOn(NewestFirst(Places(l)), Places(l))
<1> DEFINE F == FilteredEvents(l)
           C(i) == CardsOf(l.filter, l.updates[i])
           T == {C(i) : i \in F}
           P == Places(l)
<1>1. /\ F \subseteq Nat /\ IsFiniteSet(F)
      /\ \A i \in F : l.updates[i] \in DOMAIN Content
  BY UpdatesFacts
<1>2. \A i \in F : IsFiniteSet(C(i)) /\ C(i) \subseteq Nat
  BY <1>1, CardsOfFacts
<1>3. P = UNION {{<<i, k>> : k \in C(i)} : i \in F}
  BY DEF Places
<1>4. IsFiniteSet(P)
  <2>1. [i \in F |-> C(i)] \in Surjection(F, T)
    BY DEF Surjection
  <2>2. IsFiniteSet(T)
    <3> HIDE DEF F, T
    <3> QED BY <1>1, <2>1, FS_Surjection
  <2>3. IsFiniteSet(UNION T)
    <3>1. \A t \in T : IsFiniteSet(t)
      BY <1>2
    <3> HIDE DEF T
    <3> QED BY <2>2, <3>1, FS_UNION
  <2>4. IsFiniteSet(F \X UNION T)
    <3> HIDE DEF F, T
    <3> QED BY <1>1, <2>3, FS_Product
  <2>5. P \in SUBSET (F \X UNION T)
    BY <1>3
  <2>6. QED
    BY <2>4, <2>5, FS_Subset
<1>5. \A p \in P : p = <<p[1], p[2]>> /\ p[1] \in F /\ p[2] \in C(p[1])
  BY <1>3
<1>6. \A i \in F : \A k \in C(i) : <<i, k>> \in P
  BY <1>3
<1>7. \A p \in P : p[1] \in Nat /\ p[2] \in Nat
  BY <1>1, <1>2, <1>5
<1>8. \A p, q \in P : <<p, q>> \in NewestFirst(P)
                        <=> p[1] > q[1] \/ (p[1] = q[1] /\ p[2] > q[2])
  <2> HIDE DEF P
  <2> TAKE p, q \in P
  <2> DEFINE z == <<p, q>>
  <2>1. z \in P \X P /\ z[1] = p /\ z[2] = q
    OBVIOUS
  <2>2. z \in NewestFirst(P) <=> z[1][1] > z[2][1] \/ (z[1][1] = z[2][1] /\ z[1][2] > z[2][2])
    <3> HIDE DEF z
    <3> QED BY <2>1 DEF NewestFirst
  <2>3. QED
    BY <2>1, <2>2
<1> HIDE DEF P
<1>9. TotalOn(NewestFirst(P), P)
  <2>1. \A p \in P : <<p, p>> \notin NewestFirst(P)
    BY <1>7, <1>8
  <2>2. ASSUME NEW p \in P, NEW q \in P, NEW r \in P,
               <<p, q>> \in NewestFirst(P), <<q, r>> \in NewestFirst(P)
        PROVE  <<p, r>> \in NewestFirst(P)
    BY <1>7, <1>8, <2>2
  <2>3. ASSUME NEW p \in P, NEW q \in P, <<p, q>> \notin NewestFirst(P),
               <<q, p>> \notin NewestFirst(P)
        PROVE  p = q
    <3>1. p[1] = q[1] /\ p[2] = q[2]
      BY <1>7, <1>8, <2>3
    <3>2. p = <<p[1], p[2]>> /\ q = <<q[1], q[2]>>
      BY <1>5
    <3>3. QED
      BY <3>1, <3>2
  <2>4. QED
    BY <2>1, <2>2, <2>3 DEF TotalOn
<1> USE DEF P
<1>10. QED
  BY <1>4, <1>5, <1>6, <1>7, <1>9

\* The cards: one for each place, the newest first.
LEMMA CardsFacts ==
  ASSUME NEW l \in EventList
  PROVE  LET P == Places(l)
             n == Cardinality(P)
             drawn == Sorted(P, NewestFirst(P))
             cards == Cards(l)
         IN /\ n \in Nat /\ DOMAIN cards = 1..n
            /\ \A k \in 1..n : /\ drawn[k] \in P
                               /\ cards[k] = [update |-> l.updates[drawn[k][1]],
                                    event |-> EventAt(l.updates[drawn[k][1]], drawn[k][2])]
                               /\ cards[k] \in Card
                               /\ cards[k].update \in DOMAIN Content
            /\ \A p \in P : \E k \in 1..n : drawn[k] = p
            /\ \A j, k \in 1..n : j < k => <<drawn[j], drawn[k]>> \in NewestFirst(P)
<1> DEFINE P == Places(l)
           n == Cardinality(P)
           drawn == Sorted(P, NewestFirst(P))
           cards == Cards(l)
<1>1. /\ IsFiniteSet(P) /\ TotalOn(NewestFirst(P), P)
      /\ \A p \in P : /\ p[1] \in FilteredEvents(l)
                      /\ p[2] \in CardsOf(l.filter, l.updates[p[1]])
  BY PlacesFacts
<1>2. /\ n \in Nat /\ drawn \in [1..n -> P]
      /\ \A p \in P : \E k \in 1..n : drawn[k] = p
      /\ \A j, k \in 1..n : j < k => <<drawn[j], drawn[k]>> \in NewestFirst(P)
  <2> HIDE DEF P
  <2> QED BY <1>1, SortedFacts
<1>3. cards = [k \in DOMAIN drawn |-> [update |-> l.updates[drawn[k][1]],
                 event |-> EventAt(l.updates[drawn[k][1]], drawn[k][2])]]
  BY DEF Cards
<1> HIDE DEF P, n, drawn, cards
<1>4. DOMAIN cards = 1..n /\ \A k \in 1..n :
        cards[k] = [update |-> l.updates[drawn[k][1]],
                    event |-> EventAt(l.updates[drawn[k][1]], drawn[k][2])]
  BY <1>2, <1>3
<1>5. ASSUME NEW k \in 1..n
      PROVE  cards[k] \in Card /\ cards[k].update \in DOMAIN Content
  <2> DEFINE u == l.updates[drawn[k][1]]
  <2>1. drawn[k] \in P
    BY <1>2
  <2>2. u \in DOMAIN Content /\ drawn[k][2] \in CardsOf(l.filter, u)
    BY <1>1, <2>1, UpdatesFacts
  <2>3. EventAt(u, drawn[k][2]) \in AllEvents \cup {Summary}
    BY <2>2, CardsOfFacts
  <2>4. cards[k] = [update |-> u, event |-> EventAt(u, drawn[k][2])]
    BY <1>4
  <2> HIDE DEF u
  <2>5. QED
    BY <2>2, <2>3, <2>4 DEF Card
<1> USE DEF P, n, drawn, cards
<1>6. QED
  BY <1>2, <1>4, <1>5

\* A list without repetitions that something new joins at either end.
LEMMA NoneTwiceGrows ==
  ASSUME NEW S, NEW s \in Seq(S), NEW u \in S, NoneTwice(s),
         \A i \in DOMAIN s : s[i] # u
  PROVE  /\ Append(s, u) \in Seq(S) /\ NoneTwice(Append(s, u))
         /\ <<u>> \o s \in Seq(S) /\ NoneTwice(<<u>> \o s)
<1> DEFINE n == Len(s)
           a == Append(s, u)
           b == <<u>> \o s
<1>1. n \in Nat /\ DOMAIN s = 1..n
  BY LenProperties
<1>2. a \in Seq(S) /\ DOMAIN a = 1..(n + 1) /\ a[n + 1] = u
      /\ \A i \in 1..n : a[i] = s[i]
  BY <1>1, AppendProperties, LenProperties
<1>3. <<u>> \in Seq(S) /\ Len(<<u>>) = 1 /\ <<u>>[1] = u
  OBVIOUS
<1>4. /\ b \in Seq(S) /\ Len(b) = n + 1
      /\ \A i \in 1..Len(b) : b[i] = IF i <= 1 THEN <<u>>[i] ELSE s[i - 1]
  BY <1>3, ConcatProperties
<1>5. DOMAIN b = 1..(n + 1) /\ b[1] = u /\ \A i \in 2..(n + 1) : b[i] = s[i - 1]
  BY <1>1, <1>3, <1>4, LenProperties
<1> HIDE DEF n, a, b
<1>6. NoneTwice(a)
  <2> SUFFICES ASSUME NEW i \in 1..(n + 1), NEW j \in 1..(n + 1), a[i] = a[j]
               PROVE  i = j
    BY <1>2 DEF NoneTwice
  <2>1. CASE i \in 1..n /\ j \in 1..n
    BY <1>1, <1>2, <2>1 DEF NoneTwice
  <2>2. CASE i = n + 1 \/ j = n + 1
    BY <1>1, <1>2, <2>2
  <2>3. QED
    BY <1>1, <2>1, <2>2
<1>7. NoneTwice(b)
  <2> SUFFICES ASSUME NEW i \in 1..(n + 1), NEW j \in 1..(n + 1), b[i] = b[j]
               PROVE  i = j
    BY <1>5 DEF NoneTwice
  <2>1. CASE i # 1 /\ j # 1
    <3>1. i - 1 \in 1..n /\ j - 1 \in 1..n /\ s[i - 1] = s[j - 1]
      BY <1>1, <1>5, <2>1
    <3>2. i - 1 = j - 1
      BY <1>1, <3>1 DEF NoneTwice
    <3>3. QED
      BY <1>1, <3>2
  <2>2. CASE i = 1 /\ j # 1
    <3>1. j - 1 \in 1..n /\ s[j - 1] = u
      BY <1>1, <1>5, <2>2
    <3>2. QED
      BY <1>1, <3>1
  <2>3. CASE i # 1 /\ j = 1
    <3>1. i - 1 \in 1..n /\ s[i - 1] = u
      BY <1>1, <1>5, <2>3
    <3>2. QED
      BY <1>1, <3>1
  <2>4. QED
    BY <2>1, <2>2, <2>3
<1> USE DEF n, a, b
<1>8. QED
  BY <1>2, <1>4, <1>6, <1>7

\* The effect that counts what passes leaves the rest.
LEMMA CountedSound ==
  ASSUME NEW l, ListSound(l)
  PROVE  ListSound(Counted(l))
<1> DEFINE n == Cardinality(FilteredEvents(l))
           top == l.atTop
           m == IF n > l.counted /\ ~top THEN l.unseen + n - l.counted ELSE l.unseen
           r == Counted(l)
<1>1. l \in EventList /\ NoneTwice(l.updates) /\ l.chosen.key[1] = l.chosen.card.update
      /\ top \in BOOLEAN /\ (top => l.unseen = 0)
      /\ l.unseen \in Nat /\ l.counted \in Nat
  BY DEF ListSound, EventList
<1>2. n \in Nat
  BY <1>1, UpdatesFacts
<1>3. r = [l EXCEPT !.counted = n, !.unseen = m]
  BY DEF Counted
<1> HIDE DEF n, top
<1>4. m \in Nat /\ (top => m = 0)
  BY <1>1, <1>2
<1> HIDE DEF m, r
<1>5. /\ r \in EventList /\ r.updates = l.updates /\ r.chosen = l.chosen
      /\ r.atTop = l.atTop /\ r.unseen = m
  BY <1>1, <1>2, <1>3, <1>4 DEF EventList
<1>6. top = l.atTop
  BY DEF top
<1>7. QED
  <2>1. ListSound(r)
    BY <1>1, <1>4, <1>5, <1>6 DEF ListSound
  <2> USE DEF r
  <2>2. QED
    BY <2>1

\* Other updates or another filter, and nothing else.
LEMMA UpdatesReplaced ==
  ASSUME NEW l, ListSound(l), NEW s \in Seq(DOMAIN Content), NoneTwice(s)
  PROVE  ListSound([l EXCEPT !.updates = s])
<1> DEFINE r == [l EXCEPT !.updates = s]
<1>1. l \in EventList /\ l.chosen.key[1] = l.chosen.card.update /\ (l.atTop => l.unseen = 0)
  BY DEF ListSound
<1>2. /\ r \in EventList /\ r.updates = s /\ r.chosen = l.chosen
      /\ r.atTop = l.atTop /\ r.unseen = l.unseen
  BY <1>1 DEF EventList
<1> HIDE DEF r
<1>3. ListSound(r)
  BY <1>1, <1>2 DEF ListSound
<1> USE DEF r
<1>4. QED
  BY <1>3

LEMMA FilterReplaced ==
  ASSUME NEW l, ListSound(l), NEW f \in EventFilters
  PROVE  ListSound([l EXCEPT !.filter = f])
<1> DEFINE r == [l EXCEPT !.filter = f]
<1>1. /\ l \in EventList /\ NoneTwice(l.updates)
      /\ l.chosen.key[1] = l.chosen.card.update /\ (l.atTop => l.unseen = 0)
  BY DEF ListSound
<1>2. /\ r \in EventList /\ r.updates = l.updates /\ r.chosen = l.chosen
      /\ r.atTop = l.atTop /\ r.unseen = l.unseen
  BY <1>1 DEF EventList
<1> HIDE DEF r
<1>3. ListSound(r)
  BY <1>1, <1>2 DEF ListSound
<1> USE DEF r
<1>4. QED
  BY <1>3

LEMMA ArrivesStep == ListSound(list) /\ Arrives => ListSound(list')
<1> SUFFICES ASSUME ListSound(list), Arrives PROVE ListSound(list')
  OBVIOUS
<1> DEFINE s == list.updates
<1>1. PICK u \in DOMAIN Content \ Stored(list) :
        \/ list' = Counted([list EXCEPT !.updates = Append(s, u)])
        \/ list' = Counted([list EXCEPT !.updates = <<u>> \o s])
  BY DEF Arrives
<1>2. s \in Seq(DOMAIN Content) /\ NoneTwice(s) /\ \A i \in DOMAIN s : s[i] # u
  BY DEF ListSound, EventList, Stored
<1> DEFINE a == Append(s, u)
           b == <<u>> \o s
<1>3. a \in Seq(DOMAIN Content) /\ NoneTwice(a) /\ b \in Seq(DOMAIN Content) /\ NoneTwice(b)
  <2> HIDE DEF s
  <2> QED BY <1>2, NoneTwiceGrows
<1>4. list' = Counted([list EXCEPT !.updates = a]) \/ list' = Counted([list EXCEPT !.updates = b])
  BY <1>1
<1> HIDE DEF a, b
<1>5. ListSound([list EXCEPT !.updates = a]) /\ ListSound([list EXCEPT !.updates = b])
  BY <1>3, UpdatesReplaced
<1>6. QED
  BY <1>4, <1>5, CountedSound

LEMMA ClearListStep == ListSound(list) /\ ClearList => ListSound(list')
<1> SUFFICES ASSUME ListSound(list), ClearList PROVE ListSound(list')
  OBVIOUS
<1> DEFINE e == <<>>
<1>1. list' = Counted([list EXCEPT !.updates = e])
  BY DEF ClearList
<1>2. e \in Seq(DOMAIN Content) /\ NoneTwice(e)
  BY DEF NoneTwice
<1> HIDE DEF e
<1>3. QED
  BY <1>1, <1>2, UpdatesReplaced, CountedSound

LEMMA FilterListStep == ListSound(list) /\ FilterList => ListSound(list')
<1> SUFFICES ASSUME ListSound(list), FilterList PROVE ListSound(list')
  OBVIOUS
<1> DEFINE now == list.filter
           WithTypes(t) == [now EXCEPT !.types = IF t \in @ THEN @ \ {t} ELSE @ \cup {t}]
           WithTemplate(t) == [now EXCEPT !.template = t]
           WithParty(p) == [now EXCEPT !.party = p]
           WithContract(c) == [now EXCEPT !.contract = c]
<1>1. list \in EventList /\ now \in EventFilters
  BY DEF ListSound, EventList
<1>2. \E f \in EventFilters : list' = Counted([list EXCEPT !.filter = f])
  <2>1. ASSUME NEW t \in EventTypes,
               list' = Counted([list EXCEPT
                 !.filter.types = IF t \in @ THEN @ \ {t} ELSE @ \cup {t}])
        PROVE  \E f \in EventFilters : list' = Counted([list EXCEPT !.filter = f])
    <3>1. WithTypes(t) \in EventFilters
      BY <1>1 DEF EventFilters
    <3>2. list' = Counted([list EXCEPT !.filter = WithTypes(t)])
      BY <2>1
    <3>3. QED
      BY <3>1, <3>2
  <2>2. ASSUME NEW p \in PartiesSeen \cup {Unset},
               list' = Counted([list EXCEPT !.filter.party = p])
        PROVE  \E f \in EventFilters : list' = Counted([list EXCEPT !.filter = f])
    <3>1. WithParty(p) \in EventFilters
      BY <1>1 DEF EventFilters
    <3>2. list' = Counted([list EXCEPT !.filter = WithParty(p)])
      BY <2>2
    <3>3. QED
      BY <3>1, <3>2
  <2>3. ASSUME NEW c \in ContractsSeen \cup {Unset},
               list' = Counted([list EXCEPT !.filter.contract = c])
        PROVE  \E f \in EventFilters : list' = Counted([list EXCEPT !.filter = f])
    <3>1. WithContract(c) \in EventFilters
      BY <1>1 DEF EventFilters
    <3>2. list' = Counted([list EXCEPT !.filter = WithContract(c)])
      BY <2>3
    <3>3. QED
      BY <3>1, <3>2
  <2>4. ASSUME NEW t \in TemplatesSeen \cup {Unset},
               list' = Counted([list EXCEPT !.filter.template = t])
        PROVE  \E f \in EventFilters : list' = Counted([list EXCEPT !.filter = f])
    <3>1. WithTemplate(t) \in EventFilters
      BY <1>1 DEF EventFilters
    <3>2. list' = Counted([list EXCEPT !.filter = WithTemplate(t)])
      BY <2>4
    <3>3. QED
      BY <3>1, <3>2
  <2>5. NoFilter \in EventFilters
    BY DEF NoFilter, EventFilters
  <2>6. QED
    BY <2>1, <2>2, <2>3, <2>4, <2>5 DEF FilterList
<1>3. PICK f \in EventFilters : list' = Counted([list EXCEPT !.filter = f])
  BY <1>2
<1> DEFINE r == [list EXCEPT !.filter = f]
<1>4. ListSound(r)
  BY FilterReplaced
<1> HIDE DEF r
<1>5. ListSound(Counted(r))
  BY <1>4, CountedSound
<1> USE DEF r
<1>6. QED
  BY <1>3, <1>5

\* Another card, or none.
LEMMA ChosenReplaced ==
  ASSUME NEW l, ListSound(l), NEW k \in (DOMAIN Content \cup {Unset}) \X Nat,
         NEW c \in Card, k[1] = c.update
  PROVE  ListSound([l EXCEPT !.chosen = [key |-> k, card |-> c]])
<1> DEFINE h == [key |-> k, card |-> c]
           r == [l EXCEPT !.chosen = h]
<1>1. l \in EventList /\ NoneTwice(l.updates) /\ (l.atTop => l.unseen = 0)
  BY DEF ListSound
<1>2. h \in [key : (DOMAIN Content \cup {Unset}) \X Nat, card : Card]
      /\ h.key[1] = h.card.update
  OBVIOUS
<1> HIDE DEF h
<1>3. /\ r \in EventList /\ r.updates = l.updates /\ r.chosen = h
      /\ r.atTop = l.atTop /\ r.unseen = l.unseen
  BY <1>1, <1>2 DEF EventList
<1> HIDE DEF r
<1>4. ListSound(r)
  BY <1>1, <1>2, <1>3 DEF ListSound
<1> USE DEF h, r
<1>5. QED
  BY <1>4

LEMMA SelectEventStep == ListSound(list) /\ SelectEvent => ListSound(list')
<1> SUFFICES ASSUME ListSound(list), SelectEvent PROVE ListSound(list')
  OBVIOUS
<1> DEFINE cards == Cards(list)
           n == Cardinality(Places(list))
           s == [update |-> Unset, event |-> Summary]
<1>1. list \in EventList
  BY DEF ListSound
<1>2. n \in Nat /\ DOMAIN cards = 1..n
      /\ \A i \in 1..n : cards[i] \in Card /\ cards[i].update \in DOMAIN Content
  BY <1>1, CardsFacts
<1>3. ListSound([list EXCEPT !.chosen = NoChoice])
  <2> DEFINE k == <<Unset, 0>>
  <2>1. /\ k \in (DOMAIN Content \cup {Unset}) \X Nat /\ k[1] = s.update
        /\ s \in Card
    BY DEF Card
  <2>2. NoChoice = [key |-> k, card |-> s]
    BY DEF NoChoice
  <2> HIDE DEF k, s
  <2>3. QED
    BY <2>1, <2>2, ChosenReplaced
<1>4. ASSUME NEW i \in 1..n
      PROVE  ListSound([list EXCEPT !.chosen = [key |-> EventKey(cards, i), card |-> cards[i]]])
  <2> DEFINE k == EventKey(cards, i)
             c == cards[i]
  <2>1. k = <<c.update, i>> /\ c \in Card /\ c.update \in DOMAIN Content
    BY <1>2 DEF EventKey
  <2>2. k \in (DOMAIN Content \cup {Unset}) \X Nat /\ k[1] = c.update
    BY <1>2, <2>1
  <2> HIDE DEF k, c
  <2>3. ListSound([list EXCEPT !.chosen = [key |-> k, card |-> c]])
    BY <2>1, <2>2, ChosenReplaced
  <2> USE DEF k, c
  <2>4. QED
    BY <2>3
<1>5. \/ list' = [list EXCEPT !.chosen = NoChoice]
      \/ \E i \in 1..n :
           list' = [list EXCEPT !.chosen = [key |-> EventKey(cards, i), card |-> cards[i]]]
  BY <1>2 DEF SelectEvent
<1>6. QED
  BY <1>3, <1>4, <1>5

LEMMA ScrollStep == ListSound(list) /\ Scroll => ListSound(list')
<1> SUFFICES ASSUME ListSound(list), Scroll PROVE ListSound(list')
  OBVIOUS
<1>1. list \in EventList /\ NoneTwice(list.updates) /\ list.chosen.key[1] = list.chosen.card.update
  BY DEF ListSound
<1>2. list' = [list EXCEPT !.atTop = TRUE, !.unseen = 0] \/ list' = [list EXCEPT !.atTop = FALSE]
  BY DEF Scroll
<1>3. CASE list' = [list EXCEPT !.atTop = TRUE, !.unseen = 0]
  <2>1. /\ list' \in EventList /\ list'.updates = list.updates /\ list'.chosen = list.chosen
        /\ list'.unseen = 0
    BY <1>1, <1>3 DEF EventList
  <2>2. QED
    BY <1>1, <2>1 DEF ListSound
<1>4. CASE list' = [list EXCEPT !.atTop = FALSE]
  <2> DEFINE b == FALSE
  <2>1. b \in BOOLEAN /\ ~b /\ list' = [list EXCEPT !.atTop = b]
    BY <1>4
  <2> HIDE DEF b
  <2>2. /\ list' \in EventList /\ list'.updates = list.updates /\ list'.chosen = list.chosen
        /\ list'.atTop = b
    BY <1>1, <2>1 DEF EventList
  <2>3. QED
    BY <1>1, <2>1, <2>2 DEF ListSound
<1>5. QED
  BY <1>2, <1>3, <1>4

LEMMA ListInitFacts ==
  /\ ListInit \in EventList /\ ListInit.updates = <<>> /\ ListInit.unseen = 0
  /\ ListInit.chosen.key[1] = ListInit.chosen.card.update
<1> DEFINE b == TRUE
<1>1. ListInit = [updates |-> <<>>, filter |-> NoFilter, chosen |-> NoChoice, atTop |-> b,
                  unseen |-> 0, counted |-> 0]
  BY DEF ListInit
<1>2. b \in BOOLEAN
  OBVIOUS
<1> HIDE DEF b
<1>3. NoFilter \in EventFilters /\ <<>> \in Seq(DOMAIN Content)
  BY DEF NoFilter, EventFilters
<1>4. /\ NoChoice \in [key : (DOMAIN Content \cup {Unset}) \X Nat, card : Card]
      /\ NoChoice.key[1] = NoChoice.card.update
  BY DEF NoChoice, Card
<1>5. QED
  BY <1>1, <1>2, <1>3, <1>4 DEF EventList

LEMMA ReopenStep == ListSound(list) /\ ReopenStream => ListSound(list')
<1> SUFFICES ASSUME ListSound(list), ReopenStream PROVE ListSound(list')
  OBVIOUS
<1> DEFINE f == [list.filter EXCEPT !.contract = Unset]
           l == [ListInit EXCEPT !.updates = list.updates, !.filter = f]
           n == Cardinality(FilteredEvents(l))
<1>1. /\ list.updates \in Seq(DOMAIN Content) /\ NoneTwice(list.updates)
      /\ list.filter \in EventFilters
  BY DEF ListSound, EventList
<1>2. f \in EventFilters
  BY <1>1 DEF EventFilters
<1>3. list' = [l EXCEPT !.counted = n]
  BY DEF ReopenStream
<1> HIDE DEF f
<1>4. /\ l \in EventList /\ l.updates = list.updates /\ l.unseen = 0
      /\ l.chosen = ListInit.chosen
  BY <1>1, <1>2, ListInitFacts DEF EventList
<1> HIDE DEF l
<1>5. n \in Nat
  BY <1>4, UpdatesFacts
<1> HIDE DEF n
<1>6. /\ list' \in EventList /\ list'.updates = list.updates /\ list'.unseen = 0
      /\ list'.chosen = ListInit.chosen
  BY <1>3, <1>4, <1>5 DEF EventList
<1>7. QED
  BY <1>1, <1>6, ListInitFacts DEF ListSound

\* What is drawn is what the updates have that passes.
LEMMA StreamGives == ListSound(list) => StreamListed
<1> SUFFICES ASSUME ListSound(list) PROVE StreamListed
  OBVIOUS
<1> DEFINE f == list.filter
           ups == list.updates
           P == Places(list)
           n == Cardinality(P)
           drawn == Sorted(P, NewestFirst(P))
           cards == Cards(list)
           Shown == {cards[i] : i \in DOMAIN cards}
           Wanted == {[update |-> u, event |-> e] : u \in Stored(list), e \in AllEvents}
           Passes(c) == /\ c.event \in EventsOf(c.update)
                        /\ UpdatePasses(f, c.update)
                        /\ EventPasses(f, c.event)
           PlaceOf(u) == CHOOSE i \in DOMAIN ups : ups[i] = u
<1>1. list \in EventList /\ NoneTwice(ups) /\ list.chosen.key[1] = list.chosen.card.update
      /\ (list.atTop => list.unseen = 0)
  BY DEF ListSound
<1>2. /\ n \in Nat /\ DOMAIN cards = 1..n
      /\ \A k \in 1..n : /\ drawn[k] \in P
                         /\ cards[k] = [update |-> ups[drawn[k][1]],
                              event |-> EventAt(ups[drawn[k][1]], drawn[k][2])]
      /\ \A p \in P : \E k \in 1..n : drawn[k] = p
      /\ \A j, k \in 1..n : j < k => <<drawn[j], drawn[k]>> \in NewestFirst(P)
  BY <1>1, CardsFacts
<1>3. /\ \A p \in P : /\ p[1] \in Nat /\ p[1] \in FilteredEvents(list)
                      /\ p[2] \in CardsOf(f, ups[p[1]])
      /\ \A i \in FilteredEvents(list) : \A k \in CardsOf(f, ups[i]) : <<i, k>> \in P
  BY <1>1, PlacesFacts
<1>4. /\ \A i \in DOMAIN ups : ups[i] \in DOMAIN Content
      /\ FilteredEvents(list) \subseteq DOMAIN ups
  BY <1>1, UpdatesFacts
<1> HIDE DEF P, n, drawn, cards
<1>5. ASSUME NEW c \in Shown, Content[c.update] # <<>>
      PROVE  c \in Wanted /\ Passes(c)
  <2>1. PICK k \in 1..n : c = cards[k]
    BY <1>2
  <2> DEFINE i == drawn[k][1]
             e == drawn[k][2]
             u == ups[i]
  <2>2. /\ i \in FilteredEvents(list) /\ e \in CardsOf(f, u)
        /\ c = [update |-> u, event |-> EventAt(u, e)]
    BY <1>2, <1>3, <2>1
  <2>3. i \in DOMAIN ups /\ UpdatePasses(f, u)
    BY <2>2 DEF FilteredEvents
  <2>4. u \in Stored(list) /\ u \in DOMAIN Content
    BY <1>4, <2>3 DEF Stored
  <2> HIDE DEF i, e, u
  <2>5. c.update = u /\ c.event = EventAt(u, e)
    BY <2>2
  <2>6. e \in DOMAIN Content[u] /\ EventPasses(f, Content[u][e]) /\ c.event = Content[u][e]
    BY <1>5, <2>2, <2>5 DEF CardsOf, EventAt
  <2>7. c.event \in EventsOf(u) /\ EventsOf(u) \subseteq AllEvents
    BY <2>4, <2>6, ContentFacts DEF EventsOf
  <2>8. c \in Wanted
    BY <2>2, <2>4, <2>5, <2>7
  <2>9. QED
    BY <2>3, <2>5, <2>6, <2>7, <2>8 DEF u
<1>6. ASSUME NEW c \in Wanted, Passes(c)
      PROVE  c \in Shown /\ Content[c.update] # <<>>
  <2>1. PICK u \in Stored(list), e \in AllEvents : c = [update |-> u, event |-> e]
    OBVIOUS
  <2>2. c.update = u /\ c.event = e
    BY <2>1
  <2>3. PICK i \in DOMAIN ups : ups[i] = u
    BY DEF Stored
  <2>4. u \in DOMAIN Content /\ i \in FilteredEvents(list)
    BY <1>4, <1>6, <2>2, <2>3 DEF FilteredEvents
  <2>5. PICK k \in DOMAIN Content[u] : e = Content[u][k]
    BY <1>6, <2>2 DEF EventsOf
  <2>6. Content[u] # <<>>
    BY <2>4, <2>5, ContentFacts
  <2>7. k \in CardsOf(f, u) /\ EventAt(u, k) = e
    BY <1>6, <2>2, <2>5, <2>6 DEF CardsOf, EventAt
  <2> DEFINE p == <<i, k>>
  <2>8. p \in P /\ p[1] = i /\ p[2] = k
    BY <1>3, <2>3, <2>4, <2>7
  <2> HIDE DEF p
  <2>9. PICK j \in 1..n : drawn[j] = p
    BY <1>2, <2>8
  <2>10. cards[j] = c
    BY <1>2, <2>1, <2>3, <2>7, <2>8, <2>9
  <2>11. QED
    BY <1>2, <2>2, <2>6, <2>10
<1>7. {c \in Shown : Content[c.update] # <<>>} = {c \in Wanted : Passes(c)}
  <2> HIDE DEF Shown, Wanted, Passes
  <2> QED BY <1>5, <1>6
<1>8. ASSUME NEW i \in DOMAIN cards, NEW j \in DOMAIN cards, i < j
      PROVE  PlaceOf(cards[i].update) >= PlaceOf(cards[j].update)
  <2> DEFINE a == drawn[i][1]
             b == drawn[j][1]
             z == <<drawn[i], drawn[j]>>
  <2>1. /\ a \in DOMAIN ups /\ b \in DOMAIN ups /\ a \in Nat /\ b \in Nat
        /\ cards[i].update = ups[a] /\ cards[j].update = ups[b]
    BY <1>2, <1>3, <1>4
  <2>2. z \in NewestFirst(P) /\ z[1][1] = a /\ z[2][1] = b
    BY <1>2, <1>8
  <2>3. a >= b
    <3> HIDE DEF z, a, b
    <3> QED BY <2>1, <2>2 DEF NewestFirst
  <2>4. \A m \in DOMAIN ups : PlaceOf(ups[m]) = m
    BY <1>1 DEF NoneTwice
  <2>5. QED
    <3> HIDE DEF a, b, PlaceOf
    <3> QED BY <2>1, <2>3, <2>4
<1>9. ASSUME NEW i \in DOMAIN cards, list.chosen.key = EventKey(cards, i)
      PROVE  cards[i].update = list.chosen.card.update
  BY <1>1, <1>9 DEF EventKey
<1> USE DEF cards
<1>10. QED
  BY <1>1, <1>7, <1>8, <1>9 DEF StreamListed

-----------------------------------------------------------------------------
(***************************************************************************)
(* EventsPage: the tables.                                                 *)
(***************************************************************************)

Optional(S) == {Missing} \cup {<<s>> : s \in S}

LEMMA OptionalFacts ==
  ASSUME NEW S, NEW x \in Optional(S)
  PROVE  x # Missing => Value(x) \in S /\ x = <<Value(x)>>
BY DEF Optional, Missing, Value

LEMMA PresentFacts ==
  ASSUME NEW s
  PROVE  <<s>> # Missing /\ Value(<<s>>) = s
BY DEF Missing, Value

\* An entry of a query, before and after a fetch begins or ends.
LEMMA EntriesFacts ==
  ASSUME NEW S, NEW q \in Entries(S)
  PROVE  q.data \in Optional(S) /\ q.flying \in Optional(S) /\ q.failed \in BOOLEAN
BY DEF Entries, Optional

LEMMA NoEntryFacts ==
  ASSUME NEW S
  PROVE  NoEntry \in Entries(S) /\ NoEntry.data = Missing /\ NoEntry.flying = Missing
<1> DEFINE b == FALSE
           m == Missing
<1>1. NoEntry = [data |-> m, flying |-> m, failed |-> b] /\ b \in BOOLEAN /\ m \in Optional(S)
  BY DEF NoEntry, Optional
<1>2. Entries(S) = [data : Optional(S), flying : Optional(S), failed : BOOLEAN]
  BY DEF Entries, Optional
<1> HIDE DEF b, m
<1>3. NoEntry \in Entries(S) /\ NoEntry.data = m /\ NoEntry.flying = m
  BY <1>1, <1>2
<1> USE DEF m
<1>4. QED
  BY <1>3

LEMMA FetchFacts ==
  ASSUME NEW S, NEW q \in Entries(S), NEW s \in S
  PROVE  LET started == FetchStarted(q, s)
             succeeded == FetchSucceeded(q)
             failed == FetchFailed(q)
         IN /\ started \in Entries(S) /\ started.data = q.data
            /\ started.flying = q.flying \/ started.flying = <<s>>
            /\ succeeded \in Entries(S)
            /\ succeeded.data = q.flying /\ succeeded.flying = Missing
            /\ failed \in Entries(S) /\ failed.data = q.data /\ failed.flying = Missing
<1> DEFINE E == [data : Optional(S), flying : Optional(S), failed : BOOLEAN]
           b == q.failed /\ q.data # Missing
           no == FALSE
           yes == TRUE
           m == Missing
           o == <<s>>
<1>1. /\ q \in E /\ b \in BOOLEAN /\ no \in BOOLEAN /\ yes \in BOOLEAN
      /\ m \in Optional(S) /\ o \in Optional(S) /\ E = Entries(S)
  BY DEF Entries, Optional
<1>2. /\ FetchStarted(q, s) = q \/ FetchStarted(q, s) = [q EXCEPT !.flying = o, !.failed = b]
      /\ FetchSucceeded(q) = [data |-> q.flying, flying |-> m, failed |-> no]
      /\ FetchFailed(q) = [q EXCEPT !.flying = m, !.failed = yes]
  BY DEF FetchStarted, FetchSucceeded, FetchFailed
<1> HIDE DEF b, no, yes, m, o
<1>3. /\ [q EXCEPT !.flying = o, !.failed = b] \in E
      /\ [q EXCEPT !.flying = o, !.failed = b].data = q.data
      /\ [q EXCEPT !.flying = o, !.failed = b].flying = o
  BY <1>1
<1>4. FetchStarted(q, s) \in E /\ FetchStarted(q, s).data = q.data
      /\ (FetchStarted(q, s).flying = q.flying \/ FetchStarted(q, s).flying = o)
  BY <1>1, <1>2, <1>3
<1>5. FetchSucceeded(q) \in E /\ FetchSucceeded(q).data = q.flying /\ FetchSucceeded(q).flying = m
  BY <1>1, <1>2
<1>6. FetchFailed(q) \in E /\ FetchFailed(q).data = q.data /\ FetchFailed(q).flying = m
  BY <1>1, <1>2
<1> USE DEF m, o
<1>7. QED
  BY <1>1, <1>4, <1>5, <1>6

TableRec ==
  [ledger : Answers, filter : TableFilters, before : TableFilters,
   entries : [TableFilters -> Entries(Answers)], fetches : 0..MaxFetches,
   byState : BOOLEAN, descending : BOOLEAN,
   selected : Lines \cup {NoLine}, detail : 0..2]

\* An answer under a filter says nothing that the ledger does not say by now, and
\* of errors only what passes.
AnswerSound(a, f, ledger) ==
  \A row \in Lines : /\ a[row] <= ledger[row]
                     /\ tab = "errors" /\ a[row] > 0 => f \in {Unfiltered, a[row]}

OptionSound(x, f, ledger) == x # Missing => AnswerSound(Value(x), f, ledger)

EntrySound(q, f, ledger) == OptionSound(q.data, f, ledger) /\ OptionSound(q.flying, f, ledger)

TableSound(t) == t \in TableRec /\ \A f \in TableFilters : EntrySound(t.entries[f], f, t.ledger)

\* The copy of the selected reassignment.
DetailSound(t) ==
  (tab = "reassignments" /\ t.selected # NoLine /\ TableShown(t)[t.selected] > 0)
    => t.detail = TableShown(t)[t.selected]

LEMMA FilteredFacts ==
  ASSUME NEW f, NEW a \in Answers
  PROVE  /\ Filtered(f, a) \in Answers /\ NoneListed \in Answers
         /\ \A row \in Lines : /\ NoneListed[row] = 0
                               /\ Filtered(f, a)[row] \in {0, a[row]}
                               /\ Filtered(f, a)[row] > 0 =>
                                    f \in {Unfiltered, Filtered(f, a)[row]}
<1>1. \A row \in Lines : a[row] \in 0..2
  BY DEF Answers
<1>2. QED
  BY <1>1 DEF Filtered, NoneListed, Answers

\* What a table shows: nothing, or an answer to its filter or to the one before.
LEMMA ShownFacts ==
  ASSUME NEW t, TableSound(t)
  PROVE  /\ TableShown(t) \in Answers
         /\ \A row \in Lines : TableShown(t)[row] > 0 =>
              /\ TableShown(t)[row] <= t.ledger[row]
              /\ (tab = "errors" /\ TableEntry(t).data = Missing)
                   \/ t.filter \in {Unfiltered, TableShown(t)[row]}
<1> DEFINE own == t.entries[t.filter].data
           lent == t.entries[t.before].data
           err == tab = "errors"
<1>1. /\ t.filter \in TableFilters /\ t.before \in TableFilters /\ t.ledger \in Answers
      /\ \A f \in TableFilters : t.entries[f] \in Entries(Answers)
                                 /\ EntrySound(t.entries[f], f, t.ledger)
  BY DEF TableSound, TableRec
<1>2. /\ own \in Optional(Answers) /\ OptionSound(own, t.filter, t.ledger)
      /\ lent \in Optional(Answers) /\ OptionSound(lent, t.before, t.ledger)
  BY <1>1, EntriesFacts DEF EntrySound
<1>3. /\ own # Missing => Value(own) \in Answers /\ AnswerSound(Value(own), t.filter, t.ledger)
      /\ lent # Missing => Value(lent) \in Answers /\ AnswerSound(Value(lent), t.before, t.ledger)
  BY <1>2, OptionalFacts DEF OptionSound
<1>4. TableEntry(t).data = own
  BY DEF TableEntry
<1> HIDE DEF own, lent
<1>5. \/ TableShown(t) = NoneListed
      \/ \E x \in {own, lent} :
           /\ x # Missing /\ (x = own \/ own = Missing)
           /\ TableShown(t) = IF err THEN Value(x) ELSE Filtered(t.filter, Value(x))
  BY <1>4 DEF TableShown, TableData, own, lent
<1>6. CASE TableShown(t) = NoneListed
  <2>1. t.ledger \in Answers
    BY <1>1
  <2>2. QED
    BY <1>6, <2>1, FilteredFacts
<1>7. ASSUME NEW x \in {own, lent}, x # Missing, x = own \/ own = Missing,
             TableShown(t) = IF err THEN Value(x) ELSE Filtered(t.filter, Value(x))
      PROVE  /\ TableShown(t) \in Answers
             /\ \A row \in Lines : TableShown(t)[row] > 0 =>
                  /\ TableShown(t)[row] <= t.ledger[row]
                  /\ (err /\ own = Missing) \/ t.filter \in {Unfiltered, TableShown(t)[row]}
  <2> DEFINE a == Value(x)
  <2>1. /\ a \in Answers /\ \A row \in Lines : a[row] <= t.ledger[row]
        /\ err /\ own # Missing => \A row \in Lines :
             a[row] > 0 => t.filter \in {Unfiltered, a[row]}
    BY <1>3, <1>7 DEF AnswerSound
  <2>2. \A row \in Lines : a[row] \in 0..2 /\ t.ledger[row] \in 0..2
    BY <1>1, <2>1 DEF Answers
  <2>3. CASE err
    <3>1. TableShown(t) = a
      BY <1>7, <2>3
    <3>2. QED
      BY <2>1, <2>3, <3>1
  <2>4. CASE ~err
    <3>1. TableShown(t) = Filtered(t.filter, a)
      BY <1>7, <2>4
    <3> HIDE DEF a
    <3>2. /\ TableShown(t) \in Answers
          /\ \A row \in Lines : /\ TableShown(t)[row] \in {0, a[row]}
                                /\ TableShown(t)[row] > 0 =>
                                     t.filter \in {Unfiltered, TableShown(t)[row]}
      BY <2>1, <3>1, FilteredFacts
    <3>3. QED
      BY <2>1, <2>2, <3>2
  <2>5. QED
    BY <2>3, <2>4
<1>8. QED
  BY <1>4, <1>5, <1>6, <1>7

\* What a table shows depends on its filters and entries alone.
LEMMA ShownSame ==
  ASSUME NEW t, NEW u, u.filter = t.filter, u.before = t.before, u.entries = t.entries
  PROVE  TableShown(u) = TableShown(t)
BY DEF TableShown, TableData, TableEntry

LEMMA SyncedFacts ==
  ASSUME NEW t, TableSound(t)
  PROVE  TableSound(Synced(t)) /\ DetailSound(Synced(t))
<1> DEFINE v == TableShown(t)[t.selected]
           r == [t EXCEPT !.detail = v]
<1>1. t \in TableRec /\ TableShown(t) \in Answers
  BY ShownFacts DEF TableSound
<1>2. t.selected \in Lines \cup {NoLine}
  BY <1>1 DEF TableRec
<1>3. CASE t.selected # NoLine /\ v > 0
  <2>1. v \in 0..2 /\ Synced(t) = r
    BY <1>1, <1>2, <1>3 DEF Answers, Synced
  <2> HIDE DEF v
  <2>2. /\ r \in TableRec /\ r.entries = t.entries /\ r.ledger = t.ledger
        /\ r.filter = t.filter /\ r.before = t.before
        /\ r.selected = t.selected /\ r.detail = v
    BY <1>1, <2>1 DEF TableRec
  <2> HIDE DEF r
  <2>3. TableShown(r) = TableShown(t)
    BY <2>2, ShownSame
  <2>4. TableSound(r)
    BY <2>2 DEF TableSound
  <2>5. DetailSound(r)
    BY <2>2, <2>3 DEF DetailSound, v
  <2>6. QED
    BY <2>1, <2>4, <2>5
<1>4. CASE ~(t.selected # NoLine /\ v > 0)
  <2>1. Synced(t) = t
    BY <1>4 DEF Synced
  <2>2. DetailSound(t)
    BY <1>4 DEF DetailSound
  <2>3. QED
    BY <2>1, <2>2
<1>5. QED
  BY <1>3, <1>4

\* One entry changes.
LEMMA EntryReplaced ==
  ASSUME NEW t, TableSound(t), NEW f \in TableFilters, NEW q \in Entries(Answers),
         EntrySound(q, f, t.ledger)
  PROVE  /\ TableSound([t EXCEPT !.entries[f] = q])
         /\ [t EXCEPT !.entries[f] = q].fetches = t.fetches
<1> DEFINE e == [t.entries EXCEPT ![f] = q]
           r == [t EXCEPT !.entries = e]
<1>1. t \in TableRec /\ t.entries \in [TableFilters -> Entries(Answers)]
  BY DEF TableSound, TableRec
<1>2. e \in [TableFilters -> Entries(Answers)]
      /\ \A g \in TableFilters : e[g] = IF g = f THEN q ELSE t.entries[g]
  BY <1>1
<1>3. r = [t EXCEPT !.entries[f] = q]
  OBVIOUS
<1> HIDE DEF e
<1>4. r \in TableRec /\ r.entries = e /\ r.ledger = t.ledger /\ r.fetches = t.fetches
  BY <1>1, <1>2 DEF TableRec
<1> HIDE DEF r
<1>5. TableSound(r)
  BY <1>2, <1>4 DEF TableSound
<1>6. QED
  BY <1>3, <1>4, <1>5

LEMMA FetchTableFacts ==
  ASSUME NEW t, TableSound(t), t.fetches < MaxFetches
  PROVE  TableSound(FetchTable(t))
<1> DEFINE f == t.filter
           q == t.entries[f]
           a == TableReply(t)
           s == FetchStarted(q, a)
           u == [t EXCEPT !.entries[f] = s]
           n == t.fetches + 1
<1>1. /\ t \in TableRec /\ f \in TableFilters /\ q \in Entries(Answers) /\ t.ledger \in Answers
      /\ EntrySound(q, f, t.ledger) /\ n \in 0..MaxFetches
  BY EventsConstantsOK DEF TableSound, TableRec
<1>2. a \in Answers /\ AnswerSound(a, f, t.ledger)
  <2> DEFINE l == t.ledger
  <2>1. \A row \in Lines : l[row] \in 0..2
    BY <1>1 DEF Answers
  <2>2. CASE tab = "errors"
    <3>1. a = Filtered(f, l)
      BY <2>2 DEF TableReply
    <3>2. l \in Answers
      BY <1>1
    <3> HIDE DEF f, l
    <3>3. QED
      BY <2>1, <3>1, <3>2, FilteredFacts DEF AnswerSound, l
  <2>3. CASE tab # "errors"
    <3>1. a = l
      BY <2>3 DEF TableReply
    <3>2. QED
      BY <1>1, <2>1, <2>3, <3>1 DEF AnswerSound
  <2>4. QED
    BY <2>2, <2>3
<1>3. FetchTable(t) = [u EXCEPT !.fetches = n]
  BY DEF FetchTable
<1> HIDE DEF f, q, a
<1>4. s \in Entries(Answers) /\ EntrySound(s, f, t.ledger)
  <2>1. s \in Entries(Answers) /\ s.data = q.data /\ (s.flying = q.flying \/ s.flying = <<a>>)
    <3>1. q \in Entries(Answers) /\ a \in Answers
      BY <1>1, <1>2
    <3>2. QED
      BY <3>1, FetchFacts, ZenonT(60)
  <2>2. OptionSound(<<a>>, f, t.ledger)
    BY <1>2, PresentFacts DEF OptionSound
  <2>3. QED
    BY <1>1, <2>1, <2>2 DEF EntrySound
<1> HIDE DEF s
<1>5. TableSound(u)
  BY <1>1, <1>4, EntryReplaced
<1> HIDE DEF u, n
<1>6. [u EXCEPT !.fetches = n] \in TableRec
      /\ [u EXCEPT !.fetches = n].entries = u.entries
      /\ [u EXCEPT !.fetches = n].ledger = u.ledger
  BY <1>1, <1>5 DEF TableSound, TableRec
<1>7. QED
  BY <1>3, <1>5, <1>6 DEF TableSound

\* The ledger moves on.
LEMMA LedgerReplaced ==
  ASSUME NEW t, TableSound(t), DetailSound(t), NEW l \in Answers,
         \A row \in Lines : t.ledger[row] <= l[row]
  PROVE  TableSound([t EXCEPT !.ledger = l]) /\ DetailSound([t EXCEPT !.ledger = l])
<1> DEFINE r == [t EXCEPT !.ledger = l]
<1>1. /\ t \in TableRec /\ t.ledger \in Answers
      /\ \A f \in TableFilters : EntrySound(t.entries[f], f, t.ledger)
                                 /\ t.entries[f] \in Entries(Answers)
  BY DEF TableSound, TableRec
<1>2. /\ r \in TableRec /\ r.ledger = l /\ r.entries = t.entries
      /\ r.filter = t.filter /\ r.before = t.before
      /\ r.selected = t.selected /\ r.detail = t.detail
  BY <1>1 DEF TableRec
<1> HIDE DEF r
<1>3. ASSUME NEW f, NEW x \in Optional(Answers), OptionSound(x, f, t.ledger)
      PROVE  OptionSound(x, f, l)
  <2> SUFFICES ASSUME x # Missing PROVE AnswerSound(Value(x), f, l)
    BY DEF OptionSound
  <2> DEFINE a == Value(x)
             m == t.ledger
  <2>1. a \in Answers /\ AnswerSound(a, f, m) /\ m \in Answers
    BY <1>1, <1>3, OptionalFacts DEF OptionSound
  <2>2. \A row \in Lines : m[row] <= l[row]
    OBVIOUS
  <2> HIDE DEF a, m
  <2>3. \A row \in Lines : a[row] \in 0..2 /\ m[row] \in 0..2 /\ l[row] \in 0..2
    BY <2>1 DEF Answers
  <2>4. AnswerSound(a, f, l)
    BY <2>1, <2>2, <2>3 DEF AnswerSound
  <2> USE DEF a
  <2>5. QED
    BY <2>4
<1>4. TableSound(r)
  BY <1>1, <1>2, <1>3, EntriesFacts DEF TableSound, EntrySound
<1>5. DetailSound(r)
  BY <1>2, ShownSame DEF DetailSound
<1> USE DEF r
<1>6. QED
  BY <1>4, <1>5

LEMMA RowChangesStep ==
  TableSound(table) /\ DetailSound(table) /\ RowChanges => TableSound(table') /\ DetailSound(table')
<1> SUFFICES ASSUME TableSound(table), DetailSound(table), RowChanges
             PROVE  TableSound(table') /\ DetailSound(table')
  OBVIOUS
<1>1. PICK row \in Lines : \E state \in (table.ledger[row] + 1)..2 :
        table' = [table EXCEPT !.ledger[row] = state]
  BY DEF RowChanges
<1>2. PICK state \in (table.ledger[row] + 1)..2 : table' = [table EXCEPT !.ledger[row] = state]
  BY <1>1
<1> DEFINE l == [table.ledger EXCEPT ![row] = state]
<1>3. table.ledger \in Answers /\ \A r \in Lines : table.ledger[r] \in 0..2
  BY DEF TableSound, TableRec, Answers
<1>4. state \in 0..2 /\ table.ledger[row] < state
  BY <1>2, <1>3
<1>5. l \in Answers /\ \A r \in Lines : table.ledger[r] <= l[r]
  BY <1>3, <1>4 DEF Answers
<1>6. table' = [table EXCEPT !.ledger = l]
  BY <1>2
<1> HIDE DEF l
<1>7. QED
  BY <1>5, <1>6, LedgerReplaced

LEMMA PollTableStep ==
  TableSound(table) /\ PollTable => TableSound(table') /\ DetailSound(table')
<1> SUFFICES ASSUME TableSound(table), PollTable PROVE TableSound(table') /\ DetailSound(table')
  OBVIOUS
<1> DEFINE t == FetchTable(table)
<1>1. table' = Synced(t) /\ table.fetches < MaxFetches
  BY DEF PollTable
<1>2. TableSound(t)
  BY <1>1, FetchTableFacts
<1> HIDE DEF t
<1>3. QED
  BY <1>1, <1>2, SyncedFacts

LEMMA TableAnsweredStep ==
  TableSound(table) /\ TableAnswered => TableSound(table') /\ DetailSound(table')
<1> SUFFICES ASSUME TableSound(table), TableAnswered
             PROVE  TableSound(table') /\ DetailSound(table')
  OBVIOUS
<1>1. PICK f \in TableFilters :
        \/ table' = Synced([table EXCEPT !.entries[f] = FetchSucceeded(@)])
        \/ table' = Synced([table EXCEPT !.entries[f] = FetchFailed(@)])
  BY DEF TableAnswered
<1> DEFINE q == table.entries[f]
           s == FetchSucceeded(q)
           n == FetchFailed(q)
           u == [table EXCEPT !.entries[f] = s]
           v == [table EXCEPT !.entries[f] = n]
<1>2. q \in Entries(Answers) /\ EntrySound(q, f, table.ledger)
  BY DEF TableSound, TableRec
<1>3. table' = Synced(u) \/ table' = Synced(v)
  BY <1>1
<1> HIDE DEF q
<1>4. /\ s \in Entries(Answers) /\ s.data = q.flying /\ s.flying = Missing
      /\ n \in Entries(Answers) /\ n.data = q.data /\ n.flying = Missing
  <2>1. NoneListed \in Answers
    BY DEF NoneListed, Answers
  <2>2. QED
    BY <1>2, <2>1, FetchFacts
<1> HIDE DEF s, n
<1>5. EntrySound(s, f, table.ledger) /\ EntrySound(n, f, table.ledger)
  BY <1>2, <1>4 DEF EntrySound, OptionSound
<1>6. TableSound(u) /\ TableSound(v)
  BY <1>4, <1>5, EntryReplaced
<1> HIDE DEF u, v
<1>7. QED
  BY <1>3, <1>6, SyncedFacts

LEMMA ApplyFiltersStep ==
  TableSound(table) /\ ApplyFilters => TableSound(table') /\ DetailSound(table')
<1> SUFFICES ASSUME TableSound(table), ApplyFilters
             PROVE  TableSound(table') /\ DetailSound(table')
  OBVIOUS
<1> DEFINE b == IF TableEntry(table).data = Missing THEN table.before ELSE table.filter
           T(f) == [table EXCEPT !.filter = f, !.before = b]
<1>1. PICK f \in TableFilters :
        /\ table.fetches < MaxFetches
        /\ table' = Synced(T(f)) \/ table' = Synced(FetchTable(T(f)))
  BY DEF ApplyFilters
<1> DEFINE t == T(f)
<1>2. b \in TableFilters /\ table \in TableRec
  BY DEF TableSound, TableRec
<1> HIDE DEF b
<1>3. /\ t \in TableRec /\ t.entries = table.entries /\ t.ledger = table.ledger
      /\ t.fetches = table.fetches
  BY <1>2 DEF TableRec
<1>4. table.fetches < MaxFetches /\ (table' = Synced(t) \/ table' = Synced(FetchTable(t)))
  BY <1>1
<1> HIDE DEF t
<1>5. TableSound(t)
  BY <1>3 DEF TableSound
<1>6. TableSound(FetchTable(t))
  BY <1>3, <1>4, <1>5, FetchTableFacts
<1>7. QED
  BY <1>4, <1>5, <1>6, SyncedFacts

LEMMA SelectRowStep ==
  TableSound(table) /\ DetailSound(table) /\ SelectRow => TableSound(table') /\ DetailSound(table')
<1> SUFFICES ASSUME TableSound(table), DetailSound(table), SelectRow
             PROVE  TableSound(table') /\ DetailSound(table')
  OBVIOUS
<1>1. PICK row \in Lines :
        table' = IF tab = "errors" /\ table.selected = row
                 THEN [table EXCEPT !.selected = NoLine]
                 ELSE [table EXCEPT !.selected = row, !.detail = TableShown(table)[row]]
  BY DEF SelectRow
<1> DEFINE v == TableShown(table)[row]
<1>2. table \in TableRec /\ v \in 0..2
  BY ShownFacts DEF TableSound, Answers
<1>3. CASE tab = "errors" /\ table.selected = row
  <2>1. table' = [table EXCEPT !.selected = NoLine]
    BY <1>1, <1>3
  <2>2. table' \in TableRec /\ table'.entries = table.entries /\ table'.ledger = table.ledger
    BY <1>2, <2>1 DEF TableRec
  <2>3. QED
    BY <1>3, <2>2 DEF TableSound, DetailSound
<1>4. CASE ~(tab = "errors" /\ table.selected = row)
  <2>1. table' = [table EXCEPT !.selected = row, !.detail = v]
    BY <1>1, <1>4
  <2> DEFINE u == [table EXCEPT !.selected = row, !.detail = v]
  <2> HIDE DEF v
  <2>2. /\ u \in TableRec /\ u.entries = table.entries /\ u.ledger = table.ledger
        /\ u.filter = table.filter /\ u.before = table.before
        /\ u.selected = row /\ u.detail = v
    BY <1>2 DEF TableRec
  <2> HIDE DEF u
  <2>3. TableSound(u)
    BY <2>2 DEF TableSound
  <2>4. TableShown(u) = TableShown(table)
    BY <2>2, ShownSame
  <2>5. DetailSound(u)
    BY <2>2, <2>4 DEF DetailSound, v
  <2>6. table' = u
    BY <2>1 DEF u
  <2>7. QED
    BY <2>3, <2>5, <2>6
<1>5. QED
  BY <1>3, <1>4

LEMMA SortByStep ==
  TableSound(table) /\ DetailSound(table) /\ SortBy => TableSound(table') /\ DetailSound(table')
<1> SUFFICES ASSUME TableSound(table), DetailSound(table), SortBy
             PROVE  TableSound(table') /\ DetailSound(table')
  OBVIOUS
<1>1. PICK c \in BOOLEAN :
        table' = [table EXCEPT !.byState = c,
                    !.descending = IF c = table.byState THEN ~@ ELSE TRUE]
  BY DEF SortBy
<1> DEFINE d == IF c = table.byState THEN ~table.descending ELSE TRUE
           u == [table EXCEPT !.byState = c, !.descending = d]
<1>2. d \in BOOLEAN /\ c \in BOOLEAN /\ table \in TableRec /\ table' = u
  BY <1>1 DEF TableSound
<1> HIDE DEF d
<1>3. /\ u \in TableRec /\ u.entries = table.entries /\ u.ledger = table.ledger
      /\ u.filter = table.filter /\ u.before = table.before
      /\ u.selected = table.selected /\ u.detail = table.detail
  BY <1>2 DEF TableRec
<1> HIDE DEF u
<1>4. TableSound(u) /\ TableShown(u) = TableShown(table)
  BY <1>3, ShownSame DEF TableSound
<1>5. DetailSound(u)
  BY <1>3, <1>4 DEF DetailSound
<1>6. QED
  BY <1>2, <1>4, <1>5

\* The rows come in an order that leaves no doubt.
LEMMA ListingFacts ==
  ASSUME NEW t, TableSound(t)
  PROVE  LET rows == Listing(t)
         IN \A i, j \in DOMAIN rows :
              i < j => rows[i] # rows[j] /\ Precedes(t, rows[i], rows[j])
<1> DEFINE S == ListedRows(t)
           order == {p \in S \X S : Precedes(t, p[1], p[2])}
           rows == Listing(t)
           v == [row \in Lines |-> IF t.byState THEN TableShown(t)[row] ELSE row]
           plain == tab = "errors"
           down == t.descending
           n == Cardinality(S)
<1>1. /\ \A row \in Lines : v[row] \in Nat
      /\ S \in SUBSET Lines /\ IsFiniteSet(S) /\ Lines \subseteq Nat
      /\ down \in BOOLEAN /\ plain \in BOOLEAN
  <2>1. t \in TableRec /\ TableShown(t) \in Answers
    BY ShownFacts DEF TableSound
  <2>2. \A row \in Lines : TableShown(t)[row] \in Nat /\ row \in Nat
    BY <2>1 DEF Answers, Lines
  <2>3. 1 \in Int /\ MaxRows \in Int
    BY EventsConstantsOK
  <2>4. IsFiniteSet(Lines)
    BY <2>3, FS_Interval DEF Lines
  <2>5. S \in SUBSET Lines
    BY DEF ListedRows
  <2>6. IsFiniteSet(S)
    BY <2>4, <2>5, FS_Subset
  <2>7. \A row \in Lines : v[row] \in Nat
    BY <2>2
  <2>8. down \in BOOLEAN
    BY <2>1 DEF TableRec
  <2>9. QED
    BY <2>2, <2>5, <2>6, <2>7, <2>8
<1>2. \A a, b \in Lines :
        Precedes(t, a, b) <=> IF plain \/ v[a] = v[b] THEN a < b
                              ELSE IF down THEN v[a] > v[b] ELSE v[a] < v[b]
  BY DEF Precedes
<1>3. \A a, b \in S : <<a, b>> \in order <=> Precedes(t, a, b)
  OBVIOUS
<1>4. rows = Sorted(S, order)
  BY DEF Listing
<1> HIDE DEF S, order, rows, v, plain, down
<1>5. \A a, b \in S :
        <<a, b>> \in order <=> IF plain \/ v[a] = v[b] THEN a < b
                               ELSE IF down THEN v[a] > v[b] ELSE v[a] < v[b]
  BY <1>1, <1>2, <1>3
<1>6. \A a \in S : a \in Nat /\ v[a] \in Nat
  BY <1>1
<1>7. TotalOn(order, S)
  <2>1. \A a \in S : <<a, a>> \notin order
    BY <1>5, <1>6
  <2>2. ASSUME NEW a \in S, NEW b \in S, NEW c \in S, <<a, b>> \in order, <<b, c>> \in order
        PROVE  <<a, c>> \in order
    <3>1. CASE plain
      BY <1>5, <1>6, <2>2, <3>1
    <3>2. CASE ~plain /\ down
      BY <1>5, <1>6, <2>2, <3>2
    <3>3. CASE ~plain /\ ~down
      BY <1>5, <1>6, <2>2, <3>3
    <3>4. QED
      BY <3>1, <3>2, <3>3
  <2>3. ASSUME NEW a \in S, NEW b \in S, a # b
        PROVE  <<a, b>> \in order \/ <<b, a>> \in order
    <3>1. /\ a \in Nat /\ b \in Nat /\ v[a] \in Nat /\ v[b] \in Nat
          /\ <<a, b>> \in order <=> IF plain \/ v[a] = v[b] THEN a < b
                                     ELSE IF down THEN v[a] > v[b] ELSE v[a] < v[b]
          /\ <<b, a>> \in order <=> IF plain \/ v[b] = v[a] THEN b < a
                                     ELSE IF down THEN v[b] > v[a] ELSE v[b] < v[a]
      BY <1>5, <1>6
    <3>2. CASE plain \/ v[a] = v[b]
      BY <2>3, <3>1, <3>2
    <3>3. CASE ~(plain \/ v[a] = v[b]) /\ down
      BY <3>1, <3>3
    <3>4. CASE ~(plain \/ v[a] = v[b]) /\ ~down
      BY <3>1, <3>4
    <3>5. QED
      BY <3>2, <3>3, <3>4
  <2>4. QED
    BY <2>1, <2>2, <2>3 DEF TotalOn
<1>8. /\ n \in Nat /\ rows \in [1..n -> S]
      /\ \A i, j \in 1..n : i < j => <<rows[i], rows[j]>> \in order
  BY <1>1, <1>4, <1>7, SortedFacts
<1> HIDE DEF n
<1>9. ASSUME NEW i \in DOMAIN rows, NEW j \in DOMAIN rows, i < j
      PROVE  rows[i] # rows[j] /\ Precedes(t, rows[i], rows[j])
  <2>1. rows[i] \in S /\ rows[j] \in S /\ <<rows[i], rows[j]>> \in order
    BY <1>8, <1>9
  <2>2. QED
    BY <1>3, <1>7, <2>1 DEF TotalOn
<1> USE DEF rows
<1>10. QED
  BY <1>9

LEMMA TableGives == TableSound(table) /\ DetailSound(table) => TableListed
<1> SUFFICES ASSUME TableSound(table), DetailSound(table) PROVE TableListed
  OBVIOUS
<1>1. /\ \A row \in Lines : TableShown(table)[row] > 0 =>
           /\ TableShown(table)[row] <= table.ledger[row]
           /\ (tab = "errors" /\ TableEntry(table).data = Missing)
                \/ table.filter \in {Unfiltered, TableShown(table)[row]}
  BY ShownFacts
<1>2. \A i, j \in DOMAIN Listing(table) :
        i < j => /\ Listing(table)[i] # Listing(table)[j]
                 /\ Precedes(table, Listing(table)[i], Listing(table)[j])
  BY ListingFacts
<1>3. (tab = "reassignments" /\ table.selected # NoLine /\ TableShown(table)[table.selected] > 0)
        => table.detail = TableShown(table)[table.selected]
  BY DEF DetailSound
<1>4. QED
  BY <1>1, <1>2, <1>3 DEF TableListed

-----------------------------------------------------------------------------
(***************************************************************************)
(* EventsPage: the whole.                                                  *)
(***************************************************************************)

EventsInv ==
  /\ tab \in {"stream", "errors", "reassignments"}
  /\ ListSound(list) /\ TableSound(table) /\ DetailSound(table)

LEMMA TableInitFacts == TableSound(TableInit) /\ DetailSound(TableInit)
<1> DEFINE no == FALSE
           yes == TRUE
           none == NoneListed
           entries == [f \in TableFilters |-> NoEntry]
<1>1. TableInit = [ledger |-> none, filter |-> Unfiltered, before |-> Unfiltered,
                   entries |-> entries, fetches |-> 0, byState |-> no, descending |-> yes,
                   selected |-> NoLine, detail |-> 0]
  BY DEF TableInit
<1>2. no \in BOOLEAN /\ yes \in BOOLEAN /\ none \in Answers
  BY DEF NoneListed, Answers
<1>3. /\ entries \in [TableFilters -> Entries(Answers)]
      /\ \A f \in TableFilters : entries[f].data = Missing /\ entries[f].flying = Missing
  BY NoEntryFacts
<1>4. 0 \in 0..MaxFetches /\ Unfiltered \in TableFilters /\ NoLine \in Lines \cup {NoLine}
  BY EventsConstantsOK DEF TableFilters, Unfiltered
<1> HIDE DEF no, yes, none, entries
<1>5. /\ TableInit \in TableRec /\ TableInit.entries = entries
      /\ TableInit.selected = NoLine
  BY <1>1, <1>2, <1>3, <1>4 DEF TableRec
<1>6. QED
  BY <1>3, <1>5 DEF TableSound, DetailSound, EntrySound, OptionSound

LEMMA EventsInitially == EventsInit(TRUE) => EventsInv
<1> SUFFICES ASSUME EventsInit(TRUE) PROVE EventsInv
  OBVIOUS
<1>1. tab \in {"stream", "errors", "reassignments"} /\ list = ListInit /\ table = TableInit
  BY DEF EventsInit
<1>2. ListSound(ListInit)
  BY ListInitFacts DEF ListSound, NoneTwice
<1>3. QED
  BY <1>1, <1>2, TableInitFacts DEF EventsInv

LEMMA EventsStep == EventsInv /\ [EventsNext]_eventsVars => EventsInv'
<1> SUFFICES ASSUME EventsInv, [EventsNext]_eventsVars PROVE EventsInv'
  OBVIOUS
<1>1. /\ tab \in {"stream", "errors", "reassignments"}
      /\ ListSound(list) /\ TableSound(table) /\ DetailSound(table)
  BY DEF EventsInv
<1>2. /\ tab' = tab
      /\ \/ ListSound(list') /\ table' = table
         \/ list' = list /\ TableSound(table') /\ DetailSound(table')
  <2>1. CASE StreamTab
    <3>1. tab' = tab /\ table' = table
      BY <2>1 DEF StreamTab
    <3>2. ListSound(list')
      BY <1>1, <2>1, ArrivesStep, ClearListStep, FilterListStep, SelectEventStep,
         ScrollStep, ReopenStep DEF StreamTab
    <3>3. QED
      BY <3>1, <3>2
  <2>2. CASE TableTab
    <3>1. tab' = tab /\ list' = list
      BY <2>2 DEF TableTab
    <3>2. TableSound(table') /\ DetailSound(table')
      BY <1>1, <2>2, RowChangesStep, PollTableStep, TableAnsweredStep, ApplyFiltersStep,
         SelectRowStep, SortByStep DEF TableTab
    <3>3. QED
      BY <3>1, <3>2
  <2>3. CASE UNCHANGED eventsVars
    BY <1>1, <2>3 DEF eventsVars
  <2>4. QED
    BY <2>1, <2>2, <2>3 DEF EventsNext
<1>3. tab' = tab /\ ListSound(list') /\ TableSound(table') /\ DetailSound(table')
  BY <1>1, <1>2
<1>4. TableSound(table)'
  BY <1>3 DEF TableSound, EntrySound, OptionSound, AnswerSound
<1>5. DetailSound(table)'
  BY <1>3 DEF DetailSound, TableShown, TableData, TableEntry
<1>6. QED
  BY <1>1, <1>3, <1>4, <1>5 DEF EventsInv

LEMMA EventsAlways == EventsSpec => []EventsInv
<1>1. EventsInit(TRUE) => EventsInv
  BY EventsInitially
<1>2. EventsInv /\ [EventsNext]_eventsVars => EventsInv'
  BY EventsStep
<1>3. QED
  BY <1>1, <1>2, PTL DEF EventsSpec

LEMMA EventsTyped == EventsInv => EventsTypeOK
<1> SUFFICES ASSUME EventsInv PROVE EventsTypeOK
  OBVIOUS
<1>1. tab \in {"stream", "errors", "reassignments"} /\ list \in EventList /\ table \in TableRec
  BY DEF EventsInv, ListSound, TableSound
<1>2. /\ list.updates \in Seq(DOMAIN Content) /\ list.filter \in EventFilters
      /\ list.atTop \in BOOLEAN /\ {list.unseen, list.counted} \subseteq Nat
  BY <1>1 DEF EventList
<1>3. /\ table.ledger \in Answers /\ {table.filter, table.before} \subseteq TableFilters
      /\ table.entries \in [TableFilters -> Entries(Answers)]
      /\ table.fetches \in 0..MaxFetches
      /\ {table.byState, table.descending} \subseteq BOOLEAN
      /\ table.selected \in Lines \cup {NoLine} /\ table.detail \in 0..2
  BY <1>1 DEF TableRec
<1>4. QED
  BY <1>1, <1>2, <1>3 DEF EventsTypeOK

\* Whatever the store and the ledger do, however the answers to the queries are
\* delayed, and however the user filters, scrolls, selects and sorts, the stream,
\* the errors and the reassignments of the events page are listed as they are
\* (features/events).
THEOREM EventsTheorem == EventsSpec => [](EventsTypeOK /\ EventsListed)
<1>1. EventsInv => EventsTypeOK /\ EventsListed
  BY EventsTyped, StreamGives, TableGives DEF EventsInv, EventsListed
<1>2. QED
  BY <1>1, EventsAlways, PTL

-----------------------------------------------------------------------------
(***************************************************************************)
(* ErrorReport.                                                            *)
(***************************************************************************)

ErrorSpec == ErrorInit(TRUE) /\ [][ErrorNext]_errorVars

Told == {CategoryNames[i] : i \in 1..11} \cup {NoName}

Completions == [command : {"first", "second"}, failure : Failures]

Reported ==
  [listed : Seq(Completions), call : Optional(Failures),
   route : {NoName, "simulate", "execute", "other"}]

\* An explanation, had or on its way, is the one that the words of its code suggest.
ExplanationsSound(x) ==
  /\ x \in [Codes -> Entries(Told)]
  /\ \A c \in Codes : /\ x[c].data \in {Missing, <<GuessCategory(c)>>}
                      /\ x[c].flying \in {Missing, <<GuessCategory(c)>>}

ErrorInv ==
  /\ failures \in Reported /\ errorOpen \in {NoName, "first", "second"}
  /\ questions \in 0..MaxExplanations /\ ExplanationsSound(explanations)

ErrorsOf(listed, open) ==
  {CommandErrorOf(listed[i].failure, "completion") :
     i \in {j \in DOMAIN listed : listed[j].command = open}}

\* The guess is a category, and one of nothing but words.
LEMMA GuessFacts ==
  ASSUME NEW c \in Codes
  PROVE  /\ GuessCategory(c) \in Told /\ Explanation(c) = GuessCategory(c)
         /\ GuessCategory(c) # NoName => WordsOf(c) # {}
<1> DEFINE hits == {i \in DOMAIN GuessOrder : GuessOrder[i].words \cap WordsOf(c) # {}}
           first == CHOOSE i \in hits : \A j \in hits : i <= j
<1>1. DOMAIN GuessOrder = 1..7 /\ \A i \in 1..7 : GuessOrder[i].category \in 1..11
  BY DEF GuessOrder
<1>2. GuessCategory(c) = IF hits = {} THEN NoName ELSE CategoryNames[GuessOrder[first].category]
  BY DEF GuessCategory
<1>3. hits \in SUBSET Nat /\ hits \subseteq 1..7
  BY <1>1
<1>4. hits # {} => WordsOf(c) # {}
  OBVIOUS
<1> HIDE DEF hits
<1>5. hits # {} => first \in hits
  BY <1>3, SmallestElement
<1> HIDE DEF first
<1>6. GuessCategory(c) \in Told
  BY <1>1, <1>2, <1>3, <1>5 DEF Told
<1>7. Explanation(c) = GuessCategory(c)
  BY DEF Explanation, KnowledgeBaseRow, Queried, Tables, Missing
<1>8. QED
  BY <1>2, <1>4, <1>6, <1>7

\* What the user sees of a failure at the participant.
LEMMA FailureFacts ==
  ASSUME NEW f \in Failures
  PROVE  LET call == CommandErrorOf(f, "call")
             told == CommandErrorOf(f, "completion")
         IN /\ told.errorCodeId \in Codes /\ ~(told.retryDelaySeconds > 0)
            /\ told.errorCodeId = call.errorCodeId /\ told.categoryId = call.categoryId
            /\ f.canton => told.correlationId = call.correlationId
            /\ call.categoryId = CategoryNames[2] => ClassifyError(call) = "auth"
            /\ AnswerStatus(f, "other") >= 400
<1> DEFINE call == CommandErrorOf(f, "call")
           told == CommandErrorOf(f, "completion")
<1>1. f.grpc \in 1..16 /\ (f.canton => f.code \in DOMAIN CodeNames)
  BY ErrorConstantsOK
<1>2. told.errorCodeId \in Codes
  BY <1>1 DEF CommandErrorOf, Codes
<1>3. RetryDelay(f.seconds) = 0
  <2>1. CharBits(8) = 0
    BY DEF CharBits
  <2>2. QED
    BY <2>1 DEF RetryDelay
<1>4. told.retryDelaySeconds = IF "RetryInfo" \in DetailsOf(f, "completion")
                               THEN RetryDelay(f.seconds) ELSE -1
  BY DEF CommandErrorOf
<1>5. /\ told.errorCodeId = call.errorCodeId /\ told.categoryId = call.categoryId
      /\ f.canton => told.correlationId = call.correlationId
  BY DEF CommandErrorOf
<1>6. call.categoryId = CategoryNames[2] => ClassifyError(call) = "auth"
  <2> HIDE DEF call
  <2> QED BY DEF ClassifyError
<1>7. \A code \in 1..16 : GrpcToHttpStatus[code] >= 400
  BY DEF GrpcToHttpStatus
<1>8. AnswerStatus(f, "other") >= 400
  BY <1>1, <1>7 DEF AnswerStatus
<1>9. QED
  BY <1>2, <1>3, <1>4, <1>5, <1>6, <1>8

LEMMA OpenFacts ==
  ASSUME NEW listed \in Seq(Completions), NEW open
  PROVE  /\ IsFiniteSet(ErrorsOf(listed, open))
         /\ \A e \in ErrorsOf(listed, open) :
              \E f \in Failures : e = CommandErrorOf(f, "completion")
<1> DEFINE D == {j \in DOMAIN listed : listed[j].command = open}
           E == ErrorsOf(listed, open)
<1>1. Len(listed) \in Nat /\ DOMAIN listed = 1..Len(listed)
      /\ \A i \in DOMAIN listed : listed[i] \in Completions
  BY LenProperties, ElementOfSeq
<1>2. IsFiniteSet(D)
  <2>1. 1 \in Int /\ Len(listed) \in Int
    BY <1>1
  <2>2. IsFiniteSet(DOMAIN listed)
    BY <1>1, <2>1, FS_Interval
  <2>3. D \in SUBSET (DOMAIN listed)
    OBVIOUS
  <2>4. QED
    BY <2>2, <2>3, FS_Subset
<1>3. E = {CommandErrorOf(listed[i].failure, "completion") : i \in D}
  BY DEF ErrorsOf
<1>4. [i \in D |-> CommandErrorOf(listed[i].failure, "completion")] \in Surjection(D, E)
  BY <1>3 DEF Surjection
<1>5. \A i \in D : listed[i].failure \in Failures
  BY <1>1 DEF Completions
<1> HIDE DEF D, E
<1>6. IsFiniteSet(E)
  BY <1>2, <1>4, FS_Surjection
<1>7. \A e \in E : \E f \in Failures : e = CommandErrorOf(f, "completion")
  BY <1>3, <1>5
<1> USE DEF E
<1>8. QED
  BY <1>6, <1>7

\* The details of some errors appear.
LEMMA AppearStep ==
  ASSUME ErrorInv, NEW errors, IsFiniteSet(errors),
         \A e \in errors : e.errorCodeId \in Codes, Appear(errors)
  PROVE  questions' \in 0..MaxExplanations /\ ExplanationsSound(explanations')
<1> DEFINE new == {c \in {e.errorCodeId : e \in errors} :
                     explanations[c].data = Missing /\ ~IsFetching(explanations[c])}
           ids == {e.errorCodeId : e \in errors}
           Next1(c) == IF c \in new THEN FetchStarted(explanations[c], Explanation(c))
                       ELSE explanations[c]
<1>1. /\ questions \in 0..MaxExplanations
      /\ explanations \in [Codes -> Entries(Told)]
      /\ \A c \in Codes : /\ explanations[c].data \in {Missing, <<GuessCategory(c)>>}
                          /\ explanations[c].flying \in {Missing, <<GuessCategory(c)>>}
  BY DEF ErrorInv, ExplanationsSound
<1>2. /\ questions' = questions + Cardinality(new) /\ questions' <= MaxExplanations
      /\ explanations' = [c \in Codes |-> Next1(c)]
  BY DEF Appear
<1>3. Cardinality(new) \in Nat
  <2>1. [e \in errors |-> e.errorCodeId] \in Surjection(errors, ids)
    BY DEF Surjection
  <2>2. new \in SUBSET ids
    OBVIOUS
  <2> HIDE DEF ids, new
  <2>3. IsFiniteSet(ids)
    BY <2>1, FS_Surjection
  <2>4. QED
    BY <2>2, <2>3, FS_Subset, FS_CardinalityType
<1>4. questions' \in 0..MaxExplanations
  <2> HIDE DEF new
  <2> QED BY <1>1, <1>2, <1>3, ErrorConstantsOK
<1> HIDE DEF new
<1>5. ASSUME NEW c \in Codes
      PROVE  /\ Next1(c) \in Entries(Told)
             /\ Next1(c).data \in {Missing, <<GuessCategory(c)>>}
             /\ Next1(c).flying \in {Missing, <<GuessCategory(c)>>}
  <2> DEFINE q == explanations[c]
             g == GuessCategory(c)
             s == FetchStarted(q, g)
  <2>1. /\ q \in Entries(Told) /\ q.data \in {Missing, <<g>>} /\ q.flying \in {Missing, <<g>>}
    BY <1>1
  <2>2. g \in Told /\ Explanation(c) = g
    BY GuessFacts
  <2>3. Next1(c) = s \/ Next1(c) = q
    BY <2>2
  <2> HIDE DEF q, g
  <2>4. s \in Entries(Told) /\ s.data = q.data /\ (s.flying = q.flying \/ s.flying = <<g>>)
    <3>1. q \in Entries(Told) /\ g \in Told
      BY <2>1, <2>2
    <3>2. QED
      BY <3>1, FetchFacts, ZenonT(60)
  <2> HIDE DEF s
  <2>5. /\ Next1(c) \in Entries(Told)
        /\ Next1(c).data \in {Missing, <<g>>} /\ Next1(c).flying \in {Missing, <<g>>}
    BY <2>1, <2>3, <2>4
  <2>6. QED
    BY <2>5 DEF g
<1> HIDE DEF Next1
<1>6. ExplanationsSound(explanations')
  BY <1>2, <1>5 DEF ExplanationsSound
<1>7. QED
  BY <1>4, <1>6

LEMMA CompletionFailsStep ==
  ASSUME ErrorInv, NEW f \in Failures, CompletionFails(f)
  PROVE  ErrorInv'
<1>1. failures \in Reported /\ errorOpen \in {NoName, "first", "second"}
  BY DEF ErrorInv
<1>2. PICK c \in {"first", "second"} :
        /\ failures' = [failures EXCEPT !.listed = Append(@, [command |-> c, failure |-> f])]
        /\ Appear(IF c = errorOpen THEN {CommandErrorOf(f, "completion")} ELSE {})
  BY DEF CompletionFails
<1> DEFINE e == [command |-> c, failure |-> f]
           l == Append(failures.listed, e)
           error == CommandErrorOf(f, "completion")
           errors == IF c = errorOpen THEN {error} ELSE {}
<1>3. l \in Seq(Completions)
  <2>1. failures.listed \in Seq(Completions) /\ e \in Completions
    BY <1>1 DEF Reported, Completions
  <2> HIDE DEF e
  <2>2. QED
    BY <2>1, AppendProperties
<1>4. failures' = [failures EXCEPT !.listed = l]
  BY <1>2
<1> HIDE DEF l
<1>5. failures' \in Reported
  BY <1>1, <1>3, <1>4 DEF Reported
<1>6. Appear(errors) /\ error.errorCodeId \in Codes
  BY <1>2, FailureFacts
<1> HIDE DEF error
<1>7. IsFiniteSet({error}) /\ IsFiniteSet({})
  BY FS_Singleton, FS_EmptySet
<1>8. IsFiniteSet(errors) /\ \A x \in errors : x.errorCodeId \in Codes
  BY <1>6, <1>7
<1> HIDE DEF errors
<1>9. questions' \in 0..MaxExplanations /\ ExplanationsSound(explanations')
  BY <1>6, <1>8, AppearStep
<1>10. errorOpen' = errorOpen
  BY DEF CompletionFails
<1>11. QED
  BY <1>1, <1>5, <1>9, <1>10 DEF ErrorInv

LEMMA FailedCallStep ==
  ASSUME ErrorInv, NEW f \in Failures, FailedCall(f)
  PROVE  ErrorInv'
<1>1. /\ failures \in Reported /\ errorOpen \in {NoName, "first", "second"}
      /\ questions \in 0..MaxExplanations /\ ExplanationsSound(explanations)
  BY DEF ErrorInv
<1>2. PICK route \in {"simulate", "execute", "other"} :
        failures' = [failures EXCEPT !.call = <<f>>, !.route = route]
  BY DEF FailedCall
<1> DEFINE o == <<f>>
<1>3. o \in Optional(Failures) /\ failures' = [failures EXCEPT !.call = o, !.route = route]
  BY <1>2 DEF Optional
<1> HIDE DEF o
<1>4. failures' \in Reported
  BY <1>1, <1>3 DEF Reported
<1>5. errorOpen' = errorOpen /\ questions' = questions /\ explanations' = explanations
  BY DEF FailedCall
<1>6. QED
  BY <1>1, <1>4, <1>5 DEF ErrorInv

LEMMA ToggleErrorStep ==
  ASSUME ErrorInv, ToggleError
  PROVE  ErrorInv'
<1>1. failures \in Reported /\ failures.listed \in Seq(Completions)
  BY DEF ErrorInv, Reported
<1>2. /\ \E i \in DOMAIN failures.listed :
           errorOpen' = IF errorOpen = failures.listed[i].command THEN NoName
                        ELSE failures.listed[i].command
      /\ failures' = failures /\ Appear(OpenErrors')
  BY DEF ToggleError
<1>3. errorOpen' \in {NoName, "first", "second"}
  <2>1. PICK i \in DOMAIN failures.listed :
          errorOpen' = IF errorOpen = failures.listed[i].command THEN NoName
                       ELSE failures.listed[i].command
    BY <1>2
  <2>2. failures.listed[i] \in Completions
    BY <1>1, LenProperties, ElementOfSeq
  <2>3. QED
    BY <2>1, <2>2 DEF Completions
<1> DEFINE errors == ErrorsOf(failures.listed, errorOpen')
<1>4. Appear(errors)
  BY <1>2 DEF OpenErrors, ErrorsOf
<1>5. /\ IsFiniteSet(errors)
      /\ \A e \in errors : \E f \in Failures : e = CommandErrorOf(f, "completion")
  BY <1>1, OpenFacts
<1> HIDE DEF errors
<1>6. \A e \in errors : e.errorCodeId \in Codes
  BY <1>5, FailureFacts
<1>7. questions' \in 0..MaxExplanations /\ ExplanationsSound(explanations')
  BY <1>4, <1>5, <1>6, AppearStep
<1>8. QED
  BY <1>1, <1>2, <1>3, <1>7 DEF ErrorInv

LEMMA ExplanationAnsweredStep ==
  ASSUME ErrorInv, ExplanationAnswered
  PROVE  ErrorInv'
<1>1. /\ failures \in Reported /\ errorOpen \in {NoName, "first", "second"}
      /\ questions \in 0..MaxExplanations /\ ExplanationsSound(explanations)
  BY DEF ErrorInv
<1>2. PICK c \in Codes :
        \/ explanations' = [explanations EXCEPT ![c] = FetchSucceeded(@)]
        \/ explanations' = [explanations EXCEPT ![c] = FetchFailed(@)]
  BY DEF ExplanationAnswered
<1> DEFINE q == explanations[c]
           s == FetchSucceeded(q)
           n == FetchFailed(q)
<1>3. /\ q \in Entries(Told) /\ q.data \in {Missing, <<GuessCategory(c)>>}
      /\ q.flying \in {Missing, <<GuessCategory(c)>>}
  BY <1>1 DEF ExplanationsSound
<1>4. \E x \in {s, n} : explanations' = [explanations EXCEPT ![c] = x]
  BY <1>2
<1> HIDE DEF q
<1>5. /\ s \in Entries(Told) /\ s.data = q.flying /\ s.flying = Missing
      /\ n \in Entries(Told) /\ n.data = q.data /\ n.flying = Missing
  <2>1. NoName \in Told
    BY DEF Told
  <2>2. QED
    BY <1>3, <2>1, FetchFacts
<1> HIDE DEF s, n
<1>6. ExplanationsSound(explanations')
  BY <1>1, <1>3, <1>4, <1>5 DEF ExplanationsSound
<1>7. failures' = failures /\ errorOpen' = errorOpen /\ questions' = questions
  BY DEF ExplanationAnswered
<1>8. QED
  BY <1>1, <1>6, <1>7 DEF ErrorInv

LEMMA ErrorAlways == ErrorSpec => []ErrorInv
<1>1. ErrorInit(TRUE) => ErrorInv
  <2> SUFFICES ASSUME ErrorInit(TRUE) PROVE ErrorInv
    OBVIOUS
  <2> DEFINE m == Missing
             l == <<>>
  <2>1. /\ failures = [listed |-> l, call |-> m, route |-> NoName] /\ errorOpen = NoName
        /\ explanations = [c \in Codes |-> NoEntry] /\ questions = 0
    BY DEF ErrorInit
  <2>2. m \in Optional(Failures) /\ l \in Seq(Completions)
    BY DEF Optional
  <2> HIDE DEF m, l
  <2>3. failures \in Reported
    BY <2>1, <2>2 DEF Reported
  <2>4. ExplanationsSound(explanations)
    BY <2>1, NoEntryFacts DEF ExplanationsSound
  <2>5. 0 \in 0..MaxExplanations
    BY ErrorConstantsOK
  <2>6. QED
    BY <2>1, <2>3, <2>4, <2>5 DEF ErrorInv
<1>2. ErrorInv /\ [ErrorNext]_errorVars => ErrorInv'
  <2> SUFFICES ASSUME ErrorInv, [ErrorNext]_errorVars PROVE ErrorInv'
    OBVIOUS
  <2>1. ASSUME NEW f \in Failures, CompletionFails(f) PROVE ErrorInv'
    BY <2>1, CompletionFailsStep
  <2>2. ASSUME NEW f \in Failures, FailedCall(f) PROVE ErrorInv'
    BY <2>2, FailedCallStep
  <2>3. CASE ToggleError
    BY <2>3, ToggleErrorStep
  <2>4. CASE ExplanationAnswered
    BY <2>4, ExplanationAnsweredStep
  <2>5. CASE UNCHANGED errorVars
    BY <2>5 DEF errorVars, ErrorInv
  <2>6. QED
    BY <2>1, <2>2, <2>3, <2>4, <2>5 DEF ErrorNext
<1>3. QED
  BY <1>1, <1>2, PTL DEF ErrorSpec

LEMMA ErrorGives == ErrorInv => ErrorsExplained
<1> SUFFICES ASSUME ErrorInv PROVE ErrorsExplained
  OBVIOUS
<1>1. /\ failures \in Reported /\ failures.listed \in Seq(Completions)
      /\ failures.call \in Optional(Failures) /\ ExplanationsSound(explanations)
  BY DEF ErrorInv, Reported
<1>2. ToldAlike
  <2> SUFFICES ASSUME failures.call # Missing PROVE ToldAlike
    BY DEF ToldAlike
  <2> DEFINE f == Value(failures.call)
  <2>1. f \in Failures
    BY <1>1, OptionalFacts
  <2> HIDE DEF f
  <2>2. /\ CommandErrorOf(f, "completion").errorCodeId = CommandErrorOf(f, "call").errorCodeId
        /\ CommandErrorOf(f, "completion").categoryId = CommandErrorOf(f, "call").categoryId
        /\ f.canton => CommandErrorOf(f, "completion").correlationId
                         = CommandErrorOf(f, "call").correlationId
        /\ CommandErrorOf(f, "call").categoryId = CategoryNames[2]
             => ClassifyError(CommandErrorOf(f, "call")) = "auth"
        /\ AnswerStatus(f, "other") >= 400
    BY <2>1, FailureFacts
  <2>3. QED
    BY <2>2 DEF ToldAlike, f
<1>3. ExplainedByCode
  <2> SUFFICES ASSUME NEW error \in OpenErrors
               PROVE  LET shown == DetailShown(error, explanations[error.errorCodeId])
                      IN /\ shown.explains \in {NoName, GuessCategory(error.errorCodeId)}
                         /\ shown.explains # NoName => WordsOf(error.errorCodeId) # {}
                         /\ ~shown.waits
    BY DEF ExplainedByCode
  <2> DEFINE c == error.errorCodeId
             q == explanations[c]
  <2>1. OpenErrors = ErrorsOf(failures.listed, errorOpen)
    BY DEF OpenErrors, ErrorsOf
  <2>2. PICK f \in Failures : error = CommandErrorOf(f, "completion")
    BY <1>1, <2>1, OpenFacts
  <2>3. c \in Codes /\ ~(error.retryDelaySeconds > 0)
    BY <2>2, FailureFacts
  <2>4. q.data \in {Missing, <<GuessCategory(c)>>}
    BY <1>1, <2>3 DEF ExplanationsSound
  <2>5. GuessCategory(c) # NoName => WordsOf(c) # {}
    BY <2>3, GuessFacts
  <2>6. DetailShown(error, q).explains \in {NoName, GuessCategory(c)}
    BY <2>4 DEF DetailShown, Value
  <2>7. ~DetailShown(error, q).waits
    BY <2>3 DEF DetailShown
  <2>8. QED
    BY <2>5, <2>6, <2>7
<1>4. QED
  BY <1>2, <1>3 DEF ErrorsExplained

LEMMA ErrorTyped == ErrorInv => ErrorTypeOK
BY DEF ErrorInv, ErrorTypeOK, Reported, Completions, ExplanationsSound, Told

\* A failure at the participant is told alike whichever way it came and wherever
\* it is shown, and explained by nothing but its code (canton/errors.ts,
\* routes/errors.ts, error-detail.tsx, simulation-result.tsx).
THEOREM ErrorTheorem == ErrorSpec => [](ErrorTypeOK /\ ErrorsExplained)
<1>1. ErrorInv => ErrorTypeOK /\ ErrorsExplained
  BY ErrorTyped, ErrorGives
<1>2. QED
  BY <1>1, ErrorAlways, PTL

\* What happens on the ledger and what goes wrong there is told as it is on the
\* events page, and wherever an error is shown.
THEOREM LedgerToldTheorem == EventsSpec /\ ErrorSpec => []LedgerTold
<1>1. EventsListed /\ ErrorsExplained => LedgerTold
  BY DEF LedgerTold
<1>2. QED
  BY <1>1, EventsTheorem, ErrorTheorem, PTL
=============================================================================
