-------------------------- MODULE TransactionProofs --------------------------
(***************************************************************************)
(* Proofs about the page of one transaction: what the route makes of the   *)
(* tree that the update stream flattened, and what the page draws of it.   *)
(* The lemmas about flattened lists and about the events under an event    *)
(* are those of EngineProofs.                                              *)
(***************************************************************************)
EXTENDS EngineProofs, TransactionDetail, FiniteSetTheorems
LOCAL INSTANCE SequencesExt

-----------------------------------------------------------------------------
(***************************************************************************)
(* Numbers in a forest.                                                    *)
(***************************************************************************)

\* p gives each of 1..n what it is under, as an execution does: something
\* earlier, and what comes in between is not above it.
Forest(p, n) ==
  /\ n \in Nat /\ p \in [1..n -> Nat]
  /\ \A i \in 1..n : p[i] < i
  /\ \A i, j \in 1..n : p[j] < i /\ i < j => p[i] >= p[j]

\* e is the first after i that is not below i.
Ends(p, n, i, e) ==
  /\ e \in (i + 1)..(n + 1)
  /\ \A j \in 1..n : i < j /\ j < e => p[j] >= i
  /\ e = n + 1 \/ (e \in 1..n /\ p[e] < i)

After(p, n, i) == CHOOSE e \in (i + 1)..(n + 1) : Ends(p, n, i, e)

LEMMA EndsOnce ==
  ASSUME NEW p, NEW n \in Nat, p \in [1..n -> Nat], NEW i \in 0..n, NEW e, NEW f,
         Ends(p, n, i, e), Ends(p, n, i, f)
  PROVE  e = f
<1>1. e \in Int /\ f \in Int /\ e <= n + 1 /\ f <= n + 1 /\ i < e /\ i < f
  BY DEF Ends
<1>2. CASE e < f
  <2>1. e \in 1..n /\ p[e] < i
    BY <1>1, <1>2 DEF Ends
  <2>2. p[e] >= i
    BY <1>1, <1>2, <2>1 DEF Ends
  <2> QED BY <2>1, <2>2
<1>3. CASE f < e
  <2>1. f \in 1..n /\ p[f] < i
    BY <1>1, <1>3 DEF Ends
  <2>2. p[f] >= i
    BY <1>1, <1>3, <2>1 DEF Ends
  <2> QED BY <2>1, <2>2
<1> QED BY <1>1, <1>2, <1>3

LEMMA AfterEnds ==
  ASSUME NEW p, NEW n \in Nat, p \in [1..n -> Nat], NEW i \in 0..n
  PROVE  Ends(p, n, i, After(p, n, i))
<1> DEFINE T == {m \in (i + 1)..(n + 1) : m = n + 1 \/ p[m] < i}
<1>1. T \in SUBSET Nat /\ n + 1 \in T
  OBVIOUS
<1>2. PICK e \in T : \A m \in T : e <= m
  <2> HIDE DEF T
  <2>1. T # {}
    BY <1>1
  <2> QED BY <1>1, <2>1, SmallestElement
<1>3. \A j \in 1..n : i < j /\ j < e => p[j] >= i
  <2> TAKE j \in 1..n
  <2> HAVE i < j /\ j < e
  <2>1. j \notin T
    BY <1>2
  <2> QED BY <2>1
<1>4. Ends(p, n, i, e)
  BY <1>2, <1>3 DEF Ends
<1> HIDE DEF T
<1>5. e \in (i + 1)..(n + 1)
  BY <1>4 DEF Ends
<1> QED BY <1>4, <1>5 DEF After

\* From i to before e.
Span(i, e) == [k \in 1..(e - i) |-> i + k - 1]

LEMMA SpanFacts ==
  ASSUME NEW i \in Nat, NEW e \in Nat, i <= e
  PROVE  /\ Span(i, e) \in Seq(Nat) /\ Len(Span(i, e)) = e - i
         /\ DOMAIN Span(i, e) = 1..(e - i)
         /\ \A k \in 1..(e - i) : Span(i, e)[k] = i + k - 1
<1>1. e - i \in Nat /\ \A k \in 1..(e - i) : i + k - 1 \in Nat
  OBVIOUS
<1>2. [k \in 1..(e - i) |-> i + k - 1] \in Seq(Nat) /\ Len([k \in 1..(e - i) |-> i + k - 1]) = e - i
  BY <1>1, IsASeq
<1> QED BY <1>2 DEF Span

LEMMA SpansJoin ==
  ASSUME NEW i \in Nat, NEW g \in Nat, NEW e \in Nat, i <= g, g <= e
  PROVE  Span(i, g) \o Span(g, e) = Span(i, e)
<1> DEFINE s == Span(i, g)
           t == Span(g, e)
           u == Span(i, e)
<1>1. /\ s \in Seq(Nat) /\ Len(s) = g - i /\ \A k \in 1..(g - i) : s[k] = i + k - 1
      /\ t \in Seq(Nat) /\ Len(t) = e - g /\ \A k \in 1..(e - g) : t[k] = g + k - 1
      /\ u \in Seq(Nat) /\ Len(u) = e - i /\ \A k \in 1..(e - i) : u[k] = i + k - 1
  <2>1. i <= e
    OBVIOUS
  <2>2. Span(i, g) \in Seq(Nat) /\ Len(Span(i, g)) = g - i /\ \A k \in 1..(g - i) : Span(i, g)[k] = i + k - 1
    BY SpanFacts
  <2>3. Span(g, e) \in Seq(Nat) /\ Len(Span(g, e)) = e - g /\ \A k \in 1..(e - g) : Span(g, e)[k] = g + k - 1
    BY SpanFacts
  <2>4. Span(i, e) \in Seq(Nat) /\ Len(Span(i, e)) = e - i /\ \A k \in 1..(e - i) : Span(i, e)[k] = i + k - 1
    BY <2>1, SpanFacts
  <2> QED BY <2>2, <2>3, <2>4
<1> HIDE DEF s, t, u
<1>2. s \o t \in Seq(Nat) /\ Len(s \o t) = e - i
  BY <1>1
<1>3. \A k \in 1..(e - i) : (s \o t)[k] = u[k]
  <2> TAKE k \in 1..(e - i)
  <2>1. (s \o t)[k] = IF k <= g - i THEN s[k] ELSE t[k - (g - i)]
    <3>1. k \in 1..(Len(s) + Len(t))
      BY <1>1
    <3>2. s \in Seq(Nat) /\ t \in Seq(Nat) /\ Len(s) = g - i
      BY <1>1
    <3> QED BY <3>1, <3>2, ConcatAt
  <2>2. CASE k <= g - i
    <3>1. k \in 1..(g - i)
      BY <2>2
    <3> QED BY <1>1, <2>1, <2>2, <3>1
  <2>3. CASE ~(k <= g - i)
    <3>1. k - (g - i) \in 1..(e - g) /\ g + (k - (g - i)) - 1 = i + k - 1
      BY <2>3
    <3> QED BY <1>1, <2>1, <2>3, <3>1
  <2> QED BY <2>2, <2>3
<1>4. s \o t = u
  <2> DEFINE v == s \o t
  <2>1. v \in Seq(Nat) /\ Len(v) = Len(u) /\ \A k \in 1..Len(u) : v[k] = u[k]
    BY <1>1, <1>2, <1>3
  <2> HIDE DEF v
  <2>2. v = u
    BY <1>1, <2>1, SeqEqual
  <2> QED BY <2>2 DEF v
<1> QED BY <1>4 DEF s, t, u

\* Before m + 1, the children of i took what comes before g.
Reached(p, n, i, m, g) ==
  /\ g \in (i + 1)..(n + 1) /\ g <= After(p, n, i)
  /\ g > m \/ g = After(p, n, i)
  /\ g = After(p, n, i) \/ p[g] = i
  /\ \A j \in 1..n : m < j /\ j < g => p[j] # i

LEMMA ReachedFirst ==
  ASSUME NEW p, NEW n, Forest(p, n), NEW i \in 0..n
  PROVE  Reached(p, n, i, 0, i + 1)
<1>1. n \in Nat /\ p \in [1..n -> Nat] /\ \A j \in 1..n : p[j] < j
  BY DEF Forest
<1> DEFINE a == After(p, n, i)
<1>2. Ends(p, n, i, a)
  BY <1>1, AfterEnds
<1> HIDE DEF a
<1>3. \A j \in 1..n : 0 < j /\ j < i + 1 => p[j] # i
  BY <1>1
<1>4. i + 1 = a \/ p[i + 1] = i
  <2> SUFFICES ASSUME i + 1 # a PROVE p[i + 1] = i
    OBVIOUS
  <2>1. i + 1 \in 1..n /\ i < i + 1 /\ i + 1 < a
    BY <1>1, <1>2 DEF Ends
  <2>2. p[i + 1] >= i /\ p[i + 1] < i + 1 /\ p[i + 1] \in Nat
    BY <1>1, <1>2, <2>1 DEF Ends
  <2> QED BY <2>2
<1>5. i + 1 \in (i + 1)..(n + 1) /\ i + 1 <= a /\ i + 1 > 0
  BY <1>1, <1>2 DEF Ends
<1> QED BY <1>3, <1>4, <1>5 DEF Reached, a

\* The next is a child: its own span follows.
LEMMA ReachedChild ==
  ASSUME NEW p, NEW n, Forest(p, n), NEW i \in 0..n, NEW m \in 0..(n - 1), NEW g,
         Reached(p, n, i, m, g), p[m + 1] = i
  PROVE  /\ g = m + 1 /\ Reached(p, n, i, m + 1, After(p, n, m + 1))
         /\ After(p, n, m + 1) \in Nat /\ m + 1 <= After(p, n, m + 1)
<1>1. n \in Nat /\ p \in [1..n -> Nat] /\ \A j \in 1..n : p[j] < j /\ p[j] \in Nat
  BY DEF Forest
<1>2. \A c, j \in 1..n : p[j] < c /\ c < j => p[c] >= p[j]
  BY DEF Forest
<1> DEFINE a == After(p, n, i)
           e == After(p, n, m + 1)
<1>3. Ends(p, n, i, a) /\ Ends(p, n, m + 1, e)
  BY <1>1, AfterEnds
<1>4. /\ g \in (i + 1)..(n + 1) /\ g <= a /\ (g > m \/ g = a) /\ (g = a \/ p[g] = i)
      /\ \A j \in 1..n : m < j /\ j < g => p[j] # i
  BY DEF Reached
<1> HIDE DEF a, e
<1>5. /\ a \in (i + 1)..(n + 1) /\ (a = n + 1 \/ (a \in 1..n /\ p[a] < i))
      /\ \A j \in 1..n : i < j /\ j < a => p[j] >= i
      /\ e \in (m + 2)..(n + 1) /\ (e = n + 1 \/ (e \in 1..n /\ p[e] < m + 1))
      /\ \A j \in 1..n : m + 1 < j /\ j < e => p[j] >= m + 1
  BY <1>3 DEF Ends
<1>6. m + 1 \in 1..n /\ i < m + 1
  BY <1>1
<1>7. m + 1 < a
  <2> SUFFICES ASSUME a <= m + 1 PROVE FALSE
    BY <1>5
  <2>1. a \in 1..n /\ p[a] < i
    BY <1>5, <1>6
  <2>2. a # m + 1 /\ a < m + 1 /\ p[m + 1] < a
    BY <1>5, <1>1, <2>1
  <2>3. p[a] >= p[m + 1]
    BY <1>2, <1>6, <2>1, <2>2
  <2> QED BY <2>1, <2>3, <1>1
<1>8. g = m + 1
  BY <1>4, <1>5, <1>6, <1>7
<1>9. e <= a /\ (e = a \/ p[e] = i)
  <2>1. CASE e = n + 1
    <3>1. \A j \in 1..n : i < j => p[j] >= i
      <4> TAKE j \in 1..n
      <4> HAVE i < j
      <4>1. CASE j <= m + 1
        BY <1>5, <1>7, <4>1
      <4>2. CASE j > m + 1
        BY <1>1, <1>5, <1>6, <2>1, <4>2
      <4> QED BY <4>1, <4>2
    <3>2. a = n + 1
      BY <1>1, <1>5, <3>1
    <3> QED BY <2>1, <3>2
  <2>2. CASE e \in 1..n /\ p[e] < m + 1
    <3>1. p[m + 1] >= p[e]
      BY <1>2, <1>5, <1>6, <2>2
    <3>2. \A j \in 1..n : i < j /\ j < e => p[j] >= i
      <4> TAKE j \in 1..n
      <4> HAVE i < j /\ j < e
      <4>1. CASE j <= m + 1
        BY <1>5, <1>7, <4>1
      <4>2. CASE j > m + 1
        BY <1>1, <1>5, <1>6, <4>2
      <4> QED BY <4>1, <4>2
    <3>3. e <= a
      <4> SUFFICES ASSUME a < e PROVE FALSE
        BY <1>5
      <4>1. a \in 1..n /\ p[a] < i /\ i < a
        BY <1>5, <2>2
      <4>2. p[a] >= i
        BY <3>2, <4>1
      <4> QED BY <4>1, <4>2, <1>1
    <3>4. e = a \/ p[e] = i
      <4> SUFFICES ASSUME e # a PROVE p[e] = i
        OBVIOUS
      <4>1. p[e] >= i
        BY <1>5, <1>6, <2>2, <3>3
      <4> QED BY <1>1, <2>2, <3>1, <4>1
    <3> QED BY <3>3, <3>4
  <2> QED BY <1>5, <2>1, <2>2
<1>10. \A j \in 1..n : m + 1 < j /\ j < e => p[j] # i
  BY <1>1, <1>5, <1>6
<1>11. e \in (i + 1)..(n + 1) /\ e > m + 1
  BY <1>5, <1>6
<1> QED BY <1>8, <1>9, <1>10, <1>11 DEF Reached, a, e

\* The next is not a child: it changes nothing.
LEMMA ReachedOther ==
  ASSUME NEW p, NEW n, Forest(p, n), NEW i \in 0..n, NEW m \in 0..(n - 1), NEW g,
         Reached(p, n, i, m, g), p[m + 1] # i
  PROVE  Reached(p, n, i, m + 1, g)
<1>1. n \in Nat
  BY DEF Forest
<1> QED BY <1>1 DEF Reached

\* What the children of i span, one after the other.
Spans(p, n, i) == [j \in 1..n |-> IF p[j] = i THEN Span(j, After(p, n, j)) ELSE <<>>]

LEMMA ChildrenSpan ==
  ASSUME NEW p, NEW n, Forest(p, n), NEW i \in 0..n
  PROVE  /\ Spans(p, n, i) \in Seq(Seq(Nat)) /\ Len(Spans(p, n, i)) = n
         /\ FlattenSeq(Spans(p, n, i)) = Span(i + 1, After(p, n, i))
<1>1. n \in Nat /\ p \in [1..n -> Nat] /\ \A j \in 1..n : p[j] < j /\ p[j] \in Nat
  BY DEF Forest
<1>2. \A j \in 0..n : Ends(p, n, j, After(p, n, j))
  BY <1>1, AfterEnds
<1>3. \A j \in 0..n : After(p, n, j) \in Nat /\ j + 1 <= After(p, n, j) /\ After(p, n, j) <= n + 1
  BY <1>1, <1>2 DEF Ends
<1> DEFINE ss == Spans(p, n, i)
           a == After(p, n, i)
<1>4. ss \in Seq(Seq(Nat)) /\ Len(ss) = n /\ \A j \in 1..n : ss[j] = IF p[j] = i THEN Span(j, After(p, n, j)) ELSE <<>>
  <2>1. \A j \in 1..n : (IF p[j] = i THEN Span(j, After(p, n, j)) ELSE <<>>) \in Seq(Nat)
    <3> TAKE j \in 1..n
    <3>1. j \in Nat /\ After(p, n, j) \in Nat /\ j <= After(p, n, j)
      BY <1>1, <1>3
    <3>2. Span(j, After(p, n, j)) \in Seq(Nat)
      BY <3>1, SpanFacts
    <3> QED BY <3>2
  <2> QED BY <1>1, <2>1, IsASeq DEF Spans
<1> HIDE DEF ss, a
<1> DEFINE M == {m \in Nat : m <= n =>
                   \E g \in Nat : Reached(p, n, i, m, g) /\ FlattenSeq(Upto(ss, m)) = Span(i + 1, g)}
<1>5. 0 \in M
  <2>1. Reached(p, n, i, 0, i + 1)
    BY ReachedFirst
  <2>2. FlattenSeq(Upto(ss, 0)) = <<>>
    BY <1>4, FlattenFacts
  <2>3. Span(i + 1, i + 1) = <<>>
    <3>1. i + 1 \in Nat /\ i + 1 <= i + 1 /\ (i + 1) - (i + 1) = 0
      BY <1>1
    <3>2. Span(i + 1, i + 1) \in Seq(Nat) /\ Len(Span(i + 1, i + 1)) = 0
      BY <3>1, SpanFacts
    <3> QED BY <3>2, EmptySeq
  <2> QED BY <2>1, <2>2, <2>3, <1>1
<1>6. ASSUME NEW m \in Nat, m \in M PROVE m + 1 \in M
  <2> SUFFICES ASSUME m + 1 <= n
               PROVE \E g \in Nat : Reached(p, n, i, m + 1, g) /\ FlattenSeq(Upto(ss, m + 1)) = Span(i + 1, g)
    OBVIOUS
  <2>1. m \in 0..(n - 1) /\ m \in 0..(Len(ss) - 1) /\ m + 1 \in 1..n
    BY <1>1, <1>4
  <2>2. PICK g \in Nat : Reached(p, n, i, m, g) /\ FlattenSeq(Upto(ss, m)) = Span(i + 1, g)
    BY <1>1, <1>6, <2>1
  <2>3. FlattenSeq(Upto(ss, m + 1)) = FlattenSeq(Upto(ss, m)) \o ss[m + 1]
    BY <1>4, <2>1, FlattenFacts
  <2>4. i + 1 \in Nat /\ i + 1 <= g
    BY <1>1, <2>2 DEF Reached
  <2>5. CASE p[m + 1] = i
    <3> DEFINE e == After(p, n, m + 1)
    <3>1. g = m + 1 /\ Reached(p, n, i, m + 1, e) /\ e \in Nat /\ m + 1 <= e
      BY <2>1, <2>2, <2>5, ReachedChild
    <3>2. ss[m + 1] = Span(m + 1, e)
      BY <1>4, <2>1, <2>5
    <3> HIDE DEF e
    <3>3. Span(i + 1, g) \o Span(g, e) = Span(i + 1, e)
      BY <2>4, <3>1, SpansJoin
    <3> QED BY <2>2, <2>3, <3>1, <3>2, <3>3
  <2>6. CASE p[m + 1] # i
    <3>1. Reached(p, n, i, m + 1, g)
      BY <2>1, <2>2, <2>6, ReachedOther
    <3>2. ss[m + 1] = <<>>
      BY <1>4, <2>1, <2>6
    <3>3. Span(i + 1, g) \in Seq(Nat)
      BY <2>4, SpanFacts
    <3>4. Span(i + 1, g) \o <<>> = Span(i + 1, g)
      BY <3>3, ConcatEmptySeq
    <3> QED BY <2>2, <2>3, <3>1, <3>2, <3>4
  <2> QED BY <2>5, <2>6
<1>7. n \in M /\ n <= n
  <2>1. Nat \subseteq M
    <3> HIDE DEF M
    <3> QED BY <1>5, <1>6, SetInduction
  <2> QED BY <1>1, <2>1
<1>8. PICK g \in Nat : Reached(p, n, i, n, g) /\ FlattenSeq(Upto(ss, n)) = Span(i + 1, g)
  BY <1>7
<1>9. g = a
  BY <1>1, <1>3, <1>8 DEF Reached, a
<1>10. Upto(ss, n) = ss
  BY <1>1, <1>4, UptoFacts
<1>11. FlattenSeq(ss) = Span(i + 1, a)
  BY <1>8, <1>9, <1>10
<1> QED BY <1>4, <1>11 DEF ss, a

-----------------------------------------------------------------------------
(***************************************************************************)
(* A transaction and the shapes it comes in.                               *)
(***************************************************************************)

Parents(t) == [i \in DOMAIN t |-> t[i].parent]

OnceConsumed(t) ==
  \A i, j \in DOMAIN t :
    t[i].consuming /\ t[j].consuming /\ t[i].contract = t[j].contract => i = j

\* A transaction as the ledger executes it.
Executed(t) ==
  /\ t \in Seq(Event) /\ Len(t) <= MaxTxEvents
  /\ Forest(Parents(t), Len(t)) /\ OnceConsumed(t)
  /\ \A i \in DOMAIN t : /\ t[i].type \in {"created", "exercised"}
                         /\ t[i].consuming => t[i].type = "exercised"
                         /\ t[i].parent # 0 => t[t[i].parent].type = "exercised"

LEMMA PerformExecutes ==
  ASSUME Executed(tx), Perform
  PROVE  Executed(tx')
<1> DEFINE n == Len(tx)
<1>1. /\ n \in Nat /\ DOMAIN tx = 1..n /\ MaxTxEvents \in Nat /\ n < MaxTxEvents
      /\ \A i \in 1..n : tx[i] \in Event
  BY ElementOfSeq, LenProperties, DetailConstantsOK DEF Executed, Perform
<1>2. PICK e : /\ tx' = Append(tx, e)
               /\ e.parent \in {0} \cup OpenExercises
               /\ \/ e = [type |-> "created", consuming |-> FALSE,
                          contract |-> n + 1, parent |-> e.parent]
                  \/ \E c \in ({0} \cup CreatedBy(tx)) \ Consumed(tx), b \in BOOLEAN :
                       e = [type |-> "exercised", consuming |-> b,
                            contract |-> c, parent |-> e.parent]
  <2>1. PICK parent \in {0} \cup OpenExercises :
               \/ tx' = Append(tx, [type |-> "created", consuming |-> FALSE,
                                    contract |-> n + 1, parent |-> parent])
               \/ \E c \in ({0} \cup CreatedBy(tx)) \ Consumed(tx), b \in BOOLEAN :
                    tx' = Append(tx, [type |-> "exercised", consuming |-> b,
                                      contract |-> c, parent |-> parent])
    BY DEF Perform
  <2>2. CASE tx' = Append(tx, [type |-> "created", consuming |-> FALSE,
                               contract |-> n + 1, parent |-> parent])
    BY <2>2
  <2>3. CASE \E c \in ({0} \cup CreatedBy(tx)) \ Consumed(tx), b \in BOOLEAN :
                    tx' = Append(tx, [type |-> "exercised", consuming |-> b,
                                      contract |-> c, parent |-> parent])
    <3>1. PICK c \in ({0} \cup CreatedBy(tx)) \ Consumed(tx), b \in BOOLEAN :
                    tx' = Append(tx, [type |-> "exercised", consuming |-> b,
                                      contract |-> c, parent |-> parent])
      BY <2>3
    <3> QED BY <3>1
  <2> QED BY <2>1, <2>2, <2>3
<1>3. CreatedBy(tx) \subseteq 0..MaxTxEvents
  BY <1>1 DEF CreatedBy, Event
<1>4. e.parent \in 0..n /\ (e.parent # 0 => e.parent \in OpenExercises)
  BY <1>1, <1>2 DEF OpenExercises
<1>5. /\ e \in Event /\ e.type \in {"created", "exercised"}
      /\ e.consuming => e.type = "exercised" /\ e.contract \notin Consumed(tx)
      /\ e.consuming \in BOOLEAN
  <2>1. e.parent \in 0..MaxTxEvents /\ n + 1 \in 0..MaxTxEvents /\ 0 \in 0..MaxTxEvents
    BY <1>1, <1>4
  <2>2. CASE e = [type |-> "created", consuming |-> FALSE, contract |-> n + 1, parent |-> e.parent]
    <3>1. \E b \in BOOLEAN, c \in 0..MaxTxEvents :
            /\ e = [type |-> "created", consuming |-> b, contract |-> c, parent |-> e.parent]
            /\ ~b
      BY <2>1, <2>2
    <3>2. PICK b \in BOOLEAN, c \in 0..MaxTxEvents :
            /\ e = [type |-> "created", consuming |-> b, contract |-> c, parent |-> e.parent]
            /\ ~b
      BY <3>1
    <3>3. e.type = "created" /\ e.consuming = b /\ e \in Event
      BY <2>1, <3>2 DEF Event
    <3> QED BY <3>2, <3>3
  <2>3. CASE \E c \in ({0} \cup CreatedBy(tx)) \ Consumed(tx), b \in BOOLEAN :
                       e = [type |-> "exercised", consuming |-> b,
                            contract |-> c, parent |-> e.parent]
    <3>1. PICK c \in ({0} \cup CreatedBy(tx)) \ Consumed(tx), b \in BOOLEAN :
                       e = [type |-> "exercised", consuming |-> b,
                            contract |-> c, parent |-> e.parent]
      BY <2>3
    <3>2. c \in 0..MaxTxEvents /\ c \notin Consumed(tx)
      BY <1>3, <2>1
    <3>3. /\ e.type = "exercised" /\ e.consuming = b /\ e.contract = c
          /\ e \in [type : {"created", "exercised", "archived"}, consuming : BOOLEAN,
                    contract : 0..MaxTxEvents, parent : 0..MaxTxEvents]
      BY <2>1, <3>1, <3>2
    <3> QED BY <3>2, <3>3 DEF Event
  <2> QED BY <1>2, <2>2, <2>3
<1>6. /\ tx' \in Seq(Event) /\ Len(tx') = n + 1 /\ DOMAIN tx' = 1..(n + 1)
      /\ \A i \in 1..n : tx'[i] = tx[i]
      /\ tx'[n + 1] = e
  <2>1. tx \in Seq(Event)
    BY DEF Executed
  <2> QED BY <1>2, <1>5, <2>1, AppendProperties
<1> DEFINE p == Parents(tx)
           q == Parents(tx')
<1>7. /\ p \in [1..n -> Nat] /\ \A i \in 1..n : p[i] = tx[i].parent /\ p[i] < i
      /\ \A i, j \in 1..n : p[j] < i /\ i < j => p[i] >= p[j]
  BY <1>1 DEF Executed, Forest, Parents
<1>8. /\ q = [i \in 1..(n + 1) |-> tx'[i].parent]
      /\ q[n + 1] = e.parent /\ \A i \in 1..n : q[i] = p[i]
  <2>1. n + 1 \in 1..(n + 1) /\ \A i \in 1..n : i \in 1..(n + 1)
    BY <1>1
  <2> QED BY <1>6, <1>7, <2>1 DEF Parents
<1> HIDE DEF p, q
<1>9. Forest(q, n + 1)
  <2>0. \A i \in 1..(n + 1) : i = n + 1 \/ i \in 1..n
    BY <1>1
  <2>1. q \in [1..(n + 1) -> Nat] /\ \A i \in 1..(n + 1) : q[i] < i
    <3>1. \A i \in 1..(n + 1) : q[i] \in Nat /\ q[i] < i
      <4> TAKE i \in 1..(n + 1)
      <4>1. CASE i = n + 1
        BY <1>1, <1>4, <1>8, <4>1
      <4>2. CASE i \in 1..n
        BY <1>7, <1>8, <4>2
      <4> QED BY <2>0, <4>1, <4>2
    <3>2. \A i \in 1..(n + 1) : q[i] = tx'[i].parent
      BY <1>8
    <3> QED BY <1>8, <3>1, <3>2
  <2>2. ASSUME NEW i \in 1..(n + 1), NEW j \in 1..(n + 1), q[j] < i, i < j
        PROVE  q[i] >= q[j]
    <3>0. i \in 1..n
      BY <1>1, <2>2
    <3>1. i \in 1..n /\ q[i] = p[i]
      BY <1>8, <3>0
    <3>2. CASE j \in 1..n
      BY <1>7, <1>8, <2>2, <3>1, <3>2
    <3>3. CASE j = n + 1
      <4>1. CASE e.parent = 0
        BY <1>7, <1>8, <3>1, <3>3, <4>1
      <4>2. CASE e.parent # 0
        <5>1. \A k \in (e.parent + 1)..n : tx[k].parent >= e.parent
          BY <1>4, <4>2 DEF OpenExercises
        <5>2. i \in (e.parent + 1)..n
          BY <1>4, <1>8, <2>2, <3>1, <3>3
        <5> QED BY <1>7, <1>8, <3>1, <3>3, <5>1, <5>2
      <4> QED BY <4>1, <4>2
    <3> QED BY <2>0, <3>2, <3>3
  <2> QED BY <1>1, <2>1, <2>2 DEF Forest
<1>10. OnceConsumed(tx')
  <2>1. \A i \in 1..n : tx[i].consuming => tx[i].contract \in Consumed(tx)
    BY <1>1 DEF Consumed
  <2> SUFFICES ASSUME NEW i \in 1..(n + 1), NEW j \in 1..(n + 1), i < j,
                      tx'[i].consuming, tx'[j].consuming, tx'[i].contract = tx'[j].contract
               PROVE  FALSE
    BY <1>6 DEF OnceConsumed
  <2>2. i \in 1..n /\ tx'[i] = tx[i]
    BY <1>1, <1>6
  <2>3. CASE j = n + 1
    BY <1>5, <1>6, <2>1, <2>2, <2>3
  <2>4. CASE j \in 1..n
    BY <1>1, <1>6, <2>2, <2>4 DEF Executed, OnceConsumed
  <2> QED BY <1>1, <2>3, <2>4
<1>11. ASSUME NEW i \in 1..(n + 1)
       PROVE  /\ tx'[i].type \in {"created", "exercised"}
              /\ tx'[i].consuming => tx'[i].type = "exercised"
              /\ tx'[i].parent # 0 => tx'[tx'[i].parent].type = "exercised"
  <2>1. CASE i \in 1..n
    <3>1. tx[i].parent \in Nat /\ tx[i].parent < i
      BY <1>7, <2>1
    <3>2. tx[i].parent # 0 => tx[i].parent \in 1..n
      BY <1>1, <2>1, <3>1
    <3> QED BY <1>1, <1>6, <2>1, <3>2 DEF Executed
  <2>2. CASE i = n + 1
    <3>1. e.parent # 0 => e.parent \in 1..n /\ tx[e.parent].type = "exercised"
      BY <1>1, <1>4 DEF OpenExercises
    <3> QED BY <1>5, <1>6, <2>2, <3>1
  <2> QED BY <1>1, <2>1, <2>2
<1>12. Len(tx') <= MaxTxEvents
  BY <1>1, <1>6
<1> QED BY <1>6, <1>9, <1>10, <1>11, <1>12 DEF Executed, q

\* A list of events in one of the shapes.
InShape(shape, events) ==
  /\ shape \in Shapes /\ events \in Seq(Event) /\ Len(events) <= MaxTxEvents
  /\ OnceConsumed(events)
  /\ shape # "delta" => Executed(events)
  /\ shape = "delta" => \A i \in DOMAIN events :
       /\ events[i].parent = 0 /\ events[i].type \in {"created", "archived"}
       /\ events[i].consuming <=> events[i].type = "archived"

\* Entries of the net effect are of different events.
LEMMA NetInShape ==
  ASSUME NEW t, Executed(t)
  PROVE  InShape("delta", Net(t))
<1> DEFINE n == Len(t)
           fleeting == CreatedBy(t) \cap Consumed(t)
           net(e) == [type |-> IF e.consuming THEN "archived" ELSE "created",
                      consuming |-> e.consuming, contract |-> e.contract, parent |-> 0]
           ss == [i \in DOMAIN t |->
                    IF /\ t[i].type = "created" \/ t[i].consuming
                       /\ t[i].contract \notin fleeting
                    THEN <<net(t[i])>> ELSE <<>>]
<1>1. /\ n \in Nat /\ DOMAIN t = 1..n /\ MaxTxEvents \in Nat /\ n <= MaxTxEvents
      /\ \A i \in 1..n : t[i] \in Event
  BY ElementOfSeq, LenProperties, DetailConstantsOK DEF Executed
<1>2. \A i \in 1..n : /\ net(t[i]) \in Event /\ net(t[i]).parent = 0
                      /\ net(t[i]).type \in {"created", "archived"}
                      /\ net(t[i]).consuming <=> net(t[i]).type = "archived"
                      /\ net(t[i]).consuming = t[i].consuming
                      /\ net(t[i]).contract = t[i].contract
  <2>1. 0 \in 0..MaxTxEvents
    BY <1>1
  <2> QED BY <1>1, <2>1 DEF Event
<1>3. \A i \in 1..n : ss[i] \in Seq(Event) /\ (ss[i] = <<>> \/ ss[i] = <<net(t[i])>>)
  BY <1>1, <1>2
<1>4. ss \in Seq(Seq(Event)) /\ Len(ss) = n
  <2>1. ss = [i \in 1..n |-> ss[i]]
    BY <1>1
  <2> HIDE DEF ss
  <2> QED BY <1>1, <1>3, <2>1, IsASeq
<1>5. Net(t) = FlattenSeq(ss)
  BY DEF Net
<1> HIDE DEF ss, net
\* s is made of entries of the first m events.
<1> DEFINE Made(s, m) ==
             /\ s \in Seq(Event) /\ Len(s) <= m /\ OnceConsumed(s)
             /\ \A k \in 1..Len(s) : \E i \in 1..m : s[k] = net(t[i])
           M == {m \in Nat : m <= n => Made(FlattenSeq(Upto(ss, m)), m)}
<1>6. 0 \in M
  <2>1. FlattenSeq(Upto(ss, 0)) = <<>>
    BY <1>4, FlattenFacts
  <2>2. <<>> \in Seq(Event) /\ Len(<<>>) = 0 /\ DOMAIN <<>> = {}
    OBVIOUS
  <2>3. OnceConsumed(<<>>)
    BY <2>2 DEF OnceConsumed
  <2>4. Made(<<>>, 0)
    BY <2>2, <2>3
  <2> QED BY <2>1, <2>4
<1>7. ASSUME NEW m \in Nat, m \in M PROVE m + 1 \in M
  <2> SUFFICES ASSUME m + 1 <= n PROVE Made(FlattenSeq(Upto(ss, m + 1)), m + 1)
    OBVIOUS
  <2>1. m \in 0..(Len(ss) - 1) /\ m + 1 \in 1..n /\ m <= n
    BY <1>1, <1>4
  <2> DEFINE s == FlattenSeq(Upto(ss, m))
             u == FlattenSeq(Upto(ss, m + 1))
             x == net(t[m + 1])
  <2>2. Made(s, m)
    BY <1>7, <2>1
  <2>3. u = s \o ss[m + 1]
    BY <1>4, <2>1, FlattenFacts
  <2>4. ss[m + 1] = <<>> \/ ss[m + 1] = <<x>>
    BY <1>3, <2>1
  <2>5. x \in Event
    BY <1>2, <2>1
  <2> HIDE DEF s, u
  <2>6. ASSUME ss[m + 1] = <<>> PROVE Made(u, m + 1)
    <3>1. u = s
      BY <2>2, <2>3, <2>6, ConcatEmptySeq
    <3>2. Len(s) \in Nat /\ Len(s) <= m
      BY <2>2
    <3>3. Len(s) <= m + 1 /\ \A k \in 1..Len(s) : \E i \in 1..(m + 1) : s[k] = net(t[i])
      <4>1. \A i \in 1..m : i \in 1..(m + 1)
        OBVIOUS
      <4> QED BY <2>2, <3>2, <4>1
    <3> QED BY <2>2, <3>1, <3>3
  <2>7. ASSUME ss[m + 1] = <<x>> PROVE Made(u, m + 1)
    <3> HIDE DEF x
    <3>0. s \in Seq(Event) /\ Len(s) \in Nat /\ DOMAIN s = 1..Len(s) /\ Len(s) <= m
      BY <2>2
    <3>1. /\ u \in Seq(Event) /\ Len(u) = Len(s) + 1 /\ DOMAIN u = 1..(Len(s) + 1)
          /\ \A k \in 1..Len(s) : u[k] = s[k]
          /\ u[Len(s) + 1] = x
      BY <2>3, <2>5, <2>7, <3>0
    <3>2. \A k \in 1..(Len(s) + 1) : k \in 1..Len(s) \/ k = Len(s) + 1
      BY <3>0
    <3>3. ASSUME NEW k \in 1..(Len(s) + 1) PROVE \E i \in 1..(m + 1) : u[k] = net(t[i])
      <4>1. CASE k \in 1..Len(s)
        BY <2>2, <3>1, <4>1
      <4>2. CASE k = Len(s) + 1
        BY <3>1, <4>2 DEF x
      <4> QED BY <3>2, <4>1, <4>2
    <3>4. OnceConsumed(u)
      <4> SUFFICES ASSUME NEW k \in 1..(Len(s) + 1), NEW l \in 1..(Len(s) + 1), k < l,
                          u[k].consuming, u[l].consuming, u[k].contract = u[l].contract
                   PROVE  FALSE
        BY <3>1 DEF OnceConsumed
      <4>1. k \in 1..Len(s) /\ u[k] = s[k]
        BY <3>0, <3>1
      <4>2. CASE l \in 1..Len(s)
        <5>1. OnceConsumed(s) /\ k \in DOMAIN s /\ l \in DOMAIN s /\ u[l] = s[l] /\ k # l
          BY <2>2, <3>0, <3>1, <4>1, <4>2
        <5> QED BY <4>1, <5>1 DEF OnceConsumed
      <4>3. CASE l = Len(s) + 1
        <5>1. PICK i \in 1..m : s[k] = net(t[i])
          BY <2>2, <4>1
        <5>2. i \in 1..n /\ m + 1 \in 1..n /\ i # m + 1
          BY <1>1, <2>1
        <5>3. /\ t[i].consuming /\ t[m + 1].consuming /\ t[i].contract = t[m + 1].contract
          BY <1>2, <3>1, <4>1, <4>3, <5>1, <5>2 DEF x
        <5>4. OnceConsumed(t)
          BY DEF Executed
        <5> QED BY <1>1, <5>2, <5>3, <5>4 DEF OnceConsumed
      <4> QED BY <3>2, <4>2, <4>3
    <3>5. Len(u) <= m + 1
      BY <3>0, <3>1
    <3>6. \A k \in 1..Len(u) : \E i \in 1..(m + 1) : u[k] = net(t[i])
      BY <3>1, <3>3
    <3>7. u \in Seq(Event)
      BY <3>1
    <3> HIDE DEF net
    <3> QED BY <3>4, <3>5, <3>6, <3>7
  <2>8. Made(u, m + 1)
    <3> HIDE DEF Made
    <3> QED BY <2>4, <2>6, <2>7
  <2> QED BY <2>8 DEF u
<1>8. n \in M /\ n <= n
  <2>1. Nat \subseteq M
    <3> HIDE DEF M
    <3> QED BY <1>6, <1>7, SetInduction
  <2> QED BY <1>1, <2>1
<1>9. Upto(ss, n) = ss
  BY <1>1, <1>4, UptoFacts
<1>10. Made(FlattenSeq(ss), n)
  <2>1. Made(FlattenSeq(Upto(ss, n)), n)
    BY <1>8
  <2> QED BY <1>9, <2>1
<1> DEFINE d == Net(t)
<1>11. d \in Seq(Event) /\ Len(d) <= n /\ OnceConsumed(d) /\ \A k \in 1..Len(d) : \E i \in 1..n : d[k] = net(t[i])
  BY <1>5, <1>10
<1> HIDE DEF d
<1>12. DOMAIN d = 1..Len(d) /\ Len(d) <= MaxTxEvents
  BY <1>1, <1>11
<1>13. \A k \in DOMAIN d : /\ d[k].parent = 0 /\ d[k].type \in {"created", "archived"}
                           /\ d[k].consuming <=> d[k].type = "archived"
  BY <1>2, <1>11, <1>12
<1>14. "delta" \in Shapes
  BY DEF Shapes
<1>15. InShape("delta", d)
  <2>1. d \in Seq(Event) /\ Len(d) <= MaxTxEvents /\ OnceConsumed(d)
    BY <1>11, <1>12
  <2> HIDE DEF net, Made, M, fleeting
  <2> QED BY <2>1, <1>13, <1>14 DEF InShape
<1> QED BY <1>15 DEF d

LEMMA GivenInShape ==
  ASSUME NEW shape \in Shapes, Executed(tx)
  PROVE  InShape(shape, Given(shape))
<1>1. CASE shape = "delta"
  BY <1>1, NetInShape DEF Given
<1>2. CASE shape # "delta"
  BY <1>2 DEF Given, InShape, Executed
<1> QED BY <1>1, <1>2

-----------------------------------------------------------------------------
(***************************************************************************)
(* The events of a transaction by id.                                      *)
(***************************************************************************)

LEMMA RawTyped ==
  ASSUME NEW shape, NEW raw \in RawIds(shape)
  PROVE  raw \in [1..Len(Given(shape)) -> 1..Len(Given(shape))]
BY DEF RawIds

\* Ids are of events, and no two events have the same.
LEMMA SyntheticFacts ==
  ASSUME NEW n \in 0..MaxTxEvents, NEW raw \in [1..n -> 1..n]
  PROVE  /\ \A i \in 1..n : /\ SyntheticId(raw, i) \in Id
                            /\ SyntheticId(raw, i).archive = FALSE
                            /\ ~Collided(raw, n) => SyntheticId(raw, i).at = 0
         /\ \A i, j \in 1..n : SyntheticId(raw, i) = SyntheticId(raw, j) => i = j
<1>0. MaxTxEvents \in Nat /\ n \in Nat
  BY DetailConstantsOK
<1>1. \A i \in 1..n : /\ SyntheticId(raw, i) \in Id
                      /\ SyntheticId(raw, i).archive = FALSE
                      /\ SyntheticId(raw, i).base = raw[i]
                      /\ SyntheticId(raw, i).at = IF Collided(raw, i) THEN i ELSE 0
  <2> TAKE i \in 1..n
  <2>1. raw[i] \in 1..MaxTxEvents /\ i \in 0..MaxTxEvents /\ 0 \in 0..MaxTxEvents
    BY <1>0
  <2> QED BY <2>1 DEF SyntheticId, Id
<1>2. ASSUME NEW i \in 1..n, NEW j \in 1..n, i < j PROVE SyntheticId(raw, i) # SyntheticId(raw, j)
  <2> SUFFICES ASSUME SyntheticId(raw, i) = SyntheticId(raw, j) PROVE FALSE
    OBVIOUS
  <2>1. raw[i] = raw[j]
    BY <1>1
  <2>2. i \in 1..j /\ j \in 1..j
    BY <1>0, <1>2
  <2>3. Collided(raw, j)
    BY <1>2, <2>1, <2>2 DEF Collided
  <2>4. SyntheticId(raw, j).at = j
    BY <1>1, <2>3
  <2>5. SyntheticId(raw, i).at = i \/ SyntheticId(raw, i).at = 0
    BY <1>1
  <2> QED BY <1>0, <1>2, <2>4, <2>5
<1>3. ASSUME NEW i \in 1..n, ~Collided(raw, n) PROVE ~Collided(raw, i)
  <2>1. 1..i \subseteq 1..n
    BY <1>0
  <2> QED BY <1>3, <2>1 DEF Collided
<1>4. \A i, j \in 1..n : SyntheticId(raw, i) = SyntheticId(raw, j) => i = j
  <2> SUFFICES ASSUME NEW i \in 1..n, NEW j \in 1..n, SyntheticId(raw, i) = SyntheticId(raw, j), i # j
               PROVE  FALSE
    OBVIOUS
  <2>1. i < j \/ j < i
    BY <1>0
  <2> QED BY <1>2, <2>1
<1> QED BY <1>1, <1>3, <1>4

LEMMA ArchiveFacts ==
  ASSUME NEW x \in Id, x.archive = FALSE
  PROVE  /\ ArchiveOf(x) \in Id /\ ArchiveOf(x).archive = TRUE /\ ArchiveOf(x).at = x.at
         /\ [ArchiveOf(x) EXCEPT !.archive = FALSE] = x
         /\ \A y \in Id : y.archive = FALSE /\ ArchiveOf(y) = ArchiveOf(x) => y = x
<1>1. ArchiveOf(x) \in Id /\ ArchiveOf(x).archive = TRUE /\ ArchiveOf(x).at = x.at
  BY DEF ArchiveOf, Id
<1>2. ASSUME NEW y \in Id, y.archive = FALSE PROVE [ArchiveOf(y) EXCEPT !.archive = FALSE] = y
  BY <1>2 DEF ArchiveOf, Id
<1>3. ASSUME NEW y \in Id, y.archive = FALSE, ArchiveOf(y) = ArchiveOf(x) PROVE y = x
  BY <1>2, <1>3
<1> QED BY <1>1, <1>2, <1>3

\* The exercise that came last is on top.
LEMMA TopFacts ==
  ASSUME NEW events, NEW i \in Nat, i >= 1
  PROVE  /\ TopExercise(events, i) \in 0..(i - 1)
         /\ \A j \in 1..(i - 1) : events[j].type = "exercised" => TopExercise(events, i) >= j
         /\ TopExercise(events, i) # 0 => events[TopExercise(events, i)].type = "exercised"
<1> DEFINE S == {0} \cup {j \in 1..(i - 1) : events[j].type = "exercised"}
           T == {n \in 0..(i - 1) : (i - 1) - n \in S}
<1>1. S \subseteq 0..(i - 1) /\ 0 \in S
  OBVIOUS
<1>2. T \in SUBSET Nat /\ T # {}
  <2>1. (i - 1) - (i - 1) = 0 /\ i - 1 \in 0..(i - 1)
    OBVIOUS
  <2> QED BY <1>1, <2>1
<1>3. PICK n \in T : \A m \in T : n <= m
  <2> HIDE DEF T
  <2> QED BY <1>2, SmallestElement
<1> DEFINE x == (i - 1) - n
<1>4. x \in S /\ n \in 0..(i - 1)
  OBVIOUS
<1>5. ASSUME NEW y \in S PROVE x >= y
  <2>1. y \in 0..(i - 1) /\ (i - 1) - ((i - 1) - y) = y /\ (i - 1) - y \in 0..(i - 1)
    BY <1>1
  <2>2. (i - 1) - y \in T
    BY <2>1
  <2>3. n <= (i - 1) - y
    BY <1>3, <2>2
  <2> QED BY <1>4, <2>1, <2>3
<1> HIDE DEF x, T
<1>6. TopExercise(events, i) = CHOOSE z \in S : \A y \in S : z >= y
  BY DEF TopExercise, Max
<1>7. TopExercise(events, i) \in S /\ \A y \in S : TopExercise(events, i) >= y
  <2> HIDE DEF S
  <2> QED BY <1>4, <1>5, <1>6
<1> QED BY <1>1, <1>7

\* Where the events are put.
Puts(shape, events, raw) == [j \in DOMAIN events |-> PutUnder(shape, events, raw, j)]

LEMMA PutsForest ==
  ASSUME NEW shape, NEW events, InShape(shape, events), NEW raw
  PROVE  Forest(Puts(shape, events, raw), Len(events))
<1> DEFINE n == Len(events)
           p == Puts(shape, events, raw)
<1>1. n \in Nat /\ DOMAIN events = 1..n
  BY LenProperties DEF InShape
<1>2. CASE shape \in {"byId", "engine"}
  <2>1. Forest(Parents(events), n)
    BY <1>2 DEF InShape, Executed
  <2>2. \A j : PutUnder(shape, events, raw, j) = events[j].parent
    BY <1>2 DEF PutUnder
  <2>3. p = Parents(events)
    BY <2>2 DEF Puts, Parents
  <2> QED BY <2>1, <2>3
<1>3. CASE shape \notin {"byId", "engine"} /\ Collided(raw, n)
  <2>1. p = [j \in 1..n |-> TopExercise(events, j)]
    BY <1>1, <1>3 DEF PutUnder, Puts
  <2> HIDE DEF p
  <2>2. \A j \in 1..n : /\ p[j] \in 0..(j - 1)
                        /\ \A i \in 1..(j - 1) : events[i].type = "exercised" => p[j] >= i
                        /\ p[j] # 0 => events[p[j]].type = "exercised"
    <3> TAKE j \in 1..n
    <3>1. j \in Nat /\ j >= 1 /\ p[j] = TopExercise(events, j)
      BY <1>1, <2>1
    <3> QED BY <3>1, TopFacts
  <2>3. p \in [1..n -> Nat] /\ \A j \in 1..n : p[j] < j
    <3>1. \A j \in 1..n : p[j] \in Nat /\ p[j] < j
      BY <1>1, <2>2
    <3> QED BY <2>1, <3>1
  <2>4. ASSUME NEW i \in 1..n, NEW j \in 1..n, p[j] < i, i < j PROVE p[i] >= p[j]
    <3>1. CASE p[j] = 0
      BY <1>1, <2>3, <3>1
    <3>2. CASE p[j] # 0
      <4>1. events[p[j]].type = "exercised" /\ p[j] \in 1..(i - 1)
        BY <1>1, <2>2, <2>3, <2>4, <3>2
      <4> QED BY <2>2, <4>1
    <3> QED BY <3>1, <3>2
  <2>5. Forest(p, n)
    BY <1>1, <2>3, <2>4 DEF Forest
  <2> QED BY <2>5 DEF p
<1>4. CASE shape \notin {"byId", "engine"} /\ ~Collided(raw, n)
  <2>1. p = [j \in 1..n |-> 0]
    BY <1>1, <1>4 DEF PutUnder, Puts
  <2> HIDE DEF p
  <2>2. Forest(p, n)
    BY <1>1, <2>1 DEF Forest
  <2> QED BY <2>2 DEF p
<1> QED BY <1>2, <1>3, <1>4

\* Where the ids of a flat list collide, all that follows an exercise is put
\* below it.
LEMMA PutsFollow ==
  ASSUME NEW shape, NEW events, InShape(shape, events), NEW raw,
         shape = "flat", Collided(raw, Len(events)), NEW i \in DOMAIN events
  PROVE  After(Puts(shape, events, raw), Len(events), i) =
           IF events[i].type = "exercised" THEN Len(events) + 1 ELSE i + 1
<1> DEFINE n == Len(events)
           p == Puts(shape, events, raw)
           a == After(p, n, i)
<1>1. n \in Nat /\ DOMAIN events = 1..n /\ i \in 1..n
  BY LenProperties DEF InShape
<1>2. Forest(p, n)
  BY PutsForest
<1>3. \A j \in 1..n : p[j] = TopExercise(events, j)
  BY <1>1 DEF Puts, PutUnder
<1> HIDE DEF p
<1>4. Ends(p, n, i, a)
  <2>1. p \in [1..n -> Nat] /\ i \in 0..n
    BY <1>1, <1>2 DEF Forest
  <2> QED BY <1>1, <2>1, AfterEnds
<1> HIDE DEF a
<1>5. a \in (i + 1)..(n + 1) /\ i \in Nat
  BY <1>1, <1>4 DEF Ends
<1>6. CASE events[i].type = "exercised"
  <2> SUFFICES ASSUME a # n + 1 PROVE FALSE
    BY <1>6 DEF a, p
  <2>1. a \in 1..n /\ p[a] < i /\ i < a
    BY <1>1, <1>4, <1>5 DEF Ends
  <2>2. a \in Nat /\ a >= 1 /\ i \in 1..(a - 1)
    BY <1>1, <2>1
  <2>3. TopExercise(events, a) >= i
    BY <1>6, <2>2, TopFacts
  <2>4. p[a] \in Nat /\ p[a] = TopExercise(events, a)
    BY <1>2, <1>3, <2>1 DEF Forest
  <2> QED BY <1>5, <2>1, <2>3, <2>4
<1>7. CASE events[i].type # "exercised"
  <2> SUFFICES ASSUME a # i + 1 PROVE FALSE
    BY <1>7 DEF a, p
  <2>1. i + 1 \in 1..n /\ p[i + 1] >= i
    BY <1>1, <1>4, <1>5 DEF Ends
  <2>2. p[i + 1] = TopExercise(events, i + 1) /\ i + 1 \in Nat /\ i + 1 >= 1 /\ (i + 1) - 1 = i
    BY <1>3, <1>5, <2>1
  <2>3. /\ TopExercise(events, i + 1) \in 0..i
        /\ TopExercise(events, i + 1) # 0 => events[TopExercise(events, i + 1)].type = "exercised"
    BY <2>2, TopFacts
  <2>4. p[i + 1] = i /\ i # 0
    BY <1>1, <1>5, <2>1, <2>2, <2>3
  <2> QED BY <1>7, <2>2, <2>3, <2>4
<1> QED BY <1>6, <1>7

\* The consuming exercises, and the ids of all events.
Exercising(events) == {i \in DOMAIN events : events[i].type = "exercised" /\ events[i].consuming}

SidsOf(events, raw) == {SyntheticId(raw, i) : i \in DOMAIN events}

\* What goes in: a list in a shape and its ids.
ListedWith(shape, events, raw) ==
  InShape(shape, events) /\ raw \in [1..Len(events) -> 1..Len(events)]

LEMMA ListedFacts ==
  ASSUME NEW shape, NEW events, NEW raw, ListedWith(shape, events, raw)
  PROVE  /\ Len(events) \in Nat /\ Len(events) \in 0..MaxTxEvents /\ DOMAIN events = 1..Len(events)
         /\ \A i \in DOMAIN events : /\ events[i] \in Event
                                     /\ SyntheticId(raw, i) \in Id
                                     /\ SyntheticId(raw, i).archive = FALSE
                                     /\ ~Collided(raw, Len(events)) => SyntheticId(raw, i).at = 0
         /\ \A i, j \in DOMAIN events : SyntheticId(raw, i) = SyntheticId(raw, j) => i = j
<1>1. /\ Len(events) \in Nat /\ DOMAIN events = 1..Len(events) /\ Len(events) <= MaxTxEvents
      /\ MaxTxEvents \in Nat /\ \A i \in DOMAIN events : events[i] \in Event
  BY ElementOfSeq, LenProperties, DetailConstantsOK DEF ListedWith, InShape
<1>2. Len(events) \in 0..MaxTxEvents
  BY <1>1
<1>3. raw \in [1..Len(events) -> 1..Len(events)]
  BY DEF ListedWith
<1> QED BY <1>1, <1>2, <1>3, SyntheticFacts

\* The pieces Below is made of.
BelowOf(shape, events, raw, i) ==
  [j \in 1..Len(events) |-> IF Puts(shape, events, raw)[j] = i THEN <<SyntheticId(raw, j)>> ELSE <<>>]

LEMMA BelowTyped ==
  ASSUME NEW shape, NEW events, NEW raw, ListedWith(shape, events, raw), NEW i
  PROVE  /\ BelowOf(shape, events, raw, i) \in Seq(Seq(SidsOf(events, raw)))
         /\ Len(BelowOf(shape, events, raw, i)) = Len(events)
         /\ Below(shape, events, raw, i) = FlattenSeq(BelowOf(shape, events, raw, i))
         /\ Below(shape, events, raw, i) \in Seq(SidsOf(events, raw))
         /\ \A k \in DOMAIN Below(shape, events, raw, i) :
              \E j \in DOMAIN events : /\ Puts(shape, events, raw)[j] = i
                                       /\ Below(shape, events, raw, i)[k] = SyntheticId(raw, j)
<1> DEFINE n == Len(events)
           p == Puts(shape, events, raw)
           bb == BelowOf(shape, events, raw, i)
           S == {SyntheticId(raw, j) : j \in {m \in DOMAIN events : p[m] = i}}
<1>1. n \in Nat /\ DOMAIN events = 1..n
  BY ListedFacts
<1>2. \A j \in 1..n : (IF p[j] = i THEN <<SyntheticId(raw, j)>> ELSE <<>>) \in Seq(S)
  <2> TAKE j \in 1..n
  <2>1. p[j] = i => SyntheticId(raw, j) \in S
    BY <1>1
  <2> HIDE DEF S
  <2> QED BY <2>1
<1>3. bb \in Seq(Seq(S)) /\ Len(bb) = n
  BY <1>1, <1>2, IsASeq DEF BelowOf
<1>4. S \subseteq SidsOf(events, raw)
  BY DEF SidsOf
<1>5. bb \in Seq(Seq(SidsOf(events, raw)))
  <2> DEFINE U == SidsOf(events, raw)
  <2>1. \A j \in 1..n : (IF p[j] = i THEN <<SyntheticId(raw, j)>> ELSE <<>>) \in Seq(U)
    <3> TAKE j \in 1..n
    <3>1. SyntheticId(raw, j) \in U
      BY <1>1 DEF SidsOf
    <3> HIDE DEF U
    <3> QED BY <3>1
  <2> HIDE DEF U
  <2>2. bb \in Seq(Seq(U))
    BY <1>1, <2>1, IsASeq DEF BelowOf
  <2> QED BY <2>2 DEF U
<1>6. Below(shape, events, raw, i) = FlattenSeq(bb)
  <2>1. \A j \in 1..n : p[j] = PutUnder(shape, events, raw, j)
    BY <1>1 DEF Puts
  <2> HIDE DEF p
  <2>2. bb = [j \in DOMAIN events |-> IF PutUnder(shape, events, raw, j) = i
                                      THEN <<SyntheticId(raw, j)>> ELSE <<>>]
    BY <1>1, <2>1 DEF BelowOf, p
  <2> HIDE DEF bb
  <2> QED BY <2>2 DEF Below
<1> HIDE DEF bb, S
<1>7. FlattenSeq(bb) \in Seq(S) /\ FlattenSeq(bb) \in Seq(SidsOf(events, raw))
  BY <1>3, <1>5, FlattenFacts
<1>8. ASSUME NEW k \in DOMAIN FlattenSeq(bb)
      PROVE  \E j \in DOMAIN events : p[j] = i /\ FlattenSeq(bb)[k] = SyntheticId(raw, j)
  <2>1. FlattenSeq(bb)[k] \in S
    BY <1>7, ElementOfSeq
  <2> QED BY <2>1 DEF S
<1> QED BY <1>3, <1>5, <1>6, <1>7, <1>8 DEF bb, p

LEMMA BelowHolds ==
  ASSUME NEW shape, NEW events, NEW raw, ListedWith(shape, events, raw), NEW i
  PROVE  ToSet(Below(shape, events, raw, i)) =
           {SyntheticId(raw, j) : j \in {m \in DOMAIN events : Puts(shape, events, raw)[m] = i}}
<1> DEFINE n == Len(events)
           p == Puts(shape, events, raw)
           bb == BelowOf(shape, events, raw, i)
           b == Below(shape, events, raw, i)
           S == SidsOf(events, raw)
<1>1. n \in Nat /\ DOMAIN events = 1..n
  BY ListedFacts
<1>2. /\ bb \in Seq(Seq(S)) /\ b = FlattenSeq(bb)
      /\ \A k \in DOMAIN b : \E j \in DOMAIN events : p[j] = i /\ b[k] = SyntheticId(raw, j)
  BY BelowTyped
<1>3. \A j \in 1..n : bb[j] = IF p[j] = i THEN <<SyntheticId(raw, j)>> ELSE <<>>
  BY <1>1 DEF BelowOf
<1>4. DOMAIN bb = 1..n
  BY <1>1 DEF BelowOf
<1> HIDE DEF bb, b, S, p
<1>5. ToSet(b) = UNION {ToSet(bb[m]) : m \in DOMAIN bb}
  BY <1>2, FlattenRange
<1>6. ASSUME NEW j \in DOMAIN events, p[j] = i PROVE SyntheticId(raw, j) \in ToSet(b)
  <2>1. bb[j] = <<SyntheticId(raw, j)>> /\ j \in DOMAIN bb
    BY <1>1, <1>3, <1>4, <1>6
  <2>2. SyntheticId(raw, j) \in ToSet(bb[j])
    BY <2>1 DEF ToSet
  <2> QED BY <1>5, <2>1, <2>2
<1>7. \A x \in ToSet(b) : \E j \in DOMAIN events : p[j] = i /\ x = SyntheticId(raw, j)
  BY <1>2 DEF ToSet
<1> QED BY <1>6, <1>7 DEF b, p

ByIdRow(shape, events, raw, i) ==
  [type |-> events[i].type, consuming |-> events[i].consuming,
   contract |-> events[i].contract, number |-> i,
   childEventIds |-> Below(shape, events, raw, i)]

LEMMA RowFields ==
  ASSUME NEW shape, NEW events, NEW raw, NEW i
  PROVE  /\ ByIdRow(shape, events, raw, i).type = events[i].type
         /\ ByIdRow(shape, events, raw, i).consuming = events[i].consuming
         /\ ByIdRow(shape, events, raw, i).contract = events[i].contract
         /\ ByIdRow(shape, events, raw, i).number = i
         /\ ByIdRow(shape, events, raw, i).childEventIds = Below(shape, events, raw, i)
BY DEF ByIdRow

LEMMA ByIdFacts ==
  ASSUME NEW shape, NEW events, NEW raw, ListedWith(shape, events, raw)
  PROVE  /\ DOMAIN EventsById(shape, events, raw) = SidsOf(events, raw)
         /\ \A i \in DOMAIN events :
              /\ SyntheticId(raw, i) \in SidsOf(events, raw)
              /\ EventsById(shape, events, raw)[SyntheticId(raw, i)] =
                   ByIdRow(shape, events, raw, i)
<1> DEFINE last(id) == Max({i \in DOMAIN events : SyntheticId(raw, i) = id})
           row(i) == ByIdRow(shape, events, raw, i)
<1>1. EventsById(shape, events, raw) = [id \in SidsOf(events, raw) |-> row(last(id))]
  BY DEF EventsById, SidsOf, ByIdRow
<1>2. ASSUME NEW i \in DOMAIN events PROVE last(SyntheticId(raw, i)) = i
  <2>1. {j \in DOMAIN events : SyntheticId(raw, j) = SyntheticId(raw, i)} = {i}
    BY ListedFacts
  <2>2. i \in Nat
    BY ListedFacts
  <2>3. Max({i}) = i
    BY <2>2 DEF Max
  <2> QED BY <2>1, <2>3
<1>3. ASSUME NEW i \in DOMAIN events PROVE SyntheticId(raw, i) \in SidsOf(events, raw)
  BY DEF SidsOf
<1> HIDE DEF last
<1> QED BY <1>1, <1>2, <1>3

-----------------------------------------------------------------------------
(***************************************************************************)
(* The events that are drawn: with one archive for each that consumes.     *)
(***************************************************************************)

ArchivesOf(events, raw) == {ArchiveOf(SyntheticId(raw, i)) : i \in Exercising(events)}

Standing(shape, events, raw, byId) ==
  /\ DOMAIN byId = SidsOf(events, raw) \cup ArchivesOf(events, raw)
  /\ \A i \in DOMAIN events :
       /\ byId[SyntheticId(raw, i)].number = i
       /\ byId[SyntheticId(raw, i)].type = events[i].type
       /\ byId[SyntheticId(raw, i)].consuming = events[i].consuming
       /\ byId[SyntheticId(raw, i)].contract = events[i].contract
       /\ byId[SyntheticId(raw, i)].childEventIds =
            IF i \in Exercising(events)
            THEN <<ArchiveOf(SyntheticId(raw, i))>> \o Below(shape, events, raw, i)
            ELSE Below(shape, events, raw, i)
  /\ \A i \in Exercising(events) :
       /\ byId[ArchiveOf(SyntheticId(raw, i))].type = "archived"
       /\ byId[ArchiveOf(SyntheticId(raw, i))].consuming = FALSE
       /\ byId[ArchiveOf(SyntheticId(raw, i))].contract = events[i].contract
       /\ byId[ArchiveOf(SyntheticId(raw, i))].number = 0
       /\ byId[ArchiveOf(SyntheticId(raw, i))].childEventIds = <<>>

LEMMA ArchivingById ==
  ASSUME NEW shape, NEW events, NEW raw, ListedWith(shape, events, raw)
  PROVE  Archiving(EventsById(shape, events, raw)) = {SyntheticId(raw, i) : i \in Exercising(events)}
<1> DEFINE byId == EventsById(shape, events, raw)
<1>1. /\ DOMAIN byId = SidsOf(events, raw)
      /\ \A i \in DOMAIN events : byId[SyntheticId(raw, i)] = ByIdRow(shape, events, raw, i)
  BY ByIdFacts
<1> HIDE DEF byId
<1>3. \A i \in DOMAIN events : /\ byId[SyntheticId(raw, i)].type = events[i].type
                              /\ byId[SyntheticId(raw, i)].consuming = events[i].consuming
  BY <1>1, RowFields
<1>2. Archiving(byId) = {SyntheticId(raw, i) : i \in Exercising(events)}
  BY <1>1, <1>3 DEF Archiving, Exercising, SidsOf
<1> QED BY <1>2 DEF byId

\* Archives are not among the events of the participant.
LEMMA ArchivesApart ==
  ASSUME NEW shape, NEW events, NEW raw, ListedWith(shape, events, raw)
  PROVE  /\ \A x \in SidsOf(events, raw) : x \in Id /\ x.archive = FALSE
         /\ \A x \in ArchivesOf(events, raw) : x \in Id /\ x.archive = TRUE
         /\ \A i \in Exercising(events) : /\ i \in DOMAIN events
                                          /\ ArchiveOf(SyntheticId(raw, i)) \notin SidsOf(events, raw)
<1>1. \A x \in SidsOf(events, raw) : x \in Id /\ x.archive = FALSE
  <2> TAKE x \in SidsOf(events, raw)
  <2>1. PICK i \in DOMAIN events : x = SyntheticId(raw, i)
    BY DEF SidsOf
  <2>2. SyntheticId(raw, i) \in Id
    BY ListedFacts
  <2> QED BY <2>1, <2>2 DEF SyntheticId
<1>2. \A i \in Exercising(events) : i \in DOMAIN events /\ SyntheticId(raw, i) \in SidsOf(events, raw)
  BY DEF Exercising, SidsOf
<1>3. \A x \in ArchivesOf(events, raw) : x \in Id /\ x.archive = TRUE
  <2> TAKE x \in ArchivesOf(events, raw)
  <2>1. PICK i \in Exercising(events) : x = ArchiveOf(SyntheticId(raw, i))
    BY DEF ArchivesOf
  <2> QED BY <1>1, <1>2, <2>1, ArchiveFacts
<1> QED BY <1>1, <1>2, <1>3 DEF ArchivesOf

LEMMA AddedStands ==
  ASSUME NEW shape, NEW events, NEW raw, ListedWith(shape, events, raw)
  PROVE  LET byId == EventsById(shape, events, raw)
         IN Standing(shape, events, raw, AddArchives(byId, Archiving(byId)))
<1> DEFINE byId == EventsById(shape, events, raw)
           ids == {SyntheticId(raw, i) : i \in Exercising(events)}
           f == AddArchives(byId, ids)
<1>1. Archiving(byId) = ids
  BY ArchivingById
<1>2. /\ DOMAIN byId = SidsOf(events, raw)
      /\ \A i \in DOMAIN events :
              /\ SyntheticId(raw, i) \in SidsOf(events, raw)
              /\ byId[SyntheticId(raw, i)] = ByIdRow(shape, events, raw, i)
  BY ByIdFacts
<1> HIDE DEF byId
<1>3. DOMAIN f = SidsOf(events, raw) \cup ArchivesOf(events, raw)
  BY <1>2 DEF AddArchives, ArchivesOf
<1>4. ASSUME NEW i \in DOMAIN events
      PROVE  f[SyntheticId(raw, i)] =
               IF i \in Exercising(events)
               THEN [byId[SyntheticId(raw, i)] EXCEPT
                       !.childEventIds = <<ArchiveOf(SyntheticId(raw, i))>> \o @]
               ELSE byId[SyntheticId(raw, i)]
  <2> DEFINE x == SyntheticId(raw, i)
  <2>1. x \in DOMAIN byId /\ x.archive = FALSE
    BY <1>2, ArchivesApart
  <2>2. x \in ids <=> i \in Exercising(events)
    <3>1. \A j \in Exercising(events) : j \in DOMAIN events
      BY DEF Exercising
    <3>2. \A j \in DOMAIN events : SyntheticId(raw, j) = x => j = i
      BY ListedFacts
    <3> QED BY <3>1, <3>2
  <2> HIDE DEF x, ids
  <2>3. f[x] = IF x \in ids
               THEN [byId[x] EXCEPT !.childEventIds = <<ArchiveOf(x)>> \o @]
               ELSE byId[x]
    BY <2>1 DEF AddArchives
  <2> QED BY <2>2, <2>3 DEF x
<1>5. ASSUME NEW i \in Exercising(events)
      PROVE  f[ArchiveOf(SyntheticId(raw, i))] =
               [type |-> "archived", consuming |-> FALSE, childEventIds |-> <<>>,
                contract |-> byId[SyntheticId(raw, i)].contract, number |-> 0]
  <2> DEFINE x == SyntheticId(raw, i)
  <2>1. x \in Id /\ x.archive = FALSE /\ ArchiveOf(x) \notin DOMAIN byId
    <3>1. i \in DOMAIN events /\ ArchiveOf(x) \notin SidsOf(events, raw)
      BY ArchivesApart
    <3>2. x \in SidsOf(events, raw)
      BY <3>1 DEF SidsOf
    <3>3. x \in Id /\ x.archive = FALSE
      BY <3>2, ArchivesApart
    <3> QED BY <1>2, <3>1, <3>3
  <2>2. ArchiveOf(x).archive = TRUE /\ [ArchiveOf(x) EXCEPT !.archive = FALSE] = x
    BY <2>1, ArchiveFacts
  <2>3. ArchiveOf(x) \in DOMAIN byId \cup {ArchiveOf(e) : e \in ids}
    OBVIOUS
  <2> HIDE DEF x, ids
  <2> QED BY <2>1, <2>2, <2>3 DEF AddArchives, x
<1> HIDE DEF f
<1>6. ASSUME NEW i \in DOMAIN events
      PROVE  /\ f[SyntheticId(raw, i)].number = i
             /\ f[SyntheticId(raw, i)].type = events[i].type
             /\ f[SyntheticId(raw, i)].consuming = events[i].consuming
             /\ f[SyntheticId(raw, i)].contract = events[i].contract
             /\ f[SyntheticId(raw, i)].childEventIds =
                  IF i \in Exercising(events)
                  THEN <<ArchiveOf(SyntheticId(raw, i))>> \o Below(shape, events, raw, i)
                  ELSE Below(shape, events, raw, i)
  <2> DEFINE x == SyntheticId(raw, i)
             r == ByIdRow(shape, events, raw, i)
             below == Below(shape, events, raw, i)
  <2>1. byId[x] = r
    BY <1>2
  <2>2. /\ r.type = events[i].type /\ r.consuming = events[i].consuming
        /\ r.contract = events[i].contract /\ r.number = i /\ r.childEventIds = below
    BY RowFields
  <2>3. [r EXCEPT !.childEventIds = <<ArchiveOf(x)>> \o @] =
          [type |-> events[i].type, consuming |-> events[i].consuming,
           contract |-> events[i].contract, number |-> i,
           childEventIds |-> <<ArchiveOf(x)>> \o below]
    <3>1. r = [type |-> events[i].type, consuming |-> events[i].consuming,
           contract |-> events[i].contract, number |-> i, childEventIds |-> below]
      BY DEF ByIdRow
    <3> DEFINE g == <<ArchiveOf(x)>>
               a == events[i].type
               b == events[i].consuming
               c == events[i].contract
    <3> HIDE DEF r, below, x, g, a, b, c
    <3>2. r = [type |-> a, consuming |-> b, contract |-> c, number |-> i, childEventIds |-> below]
      BY <3>1 DEF a, b, c
    <3>3. [r EXCEPT !.childEventIds = g \o @] =
            [type |-> a, consuming |-> b, contract |-> c, number |-> i, childEventIds |-> g \o below]
      <4> DEFINE h == g \o below
      <4>1. r.childEventIds = below
        BY <3>2
      <4>2. g \o r.childEventIds = h
        BY <4>1
      <4> HIDE DEF h
      <4>3. [r EXCEPT !.childEventIds = h] =
              [type |-> a, consuming |-> b, contract |-> c, number |-> i, childEventIds |-> h]
        BY <3>2
      <4>4. [r EXCEPT !.childEventIds = g \o @] = [r EXCEPT !.childEventIds = h]
        BY <4>2
      <4> QED BY <4>3, <4>4 DEF h
    <3> QED BY <3>3 DEF a, b, c, g
  <2>4. f[x] = IF i \in Exercising(events)
               THEN [byId[x] EXCEPT !.childEventIds = <<ArchiveOf(x)>> \o @] ELSE byId[x]
    BY <1>4
  <2> HIDE DEF x, r, below
  <2>5. CASE i \in Exercising(events)
    <3>1. f[x] = [type |-> events[i].type, consuming |-> events[i].consuming,
                  contract |-> events[i].contract, number |-> i,
                  childEventIds |-> <<ArchiveOf(x)>> \o below]
      BY <2>1, <2>3, <2>4, <2>5
    <3> QED BY <3>1, <2>5 DEF x, below
  <2>6. CASE i \notin Exercising(events)
    <3>1. f[x] = r
      BY <2>1, <2>4, <2>6
    <3> QED BY <3>1, <2>2, <2>6 DEF x, below
  <2> QED BY <2>5, <2>6
<1>7. ASSUME NEW i \in Exercising(events)
      PROVE  /\ f[ArchiveOf(SyntheticId(raw, i))].type = "archived"
             /\ f[ArchiveOf(SyntheticId(raw, i))].consuming = FALSE
             /\ f[ArchiveOf(SyntheticId(raw, i))].contract = events[i].contract
             /\ f[ArchiveOf(SyntheticId(raw, i))].number = 0
             /\ f[ArchiveOf(SyntheticId(raw, i))].childEventIds = <<>>
  <2>1. i \in DOMAIN events
    BY DEF Exercising
  <2> DEFINE x == SyntheticId(raw, i)
             y == ArchiveOf(x)
  <2>2. byId[x].contract = events[i].contract
    BY <1>2, <2>1, RowFields
  <2>3. f[y] = [type |-> "archived", consuming |-> FALSE, childEventIds |-> <<>>,
                contract |-> byId[x].contract, number |-> 0]
    BY <1>5
  <2> HIDE DEF x, y
  <2> QED BY <2>2, <2>3 DEF x, y
<1>8. Standing(shape, events, raw, f)
  BY <1>3, <1>6, <1>7 DEF Standing
<1> QED BY <1>1, <1>8 DEF f, byId

LEMMA ArchivingStanding ==
  ASSUME NEW shape, NEW events, NEW raw, ListedWith(shape, events, raw), NEW f, Standing(shape, events, raw, f)
  PROVE  Archiving(f) = {SyntheticId(raw, i) : i \in Exercising(events)}
<1>1. ASSUME NEW x \in Archiving(f) PROVE \E i \in Exercising(events) : x = SyntheticId(raw, i)
  <2>1. x \in SidsOf(events, raw) \cup ArchivesOf(events, raw) /\ f[x].type = "exercised" /\ f[x].consuming
    BY DEF Archiving, Standing
  <2>2. x \notin ArchivesOf(events, raw)
    BY <2>1 DEF ArchivesOf, Standing
  <2>3. PICK i \in DOMAIN events : x = SyntheticId(raw, i)
    BY <2>1, <2>2 DEF SidsOf
  <2> QED BY <2>1, <2>3 DEF Standing, Exercising
<1>2. ASSUME NEW i \in Exercising(events) PROVE SyntheticId(raw, i) \in Archiving(f)
  <2>1. i \in DOMAIN events /\ events[i].type = "exercised" /\ events[i].consuming
    BY DEF Exercising
  <2>2. SyntheticId(raw, i) \in DOMAIN f
    BY <2>1 DEF Standing, SidsOf
  <2> QED BY <2>1, <2>2 DEF Archiving, Standing
<1> QED BY <1>1, <1>2

\* However often archives are added, there is one for each.
LEMMA DrawnStands ==
  ASSUME NEW shape, NEW events, NEW raw, ListedWith(shape, events, raw)
  PROVE  LET byId == EventsById(shape, events, raw)
         IN Standing(shape, events, raw,
                     Synthesized(IF shape = "engine" THEN Normalized(byId) ELSE byId))
<1> DEFINE byId == EventsById(shape, events, raw)
           ids == Archiving(byId)
           f == AddArchives(byId, ids)
<1>1. Standing(shape, events, raw, f)
  BY AddedStands
<1>2. ids = {SyntheticId(raw, i) : i \in Exercising(events)}
  BY ArchivingById
<1>3. /\ DOMAIN byId = SidsOf(events, raw)
      /\ \A i \in DOMAIN events :
              /\ SyntheticId(raw, i) \in SidsOf(events, raw)
              /\ byId[SyntheticId(raw, i)] = ByIdRow(shape, events, raw, i)
  BY ByIdFacts
<1> HIDE DEF byId
<1>4. \A i \in Exercising(events) : i \in DOMAIN events /\ ArchiveOf(SyntheticId(raw, i)) \notin DOMAIN byId
  BY <1>3, ArchivesApart
<1>5. ASSUME NEW x \in ids
      PROVE  /\ x \in DOMAIN byId /\ ArchiveOf(x) \notin DOMAIN byId
             /\ byId[x].childEventIds \in Seq(DOMAIN byId)
  <2>1. PICK i \in Exercising(events) : x = SyntheticId(raw, i)
    BY <1>2
  <2>2. byId[x].childEventIds = Below(shape, events, raw, i)
    BY <1>3, <1>4, <2>1, RowFields
  <2>3. Below(shape, events, raw, i) \in Seq(SidsOf(events, raw))
    BY BelowTyped
  <2> QED BY <1>3, <1>4, <2>1, <2>2, <2>3 DEF SidsOf
<1>6. Normalized(byId) = f
  <2>1. ASSUME NEW x \in ids PROVE ~Contains(byId[x].childEventIds, ArchiveOf(x))
    <3>1. \A k \in 1..Len(byId[x].childEventIds) : byId[x].childEventIds[k] \in DOMAIN byId
      BY <1>5, ElementOfSeq
    <3> QED BY <1>5, <3>1 DEF Contains
  <2> HIDE DEF ids
  <2>2. {x \in ids : ArchiveOf(x) \notin DOMAIN byId /\ ~Contains(byId[x].childEventIds, ArchiveOf(x))} = ids
    BY <1>5, <2>1
  <2> QED BY <2>2 DEF Normalized, ids
<1>7. ASSUME shape = "engine" PROVE Synthesized(f) = f
  <2>1. Archiving(f) = {SyntheticId(raw, i) : i \in Exercising(events)}
    BY <1>1, ArchivingStanding
  <2>2. ASSUME NEW x \in Archiving(f)
        PROVE  \E k \in DOMAIN f[x].childEventIds :
                 LET child == f[x].childEventIds[k]
                 IN child \in DOMAIN f /\ f[child].type = "archived" /\ f[child].contract = f[x].contract
    <3>1. PICK i \in Exercising(events) : x = SyntheticId(raw, i)
      BY <2>1
    <3> DEFINE y == ArchiveOf(x)
               below == Below(shape, events, raw, i)
    <3>2. /\ i \in DOMAIN events /\ y \in ArchivesOf(events, raw)
      BY <1>4, <3>1 DEF ArchivesOf
    <3> HIDE DEF f
    <3>3. /\ f[x].childEventIds = <<y>> \o below /\ f[x].contract = events[i].contract
          /\ f[y].type = "archived" /\ f[y].contract = events[i].contract /\ y \in DOMAIN f
      BY <1>1, <3>1, <3>2 DEF Standing
    <3>4. below \in Seq(SidsOf(events, raw))
      BY BelowTyped
    <3> DEFINE U == SidsOf(events, raw) \cup {y}
    <3>5. below \in Seq(U) /\ <<y>> \in Seq(U)
      <4>1. SidsOf(events, raw) \subseteq U
        OBVIOUS
      <4> HIDE DEF below, U
      <4>2. \A k \in 1..Len(below) : below[k] \in U
        BY <3>4, <4>1, ElementOfSeq
      <4>3. below = [k \in 1..Len(below) |-> below[k]] /\ Len(below) \in Nat
        BY <3>4, LenProperties
      <4>4. below \in Seq(U)
        BY <4>2, <4>3, IsASeq
      <4> QED BY <4>4 DEF U
    <3> HIDE DEF below, U, y
    <3> DEFINE s == <<y>> \o below
    <3>6. 1 \in DOMAIN s /\ s[1] = y
      <4>1. Len(<<y>>) = 1 /\ <<y>>[1] = y /\ Len(below) \in Nat
        BY <3>5
      <4>2. s \in Seq(U) /\ Len(s) = Len(<<y>>) + Len(below)
        BY <3>5, ConcatProperties
      <4>3. s[1] = y
        <5>1. 1 \in 1..(Len(<<y>>) + Len(below)) /\ 1 <= Len(<<y>>)
          BY <4>1
        <5> QED BY <3>5, <4>1, <5>1, ConcatAt
      <4> QED BY <4>1, <4>2, <4>3, LenProperties
    <3> HIDE DEF s
    <3>7. f[x].childEventIds = s
      BY <3>3 DEF s
    <3> QED BY <3>3, <3>6, <3>7
  <2> HIDE DEF f
  <2>3. {x \in Archiving(f) : ~\E k \in DOMAIN f[x].childEventIds :
                 LET child == f[x].childEventIds[k]
                 IN child \in DOMAIN f /\ f[child].type = "archived" /\ f[child].contract = f[x].contract} = {}
    BY <2>2
  <2>4. Synthesized(f) = AddArchives(f, {})
    BY <2>3 DEF Synthesized
  <2>5. f = [x \in DOMAIN f |-> f[x]]
    BY DEF f, AddArchives
  <2>6. AddArchives(f, {}) = [x \in DOMAIN f |-> f[x]]
    BY DEF AddArchives
  <2> QED BY <2>4, <2>5, <2>6
<1>8. ASSUME shape # "engine" PROVE Synthesized(byId) = f
  <2>1. ASSUME NEW x \in ids, NEW k \in DOMAIN byId[x].childEventIds
        PROVE  ~(byId[byId[x].childEventIds[k]].type = "archived")
    <3>1. PICK i \in Exercising(events) : x = SyntheticId(raw, i)
      BY <1>2, <2>1
    <3>2. byId[x].childEventIds = Below(shape, events, raw, i)
      BY <1>3, <1>4, <3>1, RowFields
    <3>3. PICK j \in DOMAIN events : byId[x].childEventIds[k] = SyntheticId(raw, j)
      BY <2>1, <3>2, BelowTyped
    <3>4. shape # "delta"
      <4>1. events[i].type = "exercised" /\ i \in DOMAIN events
        BY DEF Exercising
      <4> QED BY <4>1 DEF ListedWith, InShape
    <3>5. events[j].type # "archived"
      BY <3>4 DEF ListedWith, InShape, Executed
    <3> QED BY <1>3, <3>3, <3>5, RowFields
  <2> HIDE DEF ids, f
  <2>2. {x \in ids : ~\E k \in DOMAIN byId[x].childEventIds :
                 LET child == byId[x].childEventIds[k]
                 IN child \in DOMAIN byId /\ byId[child].type = "archived" /\ byId[child].contract = byId[x].contract} = ids
    BY <2>1
  <2> QED BY <2>2 DEF Synthesized, ids, f
<1> HIDE DEF f
<1>9. Synthesized(IF shape = "engine" THEN Normalized(byId) ELSE byId) = f
  BY <1>6, <1>7, <1>8
<1> QED BY <1>1, <1>9 DEF byId

\* What is drawn of an event alone.
RowsAt(events, raw) ==
  [k \in Nat |-> IF k \in Exercising(events)
                 THEN <<SyntheticId(raw, k), ArchiveOf(SyntheticId(raw, k))>>
                 ELSE IF k \in DOMAIN events THEN <<SyntheticId(raw, k)>> ELSE <<>>]

\* The events below an event, and itself.
SpanOf(shape, events, raw, i) == Span(i, After(Puts(shape, events, raw), Len(events), i))

\* What is drawn under each id.
NodesDrawn(shape, events, raw, byId) ==
  [x \in DOMAIN byId |->
     IF x \in ArchivesOf(events, raw) THEN <<x>>
     ELSE Spread(RowsAt(events, raw), SpanOf(shape, events, raw, byId[x].number))]

Standings(shape, events, raw, byId) ==
  ListedWith(shape, events, raw) /\ Standing(shape, events, raw, byId)

LEMMA SpanTyped ==
  ASSUME NEW shape, NEW events, NEW raw, ListedWith(shape, events, raw), NEW i \in 0..Len(events)
  PROVE  /\ After(Puts(shape, events, raw), Len(events), i) \in (i + 1)..(Len(events) + 1)
         /\ SpanOf(shape, events, raw, i) \in Seq(Nat)
         /\ Span(i + 1, After(Puts(shape, events, raw), Len(events), i)) \in Seq(Nat)
         /\ SpanOf(shape, events, raw, i)
              = <<i>> \o Span(i + 1, After(Puts(shape, events, raw), Len(events), i))
<1> DEFINE n == Len(events)
           p == Puts(shape, events, raw)
           a == After(p, n, i)
<1>1. n \in Nat /\ Forest(p, n)
  BY ListedFacts, PutsForest DEF ListedWith
<1>2. p \in [1..n -> Nat]
  BY <1>1 DEF Forest
<1> HIDE DEF p
<1>3. Ends(p, n, i, a)
  BY <1>1, <1>2, AfterEnds
<1> HIDE DEF a
<1>4. a \in (i + 1)..(n + 1) /\ i \in Nat /\ i + 1 \in Nat /\ a \in Nat /\ i <= i + 1 /\ i + 1 <= a /\ i <= a
  BY <1>1, <1>3 DEF Ends
<1>5. Span(i, a) \in Seq(Nat) /\ Span(i + 1, a) \in Seq(Nat) /\ Span(i, i + 1) \o Span(i + 1, a) = Span(i, a)
  BY <1>4, SpanFacts, SpansJoin
<1>6. Span(i, i + 1) = <<i>>
  <2>1. (i + 1) - i = 1 /\ i + 1 - 1 = i
    BY <1>4
  <2>2. Span(i, i + 1) = [k \in 1..1 |-> i + k - 1]
    BY <2>1 DEF Span
  <2>3. \A k \in 1..1 : i + k - 1 = i
    BY <1>4
  <2> QED BY <2>2, <2>3
<1> QED BY <1>4, <1>5, <1>6 DEF SpanOf, a, p

LEMMA RowsTyped ==
  ASSUME NEW shape, NEW events, NEW raw, ListedWith(shape, events, raw)
  PROVE  RowsAt(events, raw) \in Lists(Nat, SidsOf(events, raw) \cup ArchivesOf(events, raw))
<1> DEFINE D == SidsOf(events, raw) \cup ArchivesOf(events, raw)
<1>1. ASSUME NEW k \in Nat
      PROVE  (IF k \in Exercising(events)
              THEN <<SyntheticId(raw, k), ArchiveOf(SyntheticId(raw, k))>>
              ELSE IF k \in DOMAIN events THEN <<SyntheticId(raw, k)>> ELSE <<>>) \in Seq(D)
  <2>1. k \in Exercising(events) => k \in DOMAIN events /\ ArchiveOf(SyntheticId(raw, k)) \in D
    BY DEF Exercising, ArchivesOf
  <2>2. k \in DOMAIN events => SyntheticId(raw, k) \in D
    BY DEF SidsOf
  <2> HIDE DEF D
  <2> QED BY <2>1, <2>2
<1> HIDE DEF D
<1>2. RowsAt(events, raw) \in Lists(Nat, D)
  BY <1>1 DEF RowsAt, Lists
<1> QED BY <1>2 DEF D

LEMMA NodesFacts ==
  ASSUME NEW shape, NEW events, NEW raw, NEW byId, Standings(shape, events, raw, byId)
  PROVE  LET d == NodesDrawn(shape, events, raw, byId)
         IN /\ d \in Lists(DOMAIN byId, DOMAIN byId)
            /\ \A i \in DOMAIN events :
                 /\ SyntheticId(raw, i) \in DOMAIN byId
                 /\ d[SyntheticId(raw, i)] = Spread(RowsAt(events, raw), SpanOf(shape, events, raw, i))
            /\ \A x \in ArchivesOf(events, raw) : x \in DOMAIN byId /\ d[x] = <<x>>
<1> DEFINE D == DOMAIN byId
           d == NodesDrawn(shape, events, raw, byId)
           w == RowsAt(events, raw)
<1>1. /\ D = SidsOf(events, raw) \cup ArchivesOf(events, raw)
      /\ \A i \in DOMAIN events : byId[SyntheticId(raw, i)].number = i
  BY DEF Standings, Standing
<1>2. w \in Lists(Nat, D)
  BY <1>1, RowsTyped DEF Standings
<1>3. \A i \in DOMAIN events : SpanOf(shape, events, raw, i) \in Seq(Nat)
  <2>1. \A i \in DOMAIN events : i \in 0..Len(events)
    BY ListedFacts DEF Standings
  <2> QED BY <2>1, SpanTyped DEF Standings
<1>4. ASSUME NEW i \in DOMAIN events
      PROVE  /\ SyntheticId(raw, i) \in D /\ SyntheticId(raw, i) \notin ArchivesOf(events, raw)
             /\ d[SyntheticId(raw, i)] = Spread(w, SpanOf(shape, events, raw, i))
             /\ Spread(w, SpanOf(shape, events, raw, i)) \in Seq(D)
  <2>1. SyntheticId(raw, i) \in D
    BY <1>1 DEF SidsOf
  <2>2. SyntheticId(raw, i) \notin ArchivesOf(events, raw)
    <3>1. SyntheticId(raw, i) \in SidsOf(events, raw)
      BY DEF SidsOf
    <3> QED BY <3>1, ArchivesApart DEF Standings
  <2>3. d[SyntheticId(raw, i)] = Spread(w, SpanOf(shape, events, raw, byId[SyntheticId(raw, i)].number))
    BY <2>1, <2>2 DEF NodesDrawn
  <2>4. d[SyntheticId(raw, i)] = Spread(w, SpanOf(shape, events, raw, i))
    BY <1>1, <2>3
  <2> HIDE DEF w, D, d
  <2>5. Spread(w, SpanOf(shape, events, raw, i)) \in Seq(D)
    BY <1>2, <1>3, SpreadTyped
  <2> QED BY <2>1, <2>2, <2>4, <2>5
<1>5. ASSUME NEW x \in ArchivesOf(events, raw) PROVE x \in D /\ d[x] = <<x>>
  BY <1>1 DEF NodesDrawn
<1>6. d = [x \in D |-> d[x]]
  BY DEF NodesDrawn
<1> HIDE DEF d, w, D
<1>7. \A x \in D : d[x] \in Seq(D)
  <2> TAKE x \in D
  <2>1. CASE x \in ArchivesOf(events, raw)
    BY <1>5, <2>1
  <2>2. CASE x \in SidsOf(events, raw)
    <3>1. PICK i \in DOMAIN events : x = SyntheticId(raw, i)
      BY <2>2 DEF SidsOf
    <3> QED BY <1>4, <3>1
  <2> QED BY <1>1, <2>1, <2>2
<1>8. d \in Lists(D, D)
  BY <1>6, <1>7 DEF Lists
<1> QED BY <1>4, <1>5, <1>8 DEF d, w, D

\* The children of an event, one after the other, draw what is below it.
LEMMA BelowDrawn ==
  ASSUME NEW shape, NEW events, NEW raw, NEW byId, Standings(shape, events, raw, byId),
         NEW i \in 0..Len(events)
  PROVE  /\ Below(shape, events, raw, i) \in Seq(DOMAIN byId)
         /\ Spread(NodesDrawn(shape, events, raw, byId), Below(shape, events, raw, i))
              = Spread(RowsAt(events, raw), Span(i + 1, After(Puts(shape, events, raw), Len(events), i)))
<1> DEFINE D == DOMAIN byId
           n == Len(events)
           d == NodesDrawn(shape, events, raw, byId)
           w == RowsAt(events, raw)
           p == Puts(shape, events, raw)
           bb == BelowOf(shape, events, raw, i)
           ss == Spans(p, n, i)
<1>1. /\ d \in Lists(D, D) /\ w \in Lists(Nat, D)
      /\ \A j \in DOMAIN events : SyntheticId(raw, j) \in D /\ d[SyntheticId(raw, j)] = Spread(w, SpanOf(shape, events, raw, j))
  <2>1. w \in Lists(Nat, D)
    BY RowsTyped DEF Standings, Standing
  <2>2. /\ d \in Lists(D, D)
        /\ \A j \in DOMAIN events : SyntheticId(raw, j) \in D /\ d[SyntheticId(raw, j)] = Spread(w, SpanOf(shape, events, raw, j))
    BY NodesFacts
  <2> QED BY <2>1, <2>2
<1>2. n \in Nat /\ DOMAIN events = 1..n /\ Forest(p, n)
  BY ListedFacts, PutsForest DEF Standings, ListedWith
<1>3. /\ ss \in Seq(Seq(Nat)) /\ Len(ss) = n /\ FlattenSeq(ss) = Span(i + 1, After(p, n, i))
  BY <1>2, ChildrenSpan
<1>4. bb \in Seq(Seq(D)) /\ Len(bb) = n /\ Below(shape, events, raw, i) = FlattenSeq(bb)
  <2>0. ListedWith(shape, events, raw)
    BY DEF Standings
  <2>1. bb \in Seq(Seq(SidsOf(events, raw))) /\ Len(bb) = n /\ Below(shape, events, raw, i) = FlattenSeq(bb)
    BY <2>0, BelowTyped
  <2>2. \A j \in 1..n : bb[j] \in Seq(D)
    <3> TAKE j \in 1..n
    <3>1. bb[j] = IF p[j] = i THEN <<SyntheticId(raw, j)>> ELSE <<>>
      BY DEF BelowOf
    <3>2. SyntheticId(raw, j) \in D
      BY <1>1, <1>2
    <3> HIDE DEF bb, D, p
    <3> QED BY <3>1, <3>2
  <2>3. bb = [j \in 1..n |-> bb[j]]
    BY DEF BelowOf
  <2> HIDE DEF bb, D
  <2>4. bb \in Seq(Seq(D))
    BY <1>2, <2>2, <2>3, IsASeq
  <2> QED BY <2>1, <2>4
<1>5. SpreadEach(d, bb) = SpreadEach(w, ss)
  <2>1. ASSUME NEW j \in 1..n PROVE Spread(d, bb[j]) = Spread(w, ss[j])
    <3>1. bb[j] = (IF p[j] = i THEN <<SyntheticId(raw, j)>> ELSE <<>>)
      BY DEF BelowOf
    <3>2. ss[j] = (IF p[j] = i THEN SpanOf(shape, events, raw, j) ELSE <<>>)
      BY DEF Spans, SpanOf
    <3>3. SyntheticId(raw, j) \in D /\ d[SyntheticId(raw, j)] = Spread(w, SpanOf(shape, events, raw, j))
      BY <1>1, <1>2
    <3> HIDE DEF d, w, D, bb, ss, p
    <3>4. Spread(d, <<SyntheticId(raw, j)>>) = d[SyntheticId(raw, j)] /\ Spread(d, <<>>) = <<>>
      BY <1>1, <3>3, SpreadOne
    <3>5. Spread(w, <<>>) = <<>>
      <4>1. 0 \in Nat
        OBVIOUS
      <4> QED BY <1>1, <4>1, SpreadOne
    <3>6. CASE p[j] = i
      BY <3>1, <3>2, <3>3, <3>4, <3>6
    <3>7. CASE p[j] # i
      BY <3>1, <3>2, <3>4, <3>5, <3>7
    <3> QED BY <3>6, <3>7
  <2>2. DOMAIN bb = 1..n /\ DOMAIN ss = 1..n
    BY <1>3, <1>4, LenProperties
  <2> HIDE DEF d, w, bb, ss
  <2> QED BY <2>1, <2>2 DEF SpreadEach
<1> HIDE DEF d, w, D, bb, ss, p
<1>6. Spread(d, FlattenSeq(bb)) = FlattenSeq(SpreadEach(d, bb)) /\ FlattenSeq(bb) \in Seq(D)
  BY <1>1, <1>4, SpreadFlatten, FlattenFacts
<1>7. Spread(w, FlattenSeq(ss)) = FlattenSeq(SpreadEach(w, ss))
  BY <1>1, <1>3, SpreadFlatten
<1>8. Spread(d, Below(shape, events, raw, i)) = Spread(w, Span(i + 1, After(p, n, i)))
  BY <1>3, <1>4, <1>5, <1>6, <1>7
<1> QED BY <1>4, <1>6, <1>8 DEF d, w, D, p

Alone(raw, events, i) ==
  IF i \in Exercising(events) THEN <<ArchiveOf(SyntheticId(raw, i))>> ELSE <<>>

LEMMA NodesUnfold ==
  ASSUME NEW shape, NEW events, NEW raw, NEW byId, Standings(shape, events, raw, byId)
  PROVE  /\ Kids(byId) \in Lists(DOMAIN byId, DOMAIN byId)
         /\ Unfolds(NodesDrawn(shape, events, raw, byId), DOMAIN byId, Selves(DOMAIN byId), Kids(byId))
<1> DEFINE D == DOMAIN byId
           d == NodesDrawn(shape, events, raw, byId)
           w == RowsAt(events, raw)
           kids == Kids(byId)
<1>0. Len(events) \in Nat /\ DOMAIN events = 1..Len(events)
  BY ListedFacts DEF Standings
<1>1. /\ D = SidsOf(events, raw) \cup ArchivesOf(events, raw)
      /\ \A x \in D : kids[x] = byId[x].childEventIds
  BY DEF Standings, Standing, Kids
<1>2. /\ d \in Lists(D, D) /\ w \in Lists(Nat, D)
      /\ \A j \in DOMAIN events : SyntheticId(raw, j) \in D /\ d[SyntheticId(raw, j)] = Spread(w, SpanOf(shape, events, raw, j))
      /\ \A x \in ArchivesOf(events, raw) : x \in D /\ d[x] = <<x>>
  BY NodesFacts, RowsTyped, <1>1 DEF Standings
<1>3. ASSUME NEW i \in DOMAIN events
      PROVE  /\ kids[SyntheticId(raw, i)] = Alone(raw, events, i) \o Below(shape, events, raw, i)
             /\ Below(shape, events, raw, i) \in Seq(D)
             /\ Alone(raw, events, i) \in Seq(D)
             /\ Alone(raw, events, i) \o Below(shape, events, raw, i) \in Seq(D)
  <2>1. kids[SyntheticId(raw, i)] =
            IF i \in Exercising(events)
            THEN <<ArchiveOf(SyntheticId(raw, i))>> \o Below(shape, events, raw, i)
            ELSE Below(shape, events, raw, i)
    <3>1. SyntheticId(raw, i) \in D
      BY <1>2
    <3> QED BY <1>1, <3>1 DEF Standings, Standing
  <2>2. Below(shape, events, raw, i) \in Seq(D)
    <3>1. i \in 0..Len(events)
      BY <1>0
    <3> QED BY <3>1, BelowDrawn
  <2>3. Alone(raw, events, i) \in Seq(D)
    <3>1. i \in Exercising(events) => ArchiveOf(SyntheticId(raw, i)) \in D
      BY <1>1 DEF ArchivesOf
    <3> HIDE DEF D
    <3> QED BY <3>1 DEF Alone
  <2> HIDE DEF kids, D
  <2>4. <<>> \o Below(shape, events, raw, i) = Below(shape, events, raw, i)
    BY <2>2, ConcatEmptySeq
  <2>5. Alone(raw, events, i) \o Below(shape, events, raw, i) \in Seq(D)
    BY <2>2, <2>3, ConcatProperties
  <2> QED BY <2>1, <2>2, <2>3, <2>4, <2>5 DEF Alone
<1>4. ASSUME NEW x \in ArchivesOf(events, raw) PROVE x \in D /\ kids[x] = <<>>
  <2>1. PICK i \in Exercising(events) : x = ArchiveOf(SyntheticId(raw, i))
    BY DEF ArchivesOf
  <2>2. byId[x].childEventIds = <<>>
    BY <2>1 DEF Standings, Standing
  <2> QED BY <1>1, <2>2
<1>5. kids = [x \in D |-> kids[x]]
  BY DEF Kids
<1> HIDE DEF d, w, D, kids
<1>6. kids \in Lists(D, D)
  <2>1. ASSUME NEW x \in D PROVE kids[x] \in Seq(D)
    <3>1. CASE x \in ArchivesOf(events, raw)
      <4>1. kids[x] = <<>>
        BY <1>4, <3>1
      <4>2. <<>> \in Seq(D)
        BY EmptySeq
      <4> QED BY <4>1, <4>2
    <3>2. CASE x \in SidsOf(events, raw)
      <4>1. PICK i \in DOMAIN events : x = SyntheticId(raw, i)
        BY <3>2 DEF SidsOf
      <4>2. kids[x] = Alone(raw, events, i) \o Below(shape, events, raw, i)
            /\ Alone(raw, events, i) \o Below(shape, events, raw, i) \in Seq(D)
        BY <1>3, <4>1
      <4> QED BY <4>2
    <3> QED BY <1>1, <3>1, <3>2
  <2> QED BY <1>5, <2>1 DEF Lists
<1>7. Within(d, D, D) = d
  BY <1>2 DEF Within, Lists
<1>8. ASSUME NEW x \in D PROVE d[x] = Selves(D)[x] \o Under(d, D, kids, x)
  <2>1. Under(d, D, kids, x) = Spread(d, kids[x])
    BY <1>6, <1>7, UnderSpread
  <2>2. Selves(D)[x] = <<x>>
    BY DEF Selves
  <2>3. CASE x \in ArchivesOf(events, raw)
    <3>1. Spread(d, <<>>) = <<>>
      BY <1>2, SpreadOne
    <3>2. <<x>> \o <<>> = <<x>>
      BY PairJoined
    <3> QED BY <1>2, <1>4, <2>1, <2>2, <2>3, <3>1, <3>2
  <2>4. CASE x \in SidsOf(events, raw)
    <3>1. PICK i \in DOMAIN events : x = SyntheticId(raw, i)
      BY <2>4 DEF SidsOf
    <3> DEFINE below == Below(shape, events, raw, i)
               alone == Alone(raw, events, i)
               rest == Span(i + 1, After(Puts(shape, events, raw), Len(events), i))
    <3>2. i \in 0..Len(events) /\ i \in Nat
      BY <1>0
    <3>3. Spread(d, below) = Spread(w, rest)
      BY <3>2, BelowDrawn DEF d, w
    <3>4. SpanOf(shape, events, raw, i) = <<i>> \o rest /\ rest \in Seq(Nat)
      BY <3>2, SpanTyped DEF Standings
    <3>5. w[i] = IF i \in Exercising(events) THEN <<x, ArchiveOf(x)>> ELSE <<x>>
      BY <3>1, <3>2 DEF w, RowsAt
    <3>6. kids[x] = alone \o below /\ below \in Seq(D) /\ alone \in Seq(D)
      BY <1>3, <3>1
    <3>7. i \in Exercising(events) => ArchiveOf(x) \in ArchivesOf(events, raw)
      BY <3>1 DEF ArchivesOf
    <3>8. d[x] = Spread(w, SpanOf(shape, events, raw, i))
      BY <1>2, <3>1
    <3>9. alone = IF i \in Exercising(events) THEN <<ArchiveOf(x)>> ELSE <<>>
      BY <3>1 DEF Alone
    <3> HIDE DEF below, alone, rest
    <3> DEFINE u == alone \o below
               v == <<i>> \o rest
               r == Spread(w, rest)
    <3>10. Both(u, alone, below) /\ Both(v, <<i>>, rest)
      BY DEF Both
    <3>11. <<i>> \in Seq(Nat)
      BY <3>2
    <3>12. kids[x] = u /\ SpanOf(shape, events, raw, i) = v /\ Spread(d, below) = r
      BY <3>3, <3>4, <3>6
    <3> HIDE DEF u, v
    <3>13. Both(Spread(d, u), Spread(d, alone), Spread(d, below))
      BY <1>2, <3>6, <3>10, SpreadBoth DEF Lists
    <3>14. Both(Spread(w, v), Spread(w, <<i>>), Spread(w, rest))
      BY <1>2, <3>4, <3>10, <3>11, SpreadBoth DEF Lists
    <3>15. Spread(w, <<i>>) = w[i]
      BY <1>2, <3>2, SpreadOne
    <3>16. Spread(d, alone) = alone
      <4>1. CASE i \in Exercising(events)
        BY <1>2, <3>7, <3>9, <4>1, SpreadOne
      <4>2. CASE i \notin Exercising(events)
        BY <1>2, <3>9, <4>2, SpreadOne
      <4> QED BY <4>1, <4>2
    <3>17. r \in Seq(D)
      BY <1>2, <3>4, SpreadTyped
    <3> HIDE DEF r
    <3>18. d[x] = w[i] \o r /\ Spread(d, kids[x]) = alone \o r
      BY <3>8, <3>12, <3>13, <3>14, <3>15, <3>16 DEF Both, r
    <3>19. w[i] = <<x>> \o alone
      <4>1. CASE i \in Exercising(events)
        <5>1. ArchiveOf(x) \in D
          BY <1>2, <3>7, <4>1
        <5>2. <<x>> \o <<ArchiveOf(x)>> = <<x, ArchiveOf(x)>>
          BY <5>1, PairJoined
        <5> QED BY <3>5, <3>9, <4>1, <5>2
      <4>2. CASE i \notin Exercising(events)
        <5>1. <<x>> \o <<>> = <<x>>
          BY PairJoined
        <5> QED BY <3>5, <3>9, <4>2, <5>1
      <4> QED BY <4>1, <4>2
    <3>20. (<<x>> \o alone) \o r = <<x>> \o (alone \o r)
      <4>1. <<x>> \in Seq(D)
        OBVIOUS
      <4> QED BY <3>6, <3>17, <4>1, ConcatAssociative
    <3> QED BY <2>1, <2>2, <3>18, <3>19, <3>20
  <2> QED BY <1>1, <2>3, <2>4
<1>9. d = [x \in D |-> d[x]]
  BY <1>2 DEF Lists
<1>10. Unfolds(d, D, Selves(D), kids)
  BY <1>8, <1>9 DEF Unfolds
<1> QED BY <1>6, <1>10 DEF d, D, kids

\* The tree of any roots.
LEMMA TreeSpread ==
  ASSUME NEW shape, NEW events, NEW raw, NEW byId, Standings(shape, events, raw, byId),
         NEW roots \in Seq(DOMAIN byId)
  PROVE  TreeOf(roots, byId) = Spread(NodesDrawn(shape, events, raw, byId), roots)
<1> DEFINE D == DOMAIN byId
           d == NodesDrawn(shape, events, raw, byId)
           n == Len(events)
           p == Puts(shape, events, raw)
           kids == Kids(byId)
           rank == [x \in D |-> IF x \in ArchivesOf(events, raw) THEN 0 ELSE (n + 1) - byId[x].number]
<1>1. /\ n \in Nat /\ DOMAIN events = 1..n /\ Forest(p, n)
      /\ D = SidsOf(events, raw) \cup ArchivesOf(events, raw)
      /\ \A i \in DOMAIN events : byId[SyntheticId(raw, i)].number = i
  BY ListedFacts, PutsForest DEF Standings, Standing, ListedWith
<1>2. ASSUME NEW i \in DOMAIN events
      PROVE  /\ SyntheticId(raw, i) \in D /\ rank[SyntheticId(raw, i)] = (n + 1) - i
             /\ SyntheticId(raw, i) \notin ArchivesOf(events, raw)
  <2>1. SyntheticId(raw, i) \in SidsOf(events, raw)
    BY DEF SidsOf
  <2>2. SyntheticId(raw, i) \notin ArchivesOf(events, raw)
    BY <2>1, ArchivesApart DEF Standings
  <2> QED BY <1>1, <2>1, <2>2
<1>3. ASSUME NEW x \in ArchivesOf(events, raw) PROVE x \in D /\ rank[x] = 0 /\ kids[x] = <<>>
  <2>1. PICK i \in Exercising(events) : x = ArchiveOf(SyntheticId(raw, i))
    BY DEF ArchivesOf
  <2>2. byId[x].childEventIds = <<>>
    BY <2>1 DEF Standings, Standing
  <2>3. x \in D
    BY <1>1
  <2> QED BY <2>2, <2>3 DEF Kids
<1>4. rank = [x \in D |-> rank[x]]
  OBVIOUS
<1>5. /\ kids \in [D -> Seq(D)] /\ Unfolds(d, D, Selves(D), kids)
  BY NodesUnfold DEF Lists
<1>6. ASSUME NEW i \in DOMAIN events, NEW k \in DOMAIN kids[SyntheticId(raw, i)]
      PROVE  \/ kids[SyntheticId(raw, i)][k] \in ArchivesOf(events, raw)
             \/ \E j \in DOMAIN events : p[j] = i /\ kids[SyntheticId(raw, i)][k] = SyntheticId(raw, j)
  <2> DEFINE x == SyntheticId(raw, i)
             below == Below(shape, events, raw, i)
  <2>1. kids[x] = IF i \in Exercising(events) THEN <<ArchiveOf(x)>> \o below ELSE below
    BY <1>2 DEF Kids, Standings, Standing
  <2>2. /\ below \in Seq(SidsOf(events, raw))
        /\ \A m \in DOMAIN below : \E j \in DOMAIN events : p[j] = i /\ below[m] = SyntheticId(raw, j)
    BY BelowTyped DEF Standings
  <2>3. i \in Exercising(events) => ArchiveOf(x) \in ArchivesOf(events, raw)
    BY DEF ArchivesOf
  <2>4. k \in DOMAIN kids[x]
    BY <1>6
  <2> HIDE DEF x, below, kids, p
  <2>5. CASE i \notin Exercising(events)
    BY <2>1, <2>2, <2>4, <2>5 DEF x
  <2>6. CASE i \in Exercising(events)
    <3> DEFINE D2 == SidsOf(events, raw) \cup ArchivesOf(events, raw)
               s == <<ArchiveOf(x)>>
    <3>1. s \in Seq(D2) /\ Len(s) = 1 /\ s[1] = ArchiveOf(x)
      BY <2>3, <2>6
    <3>2. below \in Seq(D2) /\ Len(below) \in Nat /\ DOMAIN below = 1..Len(below)
      <4>1. Len(below) \in Nat /\ DOMAIN below = 1..Len(below) /\ \A m \in 1..Len(below) : below[m] \in D2
        BY <2>2, ElementOfSeq, LenProperties
      <4>2. below = [m \in 1..Len(below) |-> below[m]]
        BY <2>2, LenProperties
      <4> HIDE DEF D2
      <4>3. below \in Seq(D2)
        BY <4>1, <4>2, IsASeq
      <4> QED BY <4>1, <4>3
    <3> HIDE DEF D2, s
    <3>3. s \o below \in Seq(D2) /\ Len(s \o below) = 1 + Len(below)
      <4>1. s \in Seq(D2) /\ below \in Seq(D2)
        BY <3>1, <3>2
      <4>2. s \o below \in Seq(D2) /\ Len(s \o below) = Len(s) + Len(below)
        BY <4>1, ConcatProperties, Zenon
      <4> QED BY <3>1, <4>2
    <3>4. k \in 1..(1 + Len(below)) /\ kids[x] = s \o below
      BY <2>1, <2>4, <2>6, <3>2, <3>3, LenProperties DEF s
    <3>5. (s \o below)[k] = IF k <= 1 THEN s[k] ELSE below[k - 1]
      <4>1. k \in 1..(Len(s) + Len(below))
        BY <3>1, <3>4
      <4> QED BY <3>1, <3>2, <4>1, ConcatAt
    <3>6. CASE k = 1
      BY <2>3, <2>6, <3>1, <3>4, <3>5, <3>6 DEF x
    <3>7. CASE k # 1
      <4>1. k - 1 \in DOMAIN below /\ ~(k <= 1)
        BY <3>2, <3>4, <3>7
      <4> QED BY <2>2, <3>4, <3>5, <4>1 DEF x
    <3> QED BY <3>6, <3>7
  <2> QED BY <2>5, <2>6
<1> HIDE DEF d, kids, rank, p
<1>7. rank \in [D -> 0..(n + 1)]
  <2>1. ASSUME NEW x \in D PROVE rank[x] \in 0..(n + 1)
    <3>1. CASE x \in ArchivesOf(events, raw)
      BY <1>1, <1>3, <3>1
    <3>2. CASE x \in SidsOf(events, raw)
      <4>1. PICK i \in DOMAIN events : x = SyntheticId(raw, i)
        BY <3>2 DEF SidsOf
      <4> QED BY <1>1, <1>2, <4>1
    <3> QED BY <1>1, <3>1, <3>2
  <2> QED BY <1>4, <2>1
<1>8. Ranked(D, kids, rank)
  <2> SUFFICES ASSUME NEW x \in D, NEW k \in DOMAIN kids[x], kids[x][k] \in D
               PROVE  rank[kids[x][k]] < rank[x]
    BY DEF Ranked
  <2>1. CASE x \in ArchivesOf(events, raw)
    BY <1>3, <2>1
  <2>2. CASE x \in SidsOf(events, raw)
    <3>1. PICK i \in DOMAIN events : x = SyntheticId(raw, i)
      BY <2>2 DEF SidsOf
    <3>2. rank[x] = (n + 1) - i /\ i \in 1..n
      BY <1>1, <1>2, <3>1
    <3>3. CASE kids[x][k] \in ArchivesOf(events, raw)
      BY <1>1, <1>3, <3>2, <3>3
    <3>4. CASE \E j \in DOMAIN events : p[j] = i /\ kids[x][k] = SyntheticId(raw, j)
      <4>1. PICK j \in DOMAIN events : p[j] = i /\ kids[x][k] = SyntheticId(raw, j)
        BY <3>4
      <4>2. i < j
        BY <1>1, <4>1 DEF Forest
      <4>3. rank[kids[x][k]] = (n + 1) - j /\ j \in 1..n
        BY <1>1, <1>2, <4>1
      <4> QED BY <1>1, <3>2, <4>2, <4>3
    <3> QED BY <1>6, <3>1, <3>3, <3>4
  <2> QED BY <1>1, <2>1, <2>2
<1>9. PICK e \in [D -> Seq(D)] :
           /\ Unfolds(e, D, Selves(D), kids)
           /\ TreeOf(roots, byId) =
                FlattenSeq([k \in DOMAIN roots |-> IF roots[k] \in D THEN e[roots[k]] ELSE <<>>])
  <2>1. n + 1 \in Nat
    BY <1>1
  <2> QED BY <1>5, <1>7, <1>8, <2>1, TreeDraws DEF kids
<1>10. e = d
  <2>1. n + 1 \in Nat
    BY <1>1
  <2> QED BY <1>5, <1>7, <1>8, <1>9, <2>1, UnfoldUnique
<1>11. \A k \in DOMAIN roots : roots[k] \in D
  BY ElementOfSeq
<1>12. TreeOf(roots, byId) = FlattenSeq([k \in DOMAIN roots |-> d[roots[k]]])
  BY <1>9, <1>10, <1>11
<1> QED BY <1>12 DEF Spread, d

\* The whole is drawn as its events one after the other; of an event, what is
\* below it.
LEMMA WholeDrawn ==
  ASSUME NEW shape, NEW events, NEW raw, NEW byId, Standings(shape, events, raw, byId)
  PROVE  /\ TreeOf(Below(shape, events, raw, 0), byId) = Spread(RowsAt(events, raw), Span(1, Len(events) + 1))
         /\ \A i \in DOMAIN events :
              TreeOf(<<SyntheticId(raw, i)>>, byId) = Spread(RowsAt(events, raw), SpanOf(shape, events, raw, i))
<1> DEFINE n == Len(events)
           p == Puts(shape, events, raw)
           d == NodesDrawn(shape, events, raw, byId)
<1>1. n \in Nat /\ Forest(p, n) /\ 0 \in 0..n /\ 0 + 1 = 1
  BY ListedFacts, PutsForest DEF Standings, ListedWith
<1>2. Below(shape, events, raw, 0) \in Seq(DOMAIN byId)
  BY <1>1, BelowDrawn
<1>3. Spread(d, Below(shape, events, raw, 0)) = Spread(RowsAt(events, raw), Span(0 + 1, After(p, n, 0)))
  BY <1>1, BelowDrawn
<1>4. After(p, n, 0) = n + 1
  <2>1. p \in [1..n -> Nat]
    BY <1>1 DEF Forest
  <2>2. Ends(p, n, 0, After(p, n, 0))
    BY <1>1, <2>1, AfterEnds
  <2> DEFINE a == After(p, n, 0)
  <2> HIDE DEF a, p
  <2>3. a = n + 1 \/ (a \in 1..n /\ p[a] < 0)
    BY <2>2 DEF Ends, a
  <2>4. a = n + 1
    BY <2>1, <2>3
  <2> QED BY <2>4 DEF a
<1>5. TreeOf(Below(shape, events, raw, 0), byId) = Spread(d, Below(shape, events, raw, 0))
  BY <1>2, TreeSpread
<1>6. ASSUME NEW i \in DOMAIN events
      PROVE  TreeOf(<<SyntheticId(raw, i)>>, byId) = Spread(RowsAt(events, raw), SpanOf(shape, events, raw, i))
  <2> DEFINE x == SyntheticId(raw, i)
  <2>1. x \in DOMAIN byId /\ d \in Lists(DOMAIN byId, DOMAIN byId)
        /\ d[x] = Spread(RowsAt(events, raw), SpanOf(shape, events, raw, i))
    BY NodesFacts
  <2> HIDE DEF x, d
  <2>2. <<x>> \in Seq(DOMAIN byId)
    BY <2>1
  <2>3. TreeOf(<<x>>, byId) = Spread(d, <<x>>)
    <3> DEFINE roots == <<x>>
    <3>1. roots \in Seq(DOMAIN byId)
      BY <2>2
    <3> HIDE DEF roots
    <3>2. TreeOf(roots, byId) = Spread(NodesDrawn(shape, events, raw, byId), roots)
      BY <3>1, TreeSpread
    <3> QED BY <3>2 DEF roots, d
  <2>4. Spread(d, <<x>>) = d[x]
    BY <2>1, SpreadOne
  <2> QED BY <2>1, <2>3, <2>4 DEF x
<1> QED BY <1>1, <1>3, <1>4, <1>5, <1>6

-----------------------------------------------------------------------------
(***************************************************************************)
(* What is drawn, event by event.                                          *)
(***************************************************************************)

Pieces(events, raw) == [k \in 1..Len(events) |-> RowsAt(events, raw)[k]]

LEMMA PiecesFacts ==
  ASSUME NEW shape, NEW events, NEW raw, NEW byId, Standings(shape, events, raw, byId)
  PROVE  /\ Pieces(events, raw) \in Seq(Seq(DOMAIN byId))
         /\ Len(Pieces(events, raw)) = Len(events)
         /\ \A k \in DOMAIN events :
              Pieces(events, raw)[k] = IF k \in Exercising(events)
                                       THEN <<SyntheticId(raw, k), ArchiveOf(SyntheticId(raw, k))>>
                                       ELSE <<SyntheticId(raw, k)>>
         /\ TreeOf(Below(shape, events, raw, 0), byId) = FlattenSeq(Pieces(events, raw))
<1> DEFINE n == Len(events)
           w == RowsAt(events, raw)
           s == Span(1, n + 1)
           D == DOMAIN byId
<1>1. n \in Nat /\ DOMAIN events = 1..n
  BY ListedFacts DEF Standings
<1>2. D = SidsOf(events, raw) \cup ArchivesOf(events, raw)
  BY DEF Standings, Standing
<1>3. w \in Lists(Nat, D)
  BY <1>2, RowsTyped DEF Standings
<1>4. \A k \in 1..n : k \in Nat /\ w[k] \in Seq(D)
  BY <1>1, <1>3 DEF Lists
<1>5. \A k \in DOMAIN events :
        w[k] = IF k \in Exercising(events)
               THEN <<SyntheticId(raw, k), ArchiveOf(SyntheticId(raw, k))>>
               ELSE <<SyntheticId(raw, k)>>
  BY <1>1 DEF RowsAt
<1> HIDE DEF w, D
<1>6. DOMAIN s = 1..n /\ \A k \in 1..n : s[k] = k
  <2>1. (n + 1) - 1 = n /\ \A k \in 1..n : 1 + k - 1 = k
    BY <1>1
  <2> QED BY <2>1 DEF Span
<1>7. Spread(w, s) = FlattenSeq([k \in 1..n |-> w[k]])
  <2>1. [k \in DOMAIN s |-> w[s[k]]] = [k \in 1..n |-> w[k]]
    BY <1>6
  <2> HIDE DEF s
  <2> QED BY <2>1 DEF Spread
<1>8. TreeOf(Below(shape, events, raw, 0), byId) = Spread(w, s)
  BY WholeDrawn DEF w
<1>9. [k \in 1..n |-> w[k]] \in Seq(Seq(D)) /\ Len([k \in 1..n |-> w[k]]) = n
  BY <1>1, <1>4, IsASeq
<1>10. Pieces(events, raw) = [k \in 1..n |-> w[k]]
  BY DEF Pieces, w
<1>11. \A k \in DOMAIN events : Pieces(events, raw)[k] = w[k]
  BY <1>1, <1>10
<1> QED BY <1>5, <1>7, <1>8, <1>9, <1>10, <1>11 DEF D

NumbersIn(byId) == [x \in DOMAIN byId |-> IF x.archive THEN <<>> ELSE <<byId[x].number>>]

\* Every event once, in the order of the ledger.
LEMMA NumbersDrawn ==
  ASSUME NEW shape, NEW events, NEW raw, NEW byId, Standings(shape, events, raw, byId)
  PROVE  LET nodes == TreeOf(Below(shape, events, raw, 0), byId)
         IN FlattenSeq([k \in DOMAIN nodes |->
                         IF nodes[k].archive THEN <<>> ELSE <<byId[nodes[k]].number>>])
              = [k \in DOMAIN events |-> k]
<1> DEFINE nodes == TreeOf(Below(shape, events, raw, 0), byId)
           n == Len(events)
           D == DOMAIN byId
           num == NumbersIn(byId)
           ss == Pieces(events, raw)
           ones == [k \in 1..n |-> <<k>>]
           id == [k \in 1..n |-> k]
<1>1. n \in Nat /\ DOMAIN events = 1..n
  BY ListedFacts DEF Standings
<1>2. /\ D = SidsOf(events, raw) \cup ArchivesOf(events, raw)
      /\ \A i \in DOMAIN events : byId[SyntheticId(raw, i)].number = i
  BY DEF Standings, Standing
<1>3. ASSUME NEW i \in DOMAIN events
      PROVE  SyntheticId(raw, i) \in D /\ num[SyntheticId(raw, i)] = <<i>>
  <2>1. SyntheticId(raw, i) \in D /\ SyntheticId(raw, i).archive = FALSE
    BY <1>2 DEF SidsOf, SyntheticId
  <2> QED BY <1>2, <2>1 DEF NumbersIn
<1>4. ASSUME NEW x \in ArchivesOf(events, raw) PROVE x \in D /\ num[x] = <<>>
  <2>1. x \in D /\ x.archive = TRUE
    BY <1>2, ArchivesApart DEF Standings
  <2> QED BY <2>1 DEF NumbersIn
<1>5. num \in Lists(D, Nat)
  <2>1. num = [x \in D |-> num[x]]
    BY DEF NumbersIn
  <2> HIDE DEF num
  <2>2. ASSUME NEW x \in D PROVE num[x] \in Seq(Nat)
    <3>1. CASE x \in ArchivesOf(events, raw)
      <4>1. num[x] = <<>>
        BY <1>4, <3>1
      <4> QED BY <4>1, EmptySeq
    <3>2. CASE x \in SidsOf(events, raw)
      <4>1. PICK i \in DOMAIN events : x = SyntheticId(raw, i)
        BY <3>2 DEF SidsOf
      <4>2. num[x] = <<i>> /\ i \in Nat
        BY <1>1, <1>3, <4>1
      <4> QED BY <4>2
    <3> QED BY <1>2, <3>1, <3>2
  <2> HIDE DEF D
  <2> QED BY <2>1, <2>2 DEF Lists
<1>6. /\ ss \in Seq(Seq(D)) /\ Len(ss) = n /\ nodes = FlattenSeq(ss)
      /\ \A k \in DOMAIN events :
           ss[k] = IF k \in Exercising(events)
                   THEN <<SyntheticId(raw, k), ArchiveOf(SyntheticId(raw, k))>>
                   ELSE <<SyntheticId(raw, k)>>
  BY PiecesFacts
<1>7. nodes \in Seq(D)
  BY <1>6, FlattenFacts
<1> HIDE DEF num, ss, D
<1>8. ASSUME NEW k \in 1..n PROVE Spread(num, ss[k]) = <<k>>
  <2> DEFINE x == SyntheticId(raw, k)
             y == ArchiveOf(x)
  <2>1. x \in D /\ num[x] = <<k>>
    BY <1>1, <1>3
  <2>2. ss[k] = IF k \in Exercising(events) THEN <<x, y>> ELSE <<x>>
    BY <1>1, <1>6
  <2>3. k \in Exercising(events) => y \in D /\ num[y] = <<>>
    <3>1. k \in Exercising(events) => y \in ArchivesOf(events, raw)
      BY DEF ArchivesOf
    <3> QED BY <1>4, <3>1
  <2> HIDE DEF x, y
  <2>4. Spread(num, <<x>>) = <<k>>
    BY <1>5, <2>1, SpreadOne
  <2>5. CASE k \in Exercising(events)
    <3> DEFINE u == <<x, y>>
               s == <<x>>
               t == <<y>>
    <3>1. Both(u, s, t)
      BY <2>1, <2>3, <2>5, PairJoined DEF Both
    <3>2. s \in Seq(D) /\ t \in Seq(D)
      BY <2>1, <2>3, <2>5
    <3>3. Spread(num, t) = <<>>
      BY <1>5, <2>3, <2>5, SpreadOne
    <3>4. Spread(num, s) = <<k>>
      BY <2>4
    <3>5. ss[k] = u
      BY <2>2, <2>5
    <3> HIDE DEF u, s, t
    <3>6. Both(Spread(num, u), Spread(num, s), Spread(num, t))
      BY <1>5, <3>1, <3>2, SpreadBoth DEF Lists
    <3>7. <<k>> \o <<>> = <<k>>
      BY PairJoined
    <3> QED BY <3>3, <3>4, <3>5, <3>6, <3>7 DEF Both
  <2>6. CASE k \notin Exercising(events)
    BY <2>2, <2>4, <2>6
  <2> QED BY <2>5, <2>6
<1>9. SpreadEach(num, ss) = ones
  <2>1. DOMAIN ss = 1..n
    BY <1>6, LenProperties
  <2> QED BY <1>8, <2>1 DEF SpreadEach
<1>10. Spread(num, nodes) = FlattenSeq(ones)
  <2> HIDE DEF nodes, ones
  <2>1. Spread(num, FlattenSeq(ss)) = FlattenSeq(SpreadEach(num, ss))
    BY <1>5, <1>6, SpreadFlatten
  <2> QED BY <1>6, <1>9, <2>1
<1>11. FlattenSeq(ones) = id
  <2>1. id \in [1..n -> 1..n] /\ id \in Seq(1..n) /\ DOMAIN id = 1..n /\ \A k \in 1..n : id[k] = k
    <3>1. \A k \in 1..n : k \in 1..n
      OBVIOUS
    <3>2. id \in Seq(1..n)
      BY <1>1, <3>1, IsASeq
    <3> QED BY <3>2
  <2>2. Spread(Singles(1..n, id), id) = Mapped(id, id)
    BY <2>1, SpreadSingles
  <2>3. Mapped(id, id) = id
    BY <2>1 DEF Mapped
  <2>4. [k \in DOMAIN id |-> Singles(1..n, id)[id[k]]] = ones
    BY <2>1 DEF Singles
  <2> HIDE DEF id, ones
  <2> QED BY <2>2, <2>3, <2>4 DEF Spread
<1>12. Spread(num, nodes) = FlattenSeq([k \in DOMAIN nodes |->
                               IF nodes[k].archive THEN <<>> ELSE <<byId[nodes[k]].number>>])
  <2>1. \A k \in DOMAIN nodes : nodes[k] \in D
    BY <1>7, ElementOfSeq
  <2> HIDE DEF nodes
  <2>2. [k \in DOMAIN nodes |-> num[nodes[k]]] =
          [k \in DOMAIN nodes |-> IF nodes[k].archive THEN <<>> ELSE <<byId[nodes[k]].number>>]
    BY <2>1 DEF num, NumbersIn, D
  <2> QED BY <2>2 DEF Spread
<1> QED BY <1>1, <1>10, <1>11, <1>12

\* The consuming exercises among the first m events.
ArchivingUpto(events, raw, m) == {SyntheticId(raw, i) : i \in {j \in Exercising(events) : j <= m}}

\* In what is drawn of the first m events an archive is right under each that
\* consumes, and nowhere else.
PairedUpto(events, raw, s, m) ==
  LET archiving == ArchivingUpto(events, raw, m)
  IN /\ s \in Seq(Id)
     /\ \A k \in 1..Len(s) :
          /\ (s[k] \in archiving) <=> (k < Len(s) /\ s[k + 1] = ArchiveOf(s[k]))
          /\ s[k].archive = FALSE => \E i \in 1..m : s[k] = SyntheticId(raw, i)
     /\ IsFiniteSet(archiving)
     /\ Len(s) = m + Cardinality(archiving)

LEMMA PairedNext ==
  ASSUME NEW shape, NEW events, NEW raw, ListedWith(shape, events, raw),
         NEW m \in Nat, m + 1 <= Len(events), NEW s, PairedUpto(events, raw, s, m),
         NEW u,
         u = s \o (IF m + 1 \in Exercising(events)
                   THEN <<SyntheticId(raw, m + 1), ArchiveOf(SyntheticId(raw, m + 1))>>
                   ELSE <<SyntheticId(raw, m + 1)>>)
  PROVE  PairedUpto(events, raw, u, m + 1)
<1> DEFINE n == Len(events)
           x == SyntheticId(raw, m + 1)
           y == ArchiveOf(x)
           a == ArchivingUpto(events, raw, m)
           b == ArchivingUpto(events, raw, m + 1)
<1>1. n \in Nat /\ DOMAIN events = 1..n /\ m + 1 \in 1..n /\ \A i \in 1..m : i \in 1..n /\ i # m + 1
  BY ListedFacts
<1>2. /\ x \in Id /\ x.archive = FALSE
      /\ \A i \in 1..n : SyntheticId(raw, i) \in Id /\ (SyntheticId(raw, i) = x => i = m + 1)
  <2>1. \A i \in 1..n : SyntheticId(raw, i) \in Id /\ (SyntheticId(raw, i) = x => i = m + 1)
    BY <1>1, ListedFacts
  <2> QED BY <1>1, <2>1 DEF SyntheticId
<1>3. y \in Id /\ y.archive = TRUE
  BY <1>2, ArchiveFacts
<1>4. \A z \in Id : ArchiveOf(z).archive = TRUE
  BY DEF ArchiveOf, Id
<1>5. \A z \in b : z.archive = FALSE
  BY DEF ArchivingUpto, SyntheticId
<1>6. x \notin a /\ \A i \in Exercising(events) : i \in 1..n
  <2>1. \A i \in Exercising(events) : i \in 1..n
    BY <1>1 DEF Exercising
  <2>2. ASSUME x \in a PROVE FALSE
    <3>1. PICK i \in Exercising(events) : i <= m /\ x = SyntheticId(raw, i)
      BY <2>2 DEF ArchivingUpto
    <3> QED BY <1>1, <1>2, <2>1, <3>1
  <2> QED BY <2>1, <2>2
<1>7. b = IF m + 1 \in Exercising(events) THEN a \cup {x} ELSE a
  <2>1. \A i \in Exercising(events) : i <= m + 1 <=> (i <= m \/ i = m + 1)
    BY <1>1, <1>6
  <2> QED BY <2>1 DEF ArchivingUpto
<1>8. /\ s \in Seq(Id) /\ Len(s) \in Nat /\ IsFiniteSet(a) /\ Cardinality(a) \in Nat
      /\ Len(s) = m + Cardinality(a)
      /\ \A k \in 1..Len(s) :
          /\ s[k] \in Id
          /\ (s[k] \in a) <=> (k < Len(s) /\ s[k + 1] = ArchiveOf(s[k]))
          /\ s[k].archive = FALSE => \E i \in 1..m : s[k] = SyntheticId(raw, i)
  <2>1. IsFiniteSet(a) /\ s \in Seq(Id)
    BY DEF PairedUpto
  <2> QED BY <2>1, FS_CardinalityType, ElementOfSeq, LenProperties DEF PairedUpto
<1>9. IsFiniteSet(b) /\ Cardinality(b) = IF m + 1 \in Exercising(events) THEN Cardinality(a) + 1 ELSE Cardinality(a)
  <2> HIDE DEF a, b, x
  <2>1. IsFiniteSet(a \cup {x}) /\ Cardinality(a \cup {x}) = Cardinality(a) + 1
    BY <1>6, <1>8, FS_AddElement
  <2>2. CASE m + 1 \in Exercising(events)
    BY <1>7, <2>1, <2>2
  <2>3. CASE m + 1 \notin Exercising(events)
    BY <1>7, <1>8, <2>3
  <2> QED BY <2>2, <2>3
<1> DEFINE l == Len(s)
<1>10. ASSUME NEW k \in 1..l PROVE s[k] # x /\ (s[k] \in b <=> s[k] \in a)
  <2>1. s[k] # x
    <3> SUFFICES ASSUME s[k] = x PROVE FALSE
      OBVIOUS
    <3>1. PICK i \in 1..m : s[k] = SyntheticId(raw, i)
      BY <1>2, <1>8
    <3> QED BY <1>1, <1>2, <3>1
  <2> QED BY <1>7, <2>1
<1> HIDE DEF a, b, x, y
<1>11. CASE m + 1 \in Exercising(events)
  <2>1. u = s \o <<x, y>>
    BY <1>11 DEF x, y
  <2>2. /\ u \in Seq(Id) /\ Len(u) = l + 2
        /\ \A k \in 1..l : u[k] = s[k]
        /\ u[l + 1] = x /\ u[l + 2] = y
    BY <1>2, <1>3, <1>8, <2>1
  <2>3. x \in b /\ y \notin b
    BY <1>3, <1>5, <1>7, <1>11
  <2>4. ASSUME NEW k \in 1..(l + 2)
        PROVE  /\ (u[k] \in b) <=> (k < l + 2 /\ u[k + 1] = ArchiveOf(u[k]))
               /\ u[k].archive = FALSE => \E i \in 1..(m + 1) : u[k] = SyntheticId(raw, i)
    <3>1. CASE k \in 1..l
      <4>1. u[k] = s[k] /\ (u[k] \in b <=> (k < l /\ s[k + 1] = ArchiveOf(s[k])))
        BY <1>8, <1>10, <2>2, <3>1
      <4>2. k < l => u[k + 1] = s[k + 1]
        BY <1>8, <2>2, <3>1
      <4>3. k = l => u[k + 1] # ArchiveOf(s[k])
        BY <1>2, <1>4, <1>8, <2>2, <3>1
      <4>4. s[k].archive = FALSE => \E i \in 1..(m + 1) : s[k] = SyntheticId(raw, i)
        <5>1. \A i \in 1..m : i \in 1..(m + 1)
          OBVIOUS
        <5> QED BY <1>8, <3>1, <5>1
      <4>5. k < l + 2 /\ (k < l \/ k = l)
        BY <1>8, <3>1
      <4> QED BY <4>1, <4>2, <4>3, <4>4, <4>5
    <3>2. CASE k = l + 1
      <4>1. k < l + 2 /\ k + 1 = l + 2
        BY <1>8, <3>2
      <4> QED BY <2>2, <2>3, <3>2, <4>1 DEF x, y
    <3>3. CASE k = l + 2
      BY <1>3, <1>8, <2>2, <2>3, <3>3
    <3>4. k \in 1..l \/ k = l + 1 \/ k = l + 2
      BY <1>8
    <3> HIDE DEF l
    <3> QED BY <3>1, <3>2, <3>3, <3>4
  <2>5. Len(u) = (m + 1) + Cardinality(b)
    BY <1>8, <1>9, <1>11, <2>2
  <2> QED BY <1>9, <2>2, <2>4, <2>5 DEF PairedUpto, b
<1>12. CASE m + 1 \notin Exercising(events)
  <2>1. u = s \o <<x>>
    BY <1>12 DEF x
  <2>2. /\ u \in Seq(Id) /\ Len(u) = l + 1
        /\ \A k \in 1..l : u[k] = s[k]
        /\ u[l + 1] = x
    BY <1>2, <1>8, <2>1
  <2>3. x \notin b
    BY <1>6, <1>7, <1>12
  <2>4. ASSUME NEW k \in 1..(l + 1)
        PROVE  /\ (u[k] \in b) <=> (k < l + 1 /\ u[k + 1] = ArchiveOf(u[k]))
               /\ u[k].archive = FALSE => \E i \in 1..(m + 1) : u[k] = SyntheticId(raw, i)
    <3>1. CASE k \in 1..l
      <4>1. u[k] = s[k] /\ (u[k] \in b <=> (k < l /\ s[k + 1] = ArchiveOf(s[k])))
        BY <1>8, <1>10, <2>2, <3>1
      <4>2. k < l => u[k + 1] = s[k + 1]
        BY <1>8, <2>2, <3>1
      <4>3. k = l => u[k + 1] # ArchiveOf(s[k])
        BY <1>2, <1>4, <1>8, <2>2, <3>1
      <4>4. s[k].archive = FALSE => \E i \in 1..(m + 1) : s[k] = SyntheticId(raw, i)
        <5>1. \A i \in 1..m : i \in 1..(m + 1)
          OBVIOUS
        <5> QED BY <1>8, <3>1, <5>1
      <4>5. k < l + 1 /\ (k < l \/ k = l)
        BY <1>8, <3>1
      <4> QED BY <4>1, <4>2, <4>3, <4>4, <4>5
    <3>2. CASE k = l + 1
      <4>1. ~(k < l + 1) /\ m + 1 \in 1..(m + 1)
        BY <1>8, <3>2
      <4> QED BY <2>2, <2>3, <3>2, <4>1 DEF x
    <3>4. k \in 1..l \/ k = l + 1
      BY <1>8
    <3> HIDE DEF l
    <3> QED BY <3>1, <3>2, <3>4
  <2>5. Len(u) = (m + 1) + Cardinality(b)
    BY <1>8, <1>9, <1>12, <2>2
  <2> QED BY <1>9, <2>2, <2>4, <2>5 DEF PairedUpto, b
<1> QED BY <1>11, <1>12

\* One archive, right under each that consumes.
LEMMA ArchivesDrawn ==
  ASSUME NEW shape, NEW events, NEW raw, NEW byId, Standings(shape, events, raw, byId)
  PROVE  PairedUpto(events, raw, TreeOf(Below(shape, events, raw, 0), byId), Len(events))
<1> DEFINE n == Len(events)
           ss == Pieces(events, raw)
           M == {m \in Nat : m <= n => PairedUpto(events, raw, FlattenSeq(Upto(ss, m)), m)}
<1>0. ListedWith(shape, events, raw)
  BY DEF Standings
<1>1. n \in Nat /\ DOMAIN events = 1..n
  BY <1>0, ListedFacts
<1>2. /\ ss \in Seq(Seq(DOMAIN byId)) /\ Len(ss) = n
      /\ \A k \in DOMAIN events :
           ss[k] = IF k \in Exercising(events)
                   THEN <<SyntheticId(raw, k), ArchiveOf(SyntheticId(raw, k))>>
                   ELSE <<SyntheticId(raw, k)>>
      /\ TreeOf(Below(shape, events, raw, 0), byId) = FlattenSeq(ss)
  BY PiecesFacts
<1> HIDE DEF ss
<1>3. 0 \in M
  <2>1. FlattenSeq(Upto(ss, 0)) = <<>>
    BY <1>2, FlattenFacts
  <2>2. ArchivingUpto(events, raw, 0) = {}
    <3>1. \A i \in Exercising(events) : ~(i <= 0)
      BY <1>1 DEF Exercising
    <3> QED BY <3>1 DEF ArchivingUpto
  <2>3. <<>> \in Seq(Id) /\ Len(<<>>) = 0 /\ IsFiniteSet({}) /\ Cardinality({}) = 0
    BY FS_EmptySet
  <2>4. PairedUpto(events, raw, <<>>, 0)
    BY <2>2, <2>3 DEF PairedUpto
  <2> QED BY <2>1, <2>4
<1>4. ASSUME NEW m \in Nat, m \in M PROVE m + 1 \in M
  <2> SUFFICES ASSUME m + 1 <= n PROVE PairedUpto(events, raw, FlattenSeq(Upto(ss, m + 1)), m + 1)
    OBVIOUS
  <2>1. m \in 0..(Len(ss) - 1) /\ m + 1 \in DOMAIN events /\ m <= n
    BY <1>1, <1>2
  <2> DEFINE s == FlattenSeq(Upto(ss, m))
             u == FlattenSeq(Upto(ss, m + 1))
  <2>2. PairedUpto(events, raw, s, m)
    BY <1>4, <2>1
  <2>3. u = s \o ss[m + 1]
    BY <1>2, <2>1, FlattenFacts
  <2>4. ss[m + 1] = IF m + 1 \in Exercising(events)
                    THEN <<SyntheticId(raw, m + 1), ArchiveOf(SyntheticId(raw, m + 1))>>
                    ELSE <<SyntheticId(raw, m + 1)>>
    BY <1>2, <2>1
  <2> HIDE DEF s, u
  <2>5. PairedUpto(events, raw, u, m + 1)
    BY <1>0, <2>2, <2>3, <2>4, PairedNext
  <2> QED BY <2>5 DEF u
<1>5. n \in M
  <2>1. Nat \subseteq M
    <3> HIDE DEF M
    <3> QED BY <1>3, <1>4, SetInduction
  <2> QED BY <1>1, <2>1
<1>6. Upto(ss, n) = ss
  BY <1>1, <1>2, UptoFacts
<1> QED BY <1>1, <1>2, <1>5, <1>6

-----------------------------------------------------------------------------
(***************************************************************************)
(* The request about a transaction.                                        *)
(***************************************************************************)

DrawnFrom(raw) ==
  /\ Standings(shown.shape, Given(shown.shape), raw, shown.eventsById)
  /\ shown.rootEventIds = Below(shown.shape, Given(shown.shape), raw, 0)

LEMMA OrderFollows ==
  ASSUME NEW raw, DrawnFrom(raw)
  PROVE  DrawnInOrder
<1> DEFINE given == Given(shown.shape)
           byId == shown.eventsById
           n == Len(given)
           nodes == TreeOf(Below(shown.shape, given, raw, 0), byId)
           archiving == Archiving(byId)
<1>1. Standings(shown.shape, given, raw, byId) /\ ListedWith(shown.shape, given, raw)
      /\ Drawn = nodes
  BY DEF DrawnFrom, Standings, Drawn
<1>2. FlattenSeq([k \in DOMAIN nodes |-> IF nodes[k].archive THEN <<>> ELSE <<byId[nodes[k]].number>>])
        = [k \in DOMAIN given |-> k]
  BY <1>1, NumbersDrawn
<1>3. PairedUpto(given, raw, nodes, n)
  BY <1>1, ArchivesDrawn
<1>4. archiving = ArchivingUpto(given, raw, n)
  <2>1. archiving = {SyntheticId(raw, i) : i \in Exercising(given)}
    BY <1>1, ArchivingStanding DEF Standings
  <2>2. \A i \in Exercising(given) : i <= n
    <3>1. n \in Nat /\ DOMAIN given = 1..n
      BY <1>1, ListedFacts
    <3> QED BY <3>1 DEF Exercising
  <2> QED BY <2>1, <2>2 DEF ArchivingUpto
<1> HIDE DEF archiving, nodes
<1>5. nodes \in Seq(Id) /\ DOMAIN nodes = 1..Len(nodes)
  BY <1>3, LenProperties DEF PairedUpto
<1>6. /\ \A k \in DOMAIN nodes :
           (nodes[k] \in archiving) <=> (k < Len(nodes) /\ nodes[k + 1] = ArchiveOf(nodes[k]))
      /\ Len(nodes) = n + Cardinality(archiving)
  BY <1>3, <1>4, <1>5 DEF PairedUpto
<1>7. [k \in DOMAIN nodes |-> IF nodes[k].archive THEN <<>> ELSE <<Number(nodes[k])>>] =
        [k \in DOMAIN nodes |-> IF nodes[k].archive THEN <<>> ELSE <<byId[nodes[k]].number>>]
  BY DEF Number
<1> QED BY <1>1, <1>2, <1>6, <1>7 DEF DrawnInOrder, archiving

\* The numbers of a set of drawn events, the archives that were added aside.
Numbers(byId, ids) == {byId[id].number : id \in ids} \ {0}

\* Right below an event is what is put there,
LEMMA RightBelow ==
  ASSUME NEW shape, NEW events, NEW raw, NEW byId, Standings(shape, events, raw, byId),
         NEW i \in DOMAIN events
  PROVE  Numbers(byId, ToSet(byId[SyntheticId(raw, i)].childEventIds)) =
           {j \in DOMAIN events : Puts(shape, events, raw)[j] = i}
<1> DEFINE b == Below(shape, events, raw, i)
           c == byId[SyntheticId(raw, i)].childEventIds
           S == SidsOf(events, raw)
           put == {j \in DOMAIN events : Puts(shape, events, raw)[j] = i}
           y == ArchiveOf(SyntheticId(raw, i))
<1>1. /\ ListedWith(shape, events, raw)
      /\ \A j \in DOMAIN events : byId[SyntheticId(raw, j)].number = j
      /\ \A j \in Exercising(events) : byId[ArchiveOf(SyntheticId(raw, j))].number = 0
      /\ c = IF i \in Exercising(events) THEN <<y>> \o b ELSE b
  BY DEF Standings, Standing
<1>2. ToSet(b) = {SyntheticId(raw, j) : j \in put}
  BY <1>1, BelowHolds
<1>3. \A j \in DOMAIN events : j # 0
  BY <1>1, ListedFacts
<1>4. Numbers(byId, ToSet(b)) = put
  <2>1. \A j \in put : byId[SyntheticId(raw, j)].number = j /\ j # 0
    BY <1>1, <1>3
  <2> HIDE DEF put, b
  <2> QED BY <1>2, <2>1 DEF Numbers
<1>5. CASE i \in Exercising(events)
  <2>1. b \in Seq(S)
    BY <1>1, BelowTyped
  <2>2. ToSet(<<y>> \o b) = {y} \cup ToSet(b)
    <3> HIDE DEF b, y, S
    <3>1. Len(<<y>> \o b) = Len(b) + 1 /\ Len(b) \in Nat /\ DOMAIN b = 1..Len(b)
          /\ DOMAIN (<<y>> \o b) = 1..(Len(b) + 1)
      BY <2>1
    <3>2. (<<y>> \o b)[1] = y
      BY <2>1
    <3>3. \A k \in 1..Len(b) : (<<y>> \o b)[k + 1] = b[k]
      BY <2>1
    <3>4. \A k \in 1..(Len(b) + 1) : k = 1 \/ (k - 1 \in 1..Len(b) /\ (k - 1) + 1 = k)
      BY <3>1
    <3> DEFINE u == <<y>> \o b
               l == Len(b)
    <3> HIDE DEF u, l
    <3>5. \A k \in 1..(l + 1) : u[k] = y \/ \E m \in DOMAIN b : u[k] = b[m]
      BY <3>1, <3>2, <3>3, <3>4 DEF u, l
    <3>6. 1 \in 1..(l + 1) /\ \A k \in 1..l : k + 1 \in 1..(l + 1)
      BY <3>1 DEF l
    <3>7. DOMAIN u = 1..(l + 1) /\ DOMAIN b = 1..l /\ u[1] = y /\ \A k \in 1..l : u[k + 1] = b[k]
      BY <3>1, <3>2, <3>3 DEF u, l
    <3>8. ToSet(u) = {y} \cup ToSet(b)
      BY <3>5, <3>6, <3>7 DEF ToSet
    <3> QED BY <3>8 DEF u
  <2>3. byId[y].number = 0
    BY <1>1, <1>5
  <2> HIDE DEF b, y, c, put
  <2>4. Numbers(byId, {y} \cup ToSet(b)) = Numbers(byId, ToSet(b))
    BY <2>3 DEF Numbers
  <2>5. Numbers(byId, ToSet(c)) = put
    BY <1>1, <1>4, <1>5, <2>2, <2>4
  <2> QED BY <2>5 DEF c, put
<1>6. CASE i \notin Exercising(events)
  BY <1>1, <1>4, <1>6
<1> QED BY <1>5, <1>6

\* and below it, at any depth, all up to the first that is not.
LEMMA NumbersBelow ==
  ASSUME NEW shape, NEW events, NEW raw, NEW byId, Standings(shape, events, raw, byId),
         NEW i \in DOMAIN events
  PROVE  Numbers(byId, ToSet(TreeOf(<<SyntheticId(raw, i)>>, byId)) \ {SyntheticId(raw, i)}) =
           (i + 1)..(After(Puts(shape, events, raw), Len(events), i) - 1)
<1> DEFINE n == Len(events)
           D == DOMAIN byId
           w == RowsAt(events, raw)
           p == Puts(shape, events, raw)
           a == After(p, n, i)
           s == SpanOf(shape, events, raw, i)
           x == SyntheticId(raw, i)
           ss == [k \in DOMAIN s |-> w[s[k]]]
           below == ToSet(TreeOf(<<x>>, byId)) \ {x}
<1>1. ListedWith(shape, events, raw)
  BY DEF Standings
<1>2. /\ n \in Nat /\ DOMAIN events = 1..n /\ i \in 1..n
      /\ \A j, k \in DOMAIN events : SyntheticId(raw, j) = SyntheticId(raw, k) => j = k
  BY <1>1, ListedFacts
<1>3. /\ D = SidsOf(events, raw) \cup ArchivesOf(events, raw)
      /\ \A j \in DOMAIN events : byId[SyntheticId(raw, j)].number = j
      /\ \A j \in Exercising(events) : byId[ArchiveOf(SyntheticId(raw, j))].number = 0
  BY DEF Standings, Standing
<1>4. a \in (i + 1)..(n + 1) /\ s \in Seq(Nat)
  <2>1. i \in 0..n
    BY <1>2
  <2> QED BY <1>1, <2>1, SpanTyped
<1>5. /\ DOMAIN s = 1..(a - i) /\ \A m \in 1..(a - i) : s[m] = i + m - 1
      /\ i \in Nat /\ a \in Nat /\ i < a /\ a <= n + 1
  <2>1. s = Span(i, a)
    BY DEF SpanOf
  <2> HIDE DEF s, a
  <2>2. i \in Nat /\ a \in Nat /\ i <= a /\ i < a /\ a <= n + 1
    BY <1>2, <1>4
  <2> QED BY <2>1, <2>2, SpanFacts
<1>6. w \in Lists(Nat, D)
  BY <1>1, <1>3, RowsTyped
<1>7. \A j \in 1..n : w[j] = IF j \in Exercising(events)
                             THEN <<SyntheticId(raw, j), ArchiveOf(SyntheticId(raw, j))>>
                             ELSE <<SyntheticId(raw, j)>>
  BY <1>2 DEF RowsAt
<1>8. \A j \in 1..n : ToSet(w[j]) = IF j \in Exercising(events)
                                    THEN {SyntheticId(raw, j), ArchiveOf(SyntheticId(raw, j))}
                                    ELSE {SyntheticId(raw, j)}
  <2> TAKE j \in 1..n
  <2> DEFINE y == SyntheticId(raw, j)
             z == ArchiveOf(SyntheticId(raw, j))
  <2>1. w[j] = IF j \in Exercising(events) THEN <<y, z>> ELSE <<y>>
    BY <1>7
  <2> HIDE DEF w, y, z
  <2>2. ToSet(<<y, z>>) = {y, z} /\ ToSet(<<y>>) = {y}
    BY DEF ToSet
  <2>3. ToSet(w[j]) = IF j \in Exercising(events) THEN {y, z} ELSE {y}
    BY <2>1, <2>2
  <2> QED BY <2>3 DEF w, y, z
<1> HIDE DEF w, D, s, a
<1>9. /\ ss \in Seq(Seq(D)) /\ DOMAIN ss = DOMAIN s /\ \A m \in DOMAIN s : ss[m] = w[s[m]]
  BY <1>4, <1>6, SpreadListed DEF Lists
<1>10. ToSet(FlattenSeq(ss)) = UNION {ToSet(ss[m]) : m \in DOMAIN ss}
  BY <1>9, FlattenRange
<1>11. TreeOf(<<x>>, byId) = FlattenSeq(ss)
  <2>1. TreeOf(<<SyntheticId(raw, i)>>, byId) = Spread(w, s)
    BY WholeDrawn DEF w, s
  <2> QED BY <2>1 DEF Spread
<1> HIDE DEF ss
<1>12. ASSUME NEW j \in (i + 1)..(a - 1) PROVE j \in Numbers(byId, below)
  <2> DEFINE m == (j - i) + 1
  <2>1. m \in 1..(a - i) /\ i + m - 1 = j /\ j \in 1..n /\ j # i /\ j # 0
    BY <1>2, <1>5
  <2>2. m \in DOMAIN ss /\ ss[m] = w[j]
    <3> HIDE DEF m
    <3>1. s[m] = j /\ m \in DOMAIN s
      BY <1>5, <2>1
    <3> QED BY <1>9, <3>1
  <2>3. SyntheticId(raw, j) \in ToSet(w[j])
    BY <1>8, <2>1
  <2>4. SyntheticId(raw, j) \in ToSet(TreeOf(<<x>>, byId))
    BY <1>10, <1>11, <2>2, <2>3
  <2>5. SyntheticId(raw, j) # x
    BY <1>2, <2>1
  <2>6. byId[SyntheticId(raw, j)].number = j
    BY <1>2, <1>3, <2>1
  <2> QED BY <2>1, <2>4, <2>5, <2>6 DEF Numbers
<1>13. ASSUME NEW y \in below, byId[y].number # 0 PROVE byId[y].number \in (i + 1)..(a - 1)
  <2>1. PICK m \in DOMAIN ss : y \in ToSet(ss[m])
    BY <1>10, <1>11
  <2> DEFINE j == s[m]
  <2>2. m \in 1..(a - i) /\ j = i + m - 1
    BY <1>5, <1>9, <2>1
  <2>3. j \in 1..n /\ j \in i..(a - 1)
    BY <1>2, <1>5, <2>2
  <2>4. y \in ToSet(w[j])
    BY <1>9, <2>1
  <2> HIDE DEF j, below
  <2>5. y = SyntheticId(raw, j) \/ (j \in Exercising(events) /\ y = ArchiveOf(SyntheticId(raw, j)))
    BY <1>8, <2>3, <2>4
  <2>6. y = SyntheticId(raw, j)
    BY <1>3, <1>13, <2>5
  <2>7. j # i
    BY <2>6 DEF below
  <2>8. byId[y].number = j
    BY <1>2, <1>3, <2>3, <2>6
  <2> QED BY <1>5, <2>3, <2>7, <2>8
<1> HIDE DEF below
<1>14. Numbers(byId, below) = (i + 1)..(a - 1)
  BY <1>12, <1>13 DEF Numbers
<1> QED BY <1>14 DEF below, a

\* The ids of a list are all without a suffix just if none collide.
LEMMA DistinctIds ==
  ASSUME NEW shape, NEW events, NEW raw, NEW byId, Standings(shape, events, raw, byId)
  PROVE  (\A id \in DOMAIN byId : id.at = 0) <=> ~Collided(raw, Len(events))
<1> DEFINE n == Len(events)
<1>1. ListedWith(shape, events, raw) /\ DOMAIN byId = SidsOf(events, raw) \cup ArchivesOf(events, raw)
  BY DEF Standings, Standing
<1>2. n \in Nat /\ DOMAIN events = 1..n
  BY <1>1, ListedFacts
<1>3. ASSUME ~Collided(raw, n) PROVE \A id \in DOMAIN byId : id.at = 0
  <2>1. \A i \in DOMAIN events : SyntheticId(raw, i) \in Id /\ SyntheticId(raw, i).at = 0
                                /\ SyntheticId(raw, i).archive = FALSE
    <3> TAKE i \in DOMAIN events
    <3>1. SyntheticId(raw, i) \in Id
      BY <1>1, ListedFacts
    <3>2. SyntheticId(raw, i).archive = FALSE
      BY DEF SyntheticId
    <3>3. ~Collided(raw, i)
      <4>1. 1..i \subseteq 1..n
        BY <1>2
      <4> QED BY <1>3, <4>1 DEF Collided
    <3>4. SyntheticId(raw, i).at = 0
      BY <3>3 DEF SyntheticId
    <3> QED BY <3>1, <3>2, <3>4
  <2>2. \A i \in Exercising(events) : ArchiveOf(SyntheticId(raw, i)).at = 0
    <3> TAKE i \in Exercising(events)
    <3>1. i \in DOMAIN events
      BY DEF Exercising
    <3> QED BY <2>1, <3>1, ArchiveFacts
  <2> QED BY <1>1, <2>1, <2>2 DEF SidsOf, ArchivesOf
<1>4. ASSUME Collided(raw, n) PROVE \E id \in DOMAIN byId : id.at # 0
  <2>1. n \in 1..n /\ n # 0
    BY <1>2, <1>4 DEF Collided
  <2>2. SyntheticId(raw, n) \in DOMAIN byId
    BY <1>1, <1>2, <2>1 DEF SidsOf
  <2>3. SyntheticId(raw, n).at = n
    BY <1>4 DEF SyntheticId
  <2> QED BY <2>1, <2>2, <2>3
<1> QED BY <1>3, <1>4

LEMMA CausesFollow ==
  ASSUME NEW raw, DrawnFrom(raw)
  PROVE  BelowAsGiven
<1> DEFINE shape == shown.shape
           given == Given(shown.shape)
           byId == shown.eventsById
           n == Len(given)
           p == Puts(shape, given, raw)
           distinct == \A id \in DOMAIN byId : id.at = 0
           follow(i) == IF given[i].type = "exercised" THEN (i + 1)..n ELSE {}
<1>1. Standings(shape, given, raw, byId) /\ ListedWith(shape, given, raw) /\ InShape(shape, given)
  BY DEF DrawnFrom, Standings, ListedWith
<1>2. n \in Nat /\ DOMAIN given = 1..n
  BY <1>1, ListedFacts
<1>3. distinct <=> ~Collided(raw, n)
  BY <1>1, DistinctIds
<1> HIDE DEF distinct
<1>4. ASSUME NEW x \in DOMAIN byId, ~x.archive
      PROVE  /\ byId[x].number \in DOMAIN given
             /\ x = SyntheticId(raw, byId[x].number)
  <2>1. /\ DOMAIN byId = SidsOf(given, raw) \cup ArchivesOf(given, raw)
        /\ \A i \in DOMAIN given : byId[SyntheticId(raw, i)].number = i
    BY <1>1 DEF Standings, Standing
  <2>2. x \notin ArchivesOf(given, raw)
    BY <1>1, <1>4, ArchivesApart
  <2>3. PICK i \in DOMAIN given : x = SyntheticId(raw, i)
    BY <2>1, <2>2 DEF SidsOf
  <2> QED BY <2>1, <2>3
<1>5. ASSUME NEW x \in DOMAIN byId, ~x.archive, shape \in {"byId", "engine"}
      PROVE  Numbers(byId, ToSet(byId[x].childEventIds)) =
               {j \in DOMAIN given : given[j].parent = byId[x].number}
  <2>1. Numbers(byId, ToSet(byId[x].childEventIds)) = {j \in DOMAIN given : p[j] = byId[x].number}
    BY <1>1, <1>4, <1>5, RightBelow
  <2>2. \A j \in DOMAIN given : p[j] = given[j].parent
    BY <1>5 DEF Puts, PutUnder
  <2> HIDE DEF p
  <2> QED BY <2>1, <2>2
<1>6. ASSUME NEW x \in DOMAIN byId, ~x.archive, shape = "delta" \/ (shape = "flat" /\ distinct)
      PROVE  Numbers(byId, ToSet(byId[x].childEventIds)) = {}
  <2>1. Numbers(byId, ToSet(byId[x].childEventIds)) = {j \in DOMAIN given : p[j] = byId[x].number}
    BY <1>1, <1>4, <1>6, RightBelow
  <2>2. byId[x].number # 0
    BY <1>2, <1>4, <1>6
  <2>3. \A j \in DOMAIN given : p[j] = 0
    <3> TAKE j \in DOMAIN given
    <3>1. p[j] = PutUnder(shape, given, raw, j)
      BY DEF Puts
    <3>2. CASE shape = "flat" /\ distinct
      BY <1>3, <3>1, <3>2 DEF PutUnder
    <3>3. CASE shape = "delta"
      <4>1. p[j] = 0 \/ p[j] = TopExercise(given, j)
        BY <3>1, <3>3 DEF PutUnder
      <4>2. /\ TopExercise(given, j) \in 0..(j - 1)
            /\ TopExercise(given, j) # 0 => given[TopExercise(given, j)].type = "exercised"
        <5>1. j \in Nat /\ j >= 1
          BY <1>2
        <5> QED BY <5>1, TopFacts
      <4>3. \A k \in DOMAIN given : given[k].type # "exercised"
        BY <1>1, <3>3 DEF InShape
      <4> HIDE DEF p
      <4>4. TopExercise(given, j) = 0
        BY <1>2, <4>2, <4>3
      <4> QED BY <4>1, <4>4
    <3> QED BY <1>6, <3>2, <3>3
  <2> HIDE DEF p
  <2> QED BY <2>1, <2>2, <2>3
<1>7. ASSUME NEW x \in DOMAIN byId, ~x.archive, shape = "flat", ~distinct
      PROVE  Numbers(byId, DrawnBelow(x)) = follow(byId[x].number)
  <2> DEFINE i == byId[x].number
             a == After(p, n, i)
  <2>1. i \in DOMAIN given /\ x = SyntheticId(raw, i)
    BY <1>4, <1>7
  <2>2. Numbers(byId, ToSet(TreeOf(<<SyntheticId(raw, i)>>, byId)) \ {SyntheticId(raw, i)}) = (i + 1)..(a - 1)
    BY <1>1, <2>1, NumbersBelow
  <2>3. a = IF given[i].type = "exercised" THEN n + 1 ELSE i + 1
    BY <1>1, <1>3, <1>7, <2>1, PutsFollow
  <2>4. Numbers(byId, DrawnBelow(x)) = (i + 1)..(a - 1)
    BY <2>1, <2>2 DEF DrawnBelow
  <2> HIDE DEF i, a, p
  <2>5. (i + 1)..(a - 1) = IF given[i].type = "exercised" THEN (i + 1)..n ELSE {}
    BY <1>2, <2>1, <2>3
  <2> QED BY <2>4, <2>5 DEF i
<1> DEFINE numbers(ids) == {Number(id) : id \in ids} \ {0}
           rightBelow(id) == numbers(ToSet(byId[id].childEventIds))
<1>8. \A ids : numbers(ids) = Numbers(byId, ids)
  BY DEF Number, Numbers
<1>9. ASSUME NEW x \in DOMAIN byId, ~x.archive
      PROVE  /\ shape \in {"byId", "engine"} =>
                  rightBelow(x) = {j \in DOMAIN given : given[j].parent = Number(x)}
             /\ shape = "delta" \/ (shape = "flat" /\ distinct) => rightBelow(x) = {}
             /\ shape = "flat" /\ ~distinct => numbers(DrawnBelow(x)) = follow(Number(x))
  <2>1. Number(x) = byId[x].number
    BY DEF Number
  <2>2. rightBelow(x) = Numbers(byId, ToSet(byId[x].childEventIds))
    BY <1>8
  <2>3. numbers(DrawnBelow(x)) = Numbers(byId, DrawnBelow(x))
    BY <1>8
  <2> HIDE DEF numbers, rightBelow, follow, shape
  <2>4. CASE shape \in {"byId", "engine"}
    <3>1. shape # "delta" /\ shape # "flat"
      BY <2>4
    <3>2. Numbers(byId, ToSet(byId[x].childEventIds)) =
            {j \in DOMAIN given : given[j].parent = byId[x].number}
      BY <1>5, <1>9, <2>4
    <3> QED BY <2>1, <2>2, <3>1, <3>2
  <2>5. CASE shape = "delta" \/ (shape = "flat" /\ distinct)
    <3>1. Numbers(byId, ToSet(byId[x].childEventIds)) = {}
      BY <1>6, <1>9, <2>5
    <3>2. shape \notin {"byId", "engine"} /\ ~(shape = "flat" /\ ~distinct)
      BY <2>5
    <3> QED BY <2>2, <3>1, <3>2
  <2>6. CASE shape = "flat" /\ ~distinct
    <3>1. Numbers(byId, DrawnBelow(x)) = follow(byId[x].number)
      BY <1>7, <1>9, <2>6
    <3>2. shape \notin {"byId", "engine"} /\ ~(shape = "delta" \/ (shape = "flat" /\ distinct))
      BY <2>6
    <3> QED BY <2>1, <2>3, <3>1, <3>2
  <2> QED BY <2>4, <2>5, <2>6
<1> QED BY <1>9 DEF BelowAsGiven, distinct

-----------------------------------------------------------------------------
(***************************************************************************)
(* The state diff.                                                         *)
(***************************************************************************)

Input == [event : Id, contract : 0..MaxTxEvents, payload : {"none", "known", "refused"}]

\* Each contract that was consumed, once.
InputsFor(given, inputs) ==
  /\ inputs \subseteq Input
  /\ {i.contract : i \in inputs} = Consumed(given)
  /\ \A i, j \in inputs : i.contract = j.contract => i = j

LEMMA InputsOfEvents ==
  ASSUME NEW shape, NEW given, NEW raw, ListedWith(shape, given, raw)
  PROVE  /\ InputsFor(given, Inputs(EventsById(shape, given, raw)))
         /\ Outputs(EventsById(shape, given, raw)) = CreatedBy(given)
<1> DEFINE byId == EventsById(shape, given, raw)
           sid(i) == SyntheticId(raw, i)
           consumers == {i \in DOMAIN given : given[i].consuming}
           payload(e) == IF \E c \in DOMAIN byId : /\ byId[c].type = "created"
                                                   /\ byId[c].contract = byId[e].contract
                         THEN "known" ELSE "none"
           input(e) == [event |-> e, contract |-> byId[e].contract, payload |-> payload(e)]
           ids == {e \in DOMAIN byId : byId[e].type = "archived" \/ byId[e].consuming}
<1>1. /\ DOMAIN byId = SidsOf(given, raw)
      /\ \A i \in DOMAIN given :
           /\ sid(i) \in DOMAIN byId
           /\ byId[sid(i)].type = given[i].type /\ byId[sid(i)].consuming = given[i].consuming
           /\ byId[sid(i)].contract = given[i].contract
  BY ByIdFacts, RowFields
<1>2. \A i \in DOMAIN given : /\ sid(i) \in Id /\ given[i] \in Event
                              /\ given[i].contract \in 0..MaxTxEvents
  BY ListedFacts DEF Event
<1>3. \A i \in DOMAIN given : given[i].type = "archived" => given[i].consuming
  BY DEF ListedWith, InShape, Executed
<1>4. Inputs(byId) = {input(e) : e \in ids}
  BY DEF Inputs
<1>5. Outputs(byId) = CreatedBy(given)
  BY <1>1 DEF Outputs, CreatedBy, SidsOf
<1> HIDE DEF byId
<1>6. ids = {sid(i) : i \in consumers}
  BY <1>1, <1>3 DEF SidsOf
<1>7. \A e \in ids : e \in Id /\ byId[e].contract \in 0..MaxTxEvents /\ payload(e) \in {"none", "known", "refused"}
  BY <1>1, <1>2, <1>6
<1> HIDE DEF ids, payload
<1>8. \A e \in ids : input(e) \in Input /\ input(e).contract = byId[e].contract
  BY <1>7 DEF Input
<1> HIDE DEF input
<1>9. {i.contract : i \in Inputs(byId)} = Consumed(given)
  <2>1. Consumed(given) = {given[i].contract : i \in consumers}
    BY DEF Consumed
  <2>2. {byId[e].contract : e \in ids} = {given[i].contract : i \in consumers}
    BY <1>1, <1>6
  <2>3. {i.contract : i \in Inputs(byId)} = {byId[e].contract : e \in ids}
    BY <1>4, <1>8
  <2> QED BY <2>1, <2>2, <2>3
<1>10. ASSUME NEW i \in Inputs(byId), NEW j \in Inputs(byId), i.contract = j.contract PROVE i = j
  <2>1. PICK e \in ids, f \in ids : i = input(e) /\ j = input(f)
    BY <1>4
  <2>2. PICK k \in consumers, l \in consumers : e = sid(k) /\ f = sid(l)
    BY <1>6
  <2>3. given[k].contract = given[l].contract
    BY <1>1, <1>8, <1>10, <2>1, <2>2
  <2>4. k = l
    BY <2>3 DEF ListedWith, InShape, OnceConsumed
  <2> QED BY <2>1, <2>2, <2>4
<1>11. Inputs(byId) \subseteq Input
  BY <1>4, <1>8
<1> QED BY <1>5, <1>9, <1>10, <1>11 DEF InputsFor, byId

LEMMA InputsCounted ==
  ASSUME NEW given, given \in Seq(Event), NEW inputs, InputsFor(given, inputs)
  PROVE  Cardinality(inputs) = Cardinality(Consumed(given))
<1> DEFINE T == Consumed(given)
           f == [i \in inputs |-> i.contract]
<1>1. IsFiniteSet(T)
  <2>1. T \subseteq 0..MaxTxEvents
    <3>1. \A i \in DOMAIN given : given[i] \in Event
      BY ElementOfSeq
    <3> QED BY <3>1 DEF Consumed, Event
  <2>2. IsFiniteSet(0..MaxTxEvents)
    BY DetailConstantsOK, FS_Interval
  <2> QED BY <2>1, <2>2, FS_Subset
<1>2. {i.contract : i \in inputs} = T /\ \A i, j \in inputs : i.contract = j.contract => i = j
  BY DEF InputsFor
<1> HIDE DEF T
<1>3. f \in [inputs -> T] /\ \A i \in inputs : f[i] = i.contract
  BY <1>2
<1>4. \A t \in T : \E i \in inputs : f[i] = t
  BY <1>2
<1> HIDE DEF f
<1>5. \A i, j \in inputs : f[i] = f[j] => i = j
  BY <1>2, <1>3
<1>6. Cardinality(inputs) = Cardinality(T)
  BY <1>1, <1>3, <1>4, <1>5, SameCount
<1> QED BY <1>6 DEF T

\* A lookup that answers changes only the payload.
LEMMA InputsEnriched ==
  ASSUME NEW given, NEW inputs, InputsFor(given, inputs), NEW i \in inputs,
         NEW payload \in {"known", "refused"}
  PROVE  InputsFor(given, (inputs \ {i}) \cup {[i EXCEPT !.payload = payload]})
<1> DEFINE x == [i EXCEPT !.payload = payload]
           new == (inputs \ {i}) \cup {x}
<1>1. i \in Input /\ inputs \subseteq Input
  BY DEF InputsFor
<1>2. x \in Input /\ x.contract = i.contract
  BY <1>1 DEF Input
<1> HIDE DEF x
<1>3. {j.contract : j \in new} = {j.contract : j \in inputs}
  BY <1>2
<1>4. \A j, k \in new : j.contract = k.contract => j = k
  BY <1>2 DEF InputsFor
<1> QED BY <1>1, <1>2, <1>3, <1>4 DEF InputsFor, x

\* The events by id, as far as the request has come.
ByStep(step, shape, byId) ==
  LET replied == IF shape = "engine" THEN Normalized(byId) ELSE byId
  IN IF step = "enriching" THEN byId
     ELSE IF step = "replied" THEN replied
     ELSE Synthesized(replied)

Asked ==
  /\ shown = [step |-> shown.step, shape |-> shown.shape, rootEventIds |-> shown.rootEventIds,
              eventsById |-> shown.eventsById, inputs |-> shown.inputs,
              outputs |-> shown.outputs, waiting |-> shown.waiting]
  /\ shown.step \in {"enriching", "replied", "drawn"}
  /\ shown.shape \in Shapes
  /\ \E raw \in RawIds(shown.shape) :
       /\ shown.rootEventIds = Below(shown.shape, Given(shown.shape), raw, 0)
       /\ shown.eventsById =
            ByStep(shown.step, shown.shape, EventsById(shown.shape, Given(shown.shape), raw))
  /\ InputsFor(Given(shown.shape), shown.inputs)
  /\ shown.outputs = CreatedBy(Given(shown.shape))
  /\ shown.waiting \subseteq shown.inputs

DetailInv == Executed(tx) /\ (shown = NoRequest \/ Asked)

LEMMA AskedListed ==
  ASSUME DetailInv, NEW shape \in Shapes, NEW raw \in RawIds(shape)
  PROVE  ListedWith(shape, Given(shape), raw)
<1>1. InShape(shape, Given(shape))
  BY GivenInShape DEF DetailInv
<1> QED BY <1>1, RawTyped DEF ListedWith

LEMMA DetailInitially == DetailInit => DetailInv
<1> SUFFICES ASSUME DetailInit PROVE Executed(tx)
  BY DEF DetailInit, DetailInv
<1>1. tx = <<>> /\ Len(<<>>) = 0 /\ DOMAIN <<>> = {} /\ <<>> \in Seq(Event) /\ 0 <= MaxTxEvents
  BY DetailConstantsOK DEF DetailInit
<1>2. Parents(<<>>) = <<>>
  BY <1>1 DEF Parents
<1>3. <<>> \in [1..0 -> Nat] /\ 1..0 = {}
  OBVIOUS
<1>4. Forest(<<>>, 0)
  BY <1>3 DEF Forest
<1> QED BY <1>1, <1>2, <1>4 DEF Executed, OnceConsumed

LEMMA AskedOnce ==
  ASSUME DetailInv, NEW shape \in Shapes, AskDetail(shape)
  PROVE  DetailInv'
<1>1. PICK raw \in RawIds(shape) :
        LET byId == EventsById(shape, Given(shape), raw)
        IN shown' = [step |-> "enriching", shape |-> shape,
                     rootEventIds |-> Below(shape, Given(shape), raw, 0),
                     eventsById |-> byId, inputs |-> Inputs(byId), outputs |-> Outputs(byId),
                     waiting |-> IF shape = "engine" THEN {} ELSE Lacking(Inputs(byId))]
  BY DEF AskDetail
<1>2. tx' = tx
  BY DEF AskDetail
<1> DEFINE given == Given(shape)
           byId == EventsById(shape, given, raw)
           roots == Below(shape, given, raw, 0)
<1>3. ListedWith(shape, given, raw)
  BY AskedListed
<1>4. InputsFor(given, Inputs(byId)) /\ Outputs(byId) = CreatedBy(given)
  BY <1>3, InputsOfEvents
<1>5. Lacking(Inputs(byId)) \subseteq Inputs(byId)
  BY DEF Lacking
<1>6. Given(shape)' = given
  BY <1>2 DEF Given
<1>7. RawIds(shape)' = RawIds(shape)
  BY <1>2, <1>6 DEF RawIds
<1>8. shown' = [step |-> "enriching", shape |-> shape, rootEventIds |-> roots,
                eventsById |-> byId, inputs |-> Inputs(byId), outputs |-> Outputs(byId),
                waiting |-> IF shape = "engine" THEN {} ELSE Lacking(Inputs(byId))]
  BY <1>1
<1> DEFINE in == Inputs(byId)
           out == Outputs(byId)
           lacking == Lacking(in)
<1> HIDE DEF byId, roots, in, out, lacking
<1>9. shown' = [step |-> "enriching", shape |-> shape, rootEventIds |-> roots,
                eventsById |-> byId, inputs |-> in, outputs |-> out,
                waiting |-> IF shape = "engine" THEN {} ELSE lacking]
  BY <1>8 DEF in, out, lacking
<1>10. /\ shown'.step = "enriching" /\ shown'.shape = shape /\ shown'.rootEventIds = roots
       /\ shown'.eventsById = byId /\ shown'.inputs = in /\ shown'.outputs = out
       /\ shown'.waiting \subseteq in
       /\ shown' = [step |-> shown'.step, shape |-> shown'.shape, rootEventIds |-> shown'.rootEventIds,
              eventsById |-> shown'.eventsById, inputs |-> shown'.inputs,
              outputs |-> shown'.outputs, waiting |-> shown'.waiting]
  BY <1>5, <1>9 DEF lacking, in
<1>11. ByStep("enriching", shape, byId) = byId
  BY DEF ByStep
<1>12. (shown.shape)' = shape /\ Given(shown.shape)' = given /\ RawIds(shown.shape)' = RawIds(shape)
  <2>1. (shown.shape)' = shape
    BY <1>10
  <2>2. Given(shown.shape)' = given
    BY <1>2, <2>1 DEF Given
  <2>3. RawIds(shown.shape)' = RawIds(shape)
    BY <2>1, <2>2 DEF RawIds
  <2> QED BY <2>1, <2>2, <2>3
<1>13. Asked'
  <2>1. \E r \in RawIds(shape) : /\ roots = Below(shape, given, r, 0)
                                 /\ byId = ByStep("enriching", shape, EventsById(shape, given, r))
    BY <1>11 DEF roots, byId
  <2>2. InputsFor(given, in) /\ out = CreatedBy(given)
    BY <1>4 DEF in, out
  <2> HIDE DEF given
  <2> QED BY <1>10, <1>12, <2>1, <2>2 DEF Asked
<1>14. Executed(tx)'
  BY <1>2 DEF DetailInv, Executed
<1> QED BY <1>13, <1>14 DEF DetailInv

\* A step of the request leaves the transaction.
LEMMA AskedGoesOn ==
  ASSUME DetailInv, shown.step # "idle", UNCHANGED tx,
         shown' = [step |-> shown'.step, shape |-> shown.shape, rootEventIds |-> shown.rootEventIds,
                   eventsById |-> shown'.eventsById, inputs |-> shown'.inputs,
                   outputs |-> shown.outputs, waiting |-> shown'.waiting],
         shown'.step \in {"enriching", "replied", "drawn"},
         \A byId : shown.eventsById = ByStep(shown.step, shown.shape, byId)
                     => shown'.eventsById = ByStep(shown'.step, shown.shape, byId),
         InputsFor(Given(shown.shape), shown'.inputs),
         shown'.waiting \subseteq shown'.inputs
  PROVE  DetailInv'
<1>1. Asked
  BY DEF DetailInv, NoRequest
<1>2. PICK raw \in RawIds(shown.shape) :
       /\ shown.rootEventIds = Below(shown.shape, Given(shown.shape), raw, 0)
       /\ shown.eventsById =
            ByStep(shown.step, shown.shape, EventsById(shown.shape, Given(shown.shape), raw))
  BY <1>1 DEF Asked
<1>3. /\ shown'.shape = shown.shape /\ shown'.rootEventIds = shown.rootEventIds
      /\ shown'.outputs = shown.outputs
      /\ shown' = [step |-> shown'.step, shape |-> shown'.shape, rootEventIds |-> shown'.rootEventIds,
              eventsById |-> shown'.eventsById, inputs |-> shown'.inputs,
              outputs |-> shown'.outputs, waiting |-> shown'.waiting]
  OBVIOUS
<1>4. Given(shown.shape)' = Given(shown.shape) /\ RawIds(shown.shape)' = RawIds(shown.shape)
  <2>1. Given(shown.shape)' = Given(shown.shape)
    BY <1>3 DEF Given
  <2> QED BY <1>3, <2>1 DEF RawIds
<1>5. shown'.eventsById = ByStep(shown'.step, shown.shape, EventsById(shown.shape, Given(shown.shape), raw))
  BY <1>2
<1>6. Asked'
  BY <1>1, <1>2, <1>3, <1>4, <1>5 DEF Asked
<1>7. Executed(tx)'
  BY DEF DetailInv, Executed
<1> QED BY <1>6, <1>7 DEF DetailInv

LEMMA DetailGoesOn == DetailInv /\ [DetailNext]_detailVars => DetailInv'
<1> SUFFICES ASSUME DetailInv, [DetailNext]_detailVars PROVE DetailInv'
  OBVIOUS
<1>1. CASE UNCHANGED detailVars
  BY <1>1 DEF detailVars, DetailInv, Asked, Executed, Given, RawIds
<1>2. CASE Perform
  <2>1. shown = NoRequest /\ shown' = shown
    BY <1>2 DEF Perform, DetailInv, Asked
  <2>2. Executed(tx')
    BY <1>2, PerformExecutes DEF DetailInv
  <2> QED BY <2>1, <2>2 DEF DetailInv, NoRequest, Executed
<1>3. ASSUME NEW shape \in Shapes, AskDetail(shape) PROVE DetailInv'
  BY <1>3, AskedOnce
<1>4. CASE Enrich
  <2>1. Asked /\ shown.step = "enriching" /\ tx' = tx
    BY <1>4 DEF Enrich, DetailInv, NoRequest
  <2>2. PICK i \in shown.waiting, payload \in {"known", "refused"} :
          shown' = [shown EXCEPT
                   !.waiting = @ \ {i},
                   !.inputs = (@ \ {i}) \cup {[i EXCEPT !.payload = payload]}]
    BY <1>4 DEF Enrich
  <2> DEFINE new == (shown.inputs \ {i}) \cup {[i EXCEPT !.payload = payload]}
             left == shown.waiting \ {i}
  <2>3. shown' = [shown EXCEPT !.waiting = left, !.inputs = new]
    BY <2>2
  <2>4. InputsFor(Given(shown.shape), new) /\ left \subseteq new
    <3>1. i \in shown.inputs /\ InputsFor(Given(shown.shape), shown.inputs)
          /\ shown.waiting \subseteq shown.inputs
      BY <2>1 DEF Asked
    <3> QED BY <3>1, InputsEnriched
  <2> HIDE DEF new, left
  <2>5. /\ shown' = [step |-> shown'.step, shape |-> shown.shape, rootEventIds |-> shown.rootEventIds,
                   eventsById |-> shown'.eventsById, inputs |-> shown'.inputs,
                   outputs |-> shown.outputs, waiting |-> shown'.waiting]
        /\ shown'.step = shown.step /\ shown'.eventsById = shown.eventsById
        /\ shown'.inputs = new /\ shown'.waiting = left
    <3>1. shown = [step |-> shown.step, shape |-> shown.shape, rootEventIds |-> shown.rootEventIds,
              eventsById |-> shown.eventsById, inputs |-> shown.inputs,
              outputs |-> shown.outputs, waiting |-> shown.waiting]
      BY <2>1 DEF Asked
    <3>2. shown' = [step |-> shown.step, shape |-> shown.shape, rootEventIds |-> shown.rootEventIds,
              eventsById |-> shown.eventsById, inputs |-> new,
              outputs |-> shown.outputs, waiting |-> left]
      BY <2>3, <3>1
    <3> QED BY <3>2
  <2> QED BY <2>1, <2>4, <2>5, AskedGoesOn
<1>5. CASE DetailReplied
  <2>1. Asked /\ shown.step = "enriching" /\ tx' = tx
    BY <1>5 DEF DetailReplied, DetailInv, NoRequest
  <2> DEFINE events == IF shown.shape = "engine" THEN Normalized(shown.eventsById) ELSE shown.eventsById
  <2>2. shown' = [shown EXCEPT !.step = "replied", !.eventsById = events]
    BY <1>5 DEF DetailReplied
  <2>3. \A byId : shown.eventsById = ByStep("enriching", shown.shape, byId)
                     => events = ByStep("replied", shown.shape, byId)
    BY DEF ByStep
  <2> HIDE DEF events
  <2>4. /\ shown' = [step |-> shown'.step, shape |-> shown.shape, rootEventIds |-> shown.rootEventIds,
                   eventsById |-> shown'.eventsById, inputs |-> shown'.inputs,
                   outputs |-> shown.outputs, waiting |-> shown'.waiting]
        /\ shown'.step = "replied" /\ shown'.eventsById = events
        /\ shown'.inputs = shown.inputs /\ shown'.waiting = shown.waiting
    <3>1. shown = [step |-> shown.step, shape |-> shown.shape, rootEventIds |-> shown.rootEventIds,
              eventsById |-> shown.eventsById, inputs |-> shown.inputs,
              outputs |-> shown.outputs, waiting |-> shown.waiting]
      BY <2>1 DEF Asked
    <3>2. shown' = [step |-> "replied", shape |-> shown.shape, rootEventIds |-> shown.rootEventIds,
              eventsById |-> events, inputs |-> shown.inputs,
              outputs |-> shown.outputs, waiting |-> shown.waiting]
      BY <2>2, <3>1
    <3> QED BY <3>2
  <2>5. InputsFor(Given(shown.shape), shown.inputs) /\ shown.waiting \subseteq shown.inputs
    BY <2>1 DEF Asked
  <2> QED BY <2>1, <2>3, <2>4, <2>5, AskedGoesOn
<1>6. CASE Draw
  <2>1. Asked /\ shown.step = "replied" /\ tx' = tx
    BY <1>6 DEF Draw, DetailInv, NoRequest
  <2> DEFINE events == Synthesized(shown.eventsById)
  <2>2. shown' = [shown EXCEPT !.step = "drawn", !.eventsById = events]
    BY <1>6 DEF Draw
  <2>3. \A byId : shown.eventsById = ByStep("replied", shown.shape, byId)
                     => events = ByStep("drawn", shown.shape, byId)
    BY DEF ByStep
  <2> HIDE DEF events
  <2>4. /\ shown' = [step |-> shown'.step, shape |-> shown.shape, rootEventIds |-> shown.rootEventIds,
                   eventsById |-> shown'.eventsById, inputs |-> shown'.inputs,
                   outputs |-> shown.outputs, waiting |-> shown'.waiting]
        /\ shown'.step = "drawn" /\ shown'.eventsById = events
        /\ shown'.inputs = shown.inputs /\ shown'.waiting = shown.waiting
    <3>1. shown = [step |-> shown.step, shape |-> shown.shape, rootEventIds |-> shown.rootEventIds,
              eventsById |-> shown.eventsById, inputs |-> shown.inputs,
              outputs |-> shown.outputs, waiting |-> shown.waiting]
      BY <2>1 DEF Asked
    <3>2. shown' = [step |-> "drawn", shape |-> shown.shape, rootEventIds |-> shown.rootEventIds,
              eventsById |-> events, inputs |-> shown.inputs,
              outputs |-> shown.outputs, waiting |-> shown.waiting]
      BY <2>2, <3>1
    <3> QED BY <3>2
  <2>5. InputsFor(Given(shown.shape), shown.inputs) /\ shown.waiting \subseteq shown.inputs
    BY <2>1 DEF Asked
  <2> QED BY <2>1, <2>3, <2>4, <2>5, AskedGoesOn
<1> QED BY <1>1, <1>2, <1>3, <1>4, <1>5, <1>6 DEF DetailNext, DetailStep

LEMMA AddedIds ==
  ASSUME NEW events, DOMAIN events \subseteq Id, NEW ids, ids \subseteq DOMAIN events
  PROVE  DOMAIN AddArchives(events, ids) \subseteq Id
<1>1. \A x \in Id : ArchiveOf(x) \in Id
  BY DEF ArchiveOf, Id
<1> QED BY <1>1 DEF AddArchives

LEMMA DetailTyped == DetailInv => DetailTypeOK
<1> SUFFICES ASSUME DetailInv PROVE DetailTypeOK
  OBVIOUS
<1>1. tx \in Seq(Event) /\ Len(tx) <= MaxTxEvents
  BY DEF DetailInv, Executed
<1>2. CASE shown = NoRequest
  <2>1. /\ shown.step = "idle" /\ shown.eventsById = <<>> /\ shown.inputs = {} /\ shown.waiting = {}
    BY <1>2 DEF NoRequest
  <2> QED BY <1>1, <2>1 DEF DetailTypeOK
<1>3. CASE Asked
  <2>1. PICK raw \in RawIds(shown.shape) : shown.eventsById =
            ByStep(shown.step, shown.shape, EventsById(shown.shape, Given(shown.shape), raw))
    BY <1>3 DEF Asked
  <2> DEFINE byId == EventsById(shown.shape, Given(shown.shape), raw)
             replied == IF shown.shape = "engine" THEN Normalized(byId) ELSE byId
  <2>2. DOMAIN byId \subseteq Id
    <3>1. ListedWith(shown.shape, Given(shown.shape), raw)
      BY <1>3, AskedListed DEF Asked
    <3>2. DOMAIN byId = SidsOf(Given(shown.shape), raw)
      BY <3>1, ByIdFacts
    <3> QED BY <3>1, <3>2, ArchivesApart
  <2> HIDE DEF byId
  <2>3. DOMAIN replied \subseteq Id
    <3>1. DOMAIN Normalized(byId) \subseteq Id
      <4> DEFINE ids == {id \in Archiving(byId) :
                          /\ ArchiveOf(id) \notin DOMAIN byId
                          /\ ~Contains(byId[id].childEventIds, ArchiveOf(id))}
      <4>1. ids \subseteq DOMAIN byId
        BY DEF Archiving
      <4>2. Normalized(byId) = AddArchives(byId, ids)
        BY DEF Normalized
      <4> HIDE DEF ids
      <4> QED BY <2>2, <4>1, <4>2, AddedIds
    <3> QED BY <2>2, <3>1
  <2> HIDE DEF replied
  <2>4. DOMAIN Synthesized(replied) \subseteq Id
    <3> DEFINE ids == {id \in Archiving(replied) :
                         ~\E k \in DOMAIN replied[id].childEventIds :
                            LET child == replied[id].childEventIds[k]
                            IN /\ child \in DOMAIN replied
                               /\ replied[child].type = "archived"
                               /\ replied[child].contract = replied[id].contract}
    <3>1. ids \subseteq DOMAIN replied
      BY DEF Archiving
    <3>2. Synthesized(replied) = AddArchives(replied, ids)
      BY DEF Synthesized
    <3> HIDE DEF ids
    <3> QED BY <2>3, <3>1, <3>2, AddedIds
  <2>5. shown.eventsById \in {byId, replied, Synthesized(replied)}
    BY <2>1 DEF ByStep, byId, replied
  <2>6. DOMAIN shown.eventsById \subseteq Id
    BY <2>2, <2>3, <2>4, <2>5
  <2>7. \A i \in shown.inputs : i.payload \in {"none", "known", "refused"}
    BY <1>3 DEF Asked, InputsFor, Input
  <2> QED BY <1>1, <1>3, <2>6, <2>7 DEF Asked, DetailTypeOK
<1> QED BY <1>2, <1>3 DEF DetailInv

LEMMA DetailMeans == DetailInv => TreeKept
<1> SUFFICES ASSUME DetailInv, shown.step = "drawn"
             PROVE  DrawnInOrder /\ BelowAsGiven /\ DiffComplete
  BY DEF TreeKept
<1>1. Asked
  BY DEF DetailInv, NoRequest
<1> DEFINE shape == shown.shape
           given == Given(shown.shape)
<1>2. PICK raw \in RawIds(shape) :
       /\ shown.rootEventIds = Below(shape, given, raw, 0)
       /\ shown.eventsById = ByStep(shown.step, shape, EventsById(shape, given, raw))
  BY <1>1 DEF Asked
<1>3. ListedWith(shape, given, raw)
  BY <1>1, AskedListed DEF Asked
<1>4. Standing(shape, given, raw, shown.eventsById)
  <2> DEFINE byId == EventsById(shape, given, raw)
  <2>1. Standing(shape, given, raw, Synthesized(IF shape = "engine" THEN Normalized(byId) ELSE byId))
    BY <1>3, DrawnStands
  <2> HIDE DEF byId
  <2>2. ByStep("drawn", shape, byId) = Synthesized(IF shape = "engine" THEN Normalized(byId) ELSE byId)
    BY DEF ByStep
  <2>3. shown.eventsById = ByStep("drawn", shape, byId)
    BY <1>2 DEF byId
  <2> QED BY <2>1, <2>2, <2>3
<1>5. DrawnFrom(raw)
  BY <1>2, <1>3, <1>4 DEF DrawnFrom, Standings
<1>6. DrawnInOrder /\ BelowAsGiven
  BY <1>5, OrderFollows, CausesFollow
<1>7. InputsFor(given, shown.inputs) /\ shown.outputs = CreatedBy(given) /\ given \in Seq(Event)
  BY <1>1, <1>3 DEF Asked, ListedWith, InShape
<1>8. Cardinality(shown.inputs) = Cardinality(Consumed(given))
  BY <1>7, InputsCounted
<1>9. DiffComplete
  BY <1>7, <1>8 DEF DiffComplete, InputsFor
<1> QED BY <1>6, <1>9

\* In whatever shape a participant gives a transaction and whatever its event
\* ids, of any number of events the tree a user sees has each once and in the
\* order of the ledger with one archive right under each that consumes, and the
\* state diff has what was consumed and created.  Under an event is just what it
\* caused where the shape tells causes; of a flat list with colliding ids, all
\* that follows (mapTransactionToDetail, computeStateDiff,
\* normalizeResultTransaction, synthesizeArchiveEvents).
THEOREM DetailTheorem == DetailSpec => [](DetailTypeOK /\ TreeKept)
<1>1. DetailInv => DetailTypeOK /\ TreeKept
  BY DetailTyped, DetailMeans
<1> QED BY <1>1, DetailInitially, DetailGoesOn, PTL DEF DetailSpec
=============================================================================
