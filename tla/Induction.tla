------------------------------ MODULE Induction ------------------------------
(***************************************************************************)
(* Induction over the natural numbers for a set instead of a predicate:    *)
(* the provers instantiate a set.  A smallest number that is missing would *)
(* be a smallest initial segment, and finite sets are well-founded.        *)
(***************************************************************************)
EXTENDS FiniteSetTheorems, TLAPS

\* A set of natural numbers has a smallest element.
LEMMA SmallestElement ==
  ASSUME NEW T \in SUBSET Nat, T # {}
  PROVE  \E n \in T : \A m \in T : n <= m
<1> DEFINE F == {S \in FiniteSubsetsOf(Nat) : \E n \in T : S = 0..n}
           R == StrictSubsetOrdering(Nat)
<1>1. IsWellFoundedOn(R, FiniteSubsetsOf(Nat))
  BY FS_StrictSubsetOrderingWellFounded
<1>2. \A n \in Nat : 0..n \in FiniteSubsetsOf(Nat)
  <2> TAKE n \in Nat
  <2>1. 0 \in Int /\ n \in Int
    OBVIOUS
  <2>2. IsFiniteSet(0..n)
    BY <2>1, FS_Interval
  <2>3. QED
    BY <2>2 DEF FiniteSubsetsOf
<1>3. F \subseteq FiniteSubsetsOf(Nat) /\ F # {}
  BY <1>2
<1>4. PICK S \in F : \A U \in F : <<U, S>> \notin R
  <2> HIDE DEF F, R
  <2> QED BY <1>1, <1>3, WFMin
<1>5. PICK n \in T : S = 0..n
  OBVIOUS
<1>6. \A m \in T : n <= m
  <2> SUFFICES ASSUME NEW m \in T, m < n PROVE FALSE
    OBVIOUS
  <2>1. 0..m \in F /\ <<0..m, S>> \notin R
    BY <1>2, <1>4
  <2>2. 0..m \subseteq 0..n /\ n \in 0..n /\ n \notin 0..m
    OBVIOUS
  <2>3. 0..m \in SUBSET Nat /\ 0..n \in SUBSET Nat
    OBVIOUS
  <2>4. <<0..m, S>> \in (SUBSET Nat) \X (SUBSET Nat)
    BY <1>5, <2>3
  <2>5. QED
    BY <1>5, <2>1, <2>2, <2>4 DEF StrictSubsetOrdering
<1>7. QED
  BY <1>6

\* Induction.
LEMMA SetInduction ==
  ASSUME NEW T, 0 \in T, \A n \in Nat : n \in T => n + 1 \in T
  PROVE  Nat \subseteq T
<1> SUFFICES ASSUME Nat \ T # {} PROVE FALSE
  OBVIOUS
<1>1. PICK n \in Nat \ T : \A m \in Nat \ T : n <= m
  BY SmallestElement
<1>2. n # 0 /\ n - 1 \in Nat /\ n - 1 \in T
  BY <1>1
<1>3. QED
  BY <1>1, <1>2

\* One to one onto a finite set.
LEMMA SameCount ==
  ASSUME NEW S, NEW T, IsFiniteSet(T), NEW f \in [S -> T],
         \A x, y \in S : f[x] = f[y] => x = y,
         \A t \in T : \E x \in S : f[x] = t
  PROVE  IsFiniteSet(S) /\ Cardinality(S) = Cardinality(T)
<1>1. f \in Injection(S, T) /\ f \in Surjection(S, T)
  BY DEF Injection, IsInjective, Surjection
<1>2. QED
  BY <1>1, FS_Injection
=============================================================================
