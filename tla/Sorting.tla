------------------------------- MODULE Sorting -------------------------------
(***************************************************************************)
(* Sets as lists.  An order is a set of pairs, the former before the       *)
(* latter, which the provers take as an argument where they take no        *)
(* operator.                                                               *)
(***************************************************************************)
EXTENDS Naturals, FiniteSets

\* A set as a list, in any order.
Orders(S) ==
  {q \in [1..Cardinality(S) -> S] : \A c \in S : \E i \in DOMAIN q : q[i] = c}

\* A set as the list that a strict total order makes of it: at a place stands
\* the element that as many others come before.
Sorted(S, order) ==
  [i \in 1..Cardinality(S) |->
     CHOOSE e \in S : Cardinality({d \in S : <<d, e>> \in order}) = i - 1]

\* Numbers from the least.
Ascending(S) == {p \in S \X S : p[1] < p[2]}
=============================================================================
