------------------------------- MODULE Queries -------------------------------
(***************************************************************************)
(* What the pages of the frontend see of TanStack Query, a library: one    *)
(* entry for each key of a query, with the data of its last answer, the    *)
(* answer on its way and whether the last fetch failed.  At most one fetch *)
(* of a key is under way, its answer is kept whether or not a page still   *)
(* shows that key, and a failure keeps the data there is.  An answer says  *)
(* what was true when it was asked for, the oldest it can be.              *)
(***************************************************************************)
EXTENDS Naturals, Sequences

Missing == <<>>
Value(data) == data[1]

NoEntry == [data |-> Missing, flying |-> Missing, failed |-> FALSE]

Entries(S) ==
  LET Optional == {Missing} \cup {<<s>> : s \in S}
  IN [data : Optional, flying : Optional, failed : BOOLEAN]

IsFetching(q) == q.flying # Missing
IsLoading(q)  == q.data = Missing /\ IsFetching(q)
IsError(q)    == q.failed

FetchStarted(q, answer) ==
  IF IsFetching(q) THEN q
  ELSE [q EXCEPT !.flying = <<answer>>, !.failed = @ /\ q.data # Missing]

\* An invalidation of a key that a page shows starts a new fetch in place of the
\* one under way.
FetchRestarted(q, answer) == FetchStarted([q EXCEPT !.flying = Missing], answer)

FetchSucceeded(q) == [data |-> q.flying, flying |-> Missing, failed |-> FALSE]

FetchFailed(q) == [q EXCEPT !.flying = Missing, !.failed = TRUE]
=============================================================================
