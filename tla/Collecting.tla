------------------------------ MODULE Collecting ------------------------------
(***************************************************************************)
(* What the gateway collects before it answers: messages of a stream that  *)
(* ends, fails or stays silent (StreamedReplies), and the snapshot a page  *)
(* of contracts is cut from (AcsPages).  The routes share nothing but      *)
(* their promise.                                                          *)
(***************************************************************************)
EXTENDS StreamedReplies, AcsPages

\* What the gateway collects for an answer is what the ledger has: from streams
\* that end, fail or stay silent, and from pages of a snapshot.
AnswersFaithful == RepliesFaithful /\ PagesPartition
=============================================================================
