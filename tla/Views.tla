-------------------------------- MODULE Views --------------------------------
(***************************************************************************)
(* What the pages tell of the ledger, put together: the analysis of who    *)
(* sees which events and the tabs of the transaction page that ask for it; *)
(* the tabs of the events page and the errors in them.  They share no      *)
(* state, so a behaviour of all is one of each.                            *)
(***************************************************************************)
EXTENDS Privacy, TransactionsPage, EventsPage, ErrorReport

\* Who sees a transaction is shown as it is on the ledger: the matrix and the
\* tree of its analysis (routes/privacy.ts, privacy-tree.tsx), and the tabs of
\* the transaction page (features/transactions) when the user goes from one
\* transaction to the next.
TransactionShown == ProjectionShown /\ AnalysisFollows /\ WorkflowFollows

\* What happens on the ledger and what goes wrong there is told as it is: the
\* updates, the failed completions and the reassignments of the events page
\* (features/events), and an error wherever it is shown (canton/errors.ts).
LedgerTold == EventsListed /\ ErrorsExplained
=============================================================================
