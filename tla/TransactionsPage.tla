--------------------------- MODULE TransactionsPage ---------------------------
(***************************************************************************)
(* The transaction page (frontend/src/features/transactions/page.tsx): one *)
(* transaction with a tab for its tree, its state diff, its privacy        *)
(* analysis and the workflow it belongs to.                                *)
(*                                                                         *)
(* The page with an update id in its address and the one without are two   *)
(* components: going from one to the other starts anew, going from one     *)
(* transaction to the next keeps everything.  What was asked for before    *)
(* may or may not be in the cache, so a query that is shown begins with    *)
(* its answer or waits for it.                                             *)
(***************************************************************************)
EXTENDS Integers, Sequences, FiniteSets, Sorting

CONSTANTS
  Ledger,     \* the transactions in their order: workflow id, trace and span of
              \* the trace parent, contracts created and used, and for each
              \* event the parties that see it
  BootstrapTx   \* the last transaction before the bootstrap of the session

Absent == "none"
NoTx == 0
TxIds == DOMAIN Ledger
ViewersOf(tx) == UNION {Ledger[tx].seen[e] : e \in DOMAIN Ledger[tx].seen}
Columns(tx) == CHOOSE q \in Orders(ViewersOf(tx)) : TRUE

\* A party has a name, and a trace parent a span, which is a number here.
ASSUME TxPageConstantsOK ==
  /\ BootstrapTx \in Nat /\ Len(Ledger) \in Nat /\ TxIds = 1..Len(Ledger)
  /\ \A tx \in TxIds :
       LET t == Ledger[tx]
       IN /\ Len(t.seen) \in Nat /\ DOMAIN t.seen = 1..Len(t.seen)
          /\ \A e \in DOMAIN t.seen : IsFiniteSet(t.seen[e]) /\ Absent \notin t.seen[e]
          /\ t.trace # Absent => t.span # 0

\* A correlation.  One by a trace has a trace id, or a whole trace parent with
\* its span.
By(type, key, span) == [type |-> type, key |-> key, span |-> span]
NoCorrelation == By(Absent, Absent, 0)

VARIABLES
  txPage,      \* the transaction, its query, the tab, the popover's correlation
  privacyTab,  \* PrivacyTabContent with the view that is open
  flowTab      \* WorkflowTabContent

txPageVars == <<txPage, privacyTab, flowTab>>

NewPage(tx) ==
  [tx |-> tx, query |-> IF tx = NoTx THEN "idle" ELSE "loading", tab |-> "tree",
   own |-> NoCorrelation]

TabOpen(page, tab) == page.query = "have" /\ page.tab = tab

Begun == {"loading", "have"}

-----------------------------------------------------------------------------
(***************************************************************************)
(* The privacy tab.                                                        *)
(***************************************************************************)

\* The tree; the matrix sorted by a party or by event; two parties compared.
TreeView == [kind |-> "tree", a |-> Absent, b |-> Absent, up |-> TRUE]
MatrixView == [TreeView EXCEPT !.kind = "matrix"]

\* The parties compared: those of before if they are still there.
Recompared(view, tx) ==
  LET parties == Columns(tx)
      kept(p, i) == IF p \in ViewersOf(tx) \/ ViewersOf(tx) = {} THEN p
                    ELSE parties[IF i > Len(parties) THEN 1 ELSE i]
  IN IF view.kind # "comparison" THEN view
     ELSE [view EXCEPT !.a = kept(@, 1), !.b = kept(@, 2)]

NoPrivacyTab ==
  [query |-> "idle", ticked |-> {}, marked |-> Absent, view |-> TreeView]

\* The rows of the matrix in their order, events by their places.
RowBefore(view, seen, d, e) ==
  LET rank(n) == IF view.a = Absent THEN n ELSE IF view.a \in seen[n] THEN 1 ELSE 0
  IN IF rank(d) = rank(e) THEN d < e
     ELSE IF view.up THEN rank(d) < rank(e) ELSE rank(d) > rank(e)

MatrixRows(view, tx) ==
  LET seen == Ledger[tx].seen
      events == DOMAIN seen
  IN Sorted(events, {p \in events \X events : RowBefore(view, seen, p[1], p[2])})

\* What two parties see of the events.
Category(view, seenBy) ==
  IF {view.a, view.b} \subseteq seenBy THEN "both"
  ELSE IF view.a \in seenBy THEN "only a"
  ELSE IF view.b \in seenBy THEN "only b"
  ELSE "neither"
InCategory(view, tx, categories) ==
  Cardinality({e \in DOMAIN Ledger[tx].seen : Category(view, Ledger[tx].seen[e]) \in categories})

\* An analysis that is new to the tab ticks all its parties.
Analyzed(tab, tx) ==
  [tab EXCEPT !.query = "have", !.ticked = ViewersOf(tx), !.view = Recompared(@, tx)]

PrivacyAfter(old, new) ==
  LET before == IF TabOpen(old, "privacy") THEN privacyTab ELSE NoPrivacyTab
  IN IF ~TabOpen(new, "privacy") THEN {NoPrivacyTab}
     ELSE IF TabOpen(old, "privacy") /\ old.tx = new.tx THEN {privacyTab}
     ELSE {[before EXCEPT !.query = "loading", !.view = TreeView], Analyzed(before, new.tx)}

-----------------------------------------------------------------------------
(***************************************************************************)
(* The workflow tab.                                                       *)
(***************************************************************************)

\* defaultWorkflowCorrelation.
Default(page) ==
  LET t == Ledger[page.tx]
  IN IF page.own # NoCorrelation THEN page.own
     ELSE IF page.query # "have" THEN NoCorrelation
     ELSE IF t.workflow # Absent THEN By("workflow_id", t.workflow, 0)
     ELSE IF t.trace # Absent THEN By("trace_context", t.trace, t.span)
     ELSE NoCorrelation

NoFlowTab == [correlation |-> NoCorrelation, given |-> FALSE, query |-> "idle"]

\* useWorkflow with a correlation, which the page has given or the user.
CorrelatedBy(tab, c, given) ==
  {[correlation |-> c, given |-> given, query |-> q] :
     q \in IF c = NoCorrelation THEN {"idle"}
           ELSE IF c = tab.correlation THEN {tab.query} ELSE Begun}

\* The effect on initialCorrelation.  Without a search of the popover it is a
\* new object whenever the page is drawn.
FlowAfter(old, new, searched) ==
  IF ~TabOpen(new, "workflow") THEN {NoFlowTab}
  ELSE IF ~TabOpen(old, "workflow") THEN CorrelatedBy(NoFlowTab, Default(new), TRUE)
  ELSE IF Default(new) # NoCorrelation /\ (searched \/ new.own = NoCorrelation)
       THEN CorrelatedBy(flowTab, Default(new), TRUE)
  ELSE {flowTab}

\* correlateByTraceContext and correlateByWorkflowId, which look at what comes
\* after the bootstrap.
Timeline(c) ==
  {tx \in TxIds :
     /\ tx > BootstrapTx
     /\ \/ c.type = "workflow_id" /\ Ledger[tx].workflow = c.key
        \/ c.type = "trace_context" /\ c.span = 0 /\ Ledger[tx].trace = c.key}

\* contractFlows of the gateway, and the arrows of buildNodesAndEdges between
\* neighbours of one trace parent where no contract flows.
ContractArrows(txs) ==
  {p \in txs \X txs : p[1] # p[2] /\ Ledger[p[1]].created \cap Ledger[p[2]].used # {}}
SameParent(i, j) ==
  /\ Ledger[i].trace # Absent
  /\ Ledger[i].trace = Ledger[j].trace /\ Ledger[i].span = Ledger[j].span
TraceArrows(txs) ==
  {p \in (txs \X txs) \ ContractArrows(txs) :
     /\ p[1] < p[2] /\ SameParent(p[1], p[2])
     /\ \A k \in txs : p[1] < k /\ k < p[2] => ~SameParent(p[1], k)}

\* handleSearch: what looks like a trace parent is cut down to its trace id.
Searched(c) == [c EXCEPT !.span = 0]

Correlations ==
  UNION {{By("workflow_id", Ledger[tx].workflow, 0), By("trace_context", Ledger[tx].trace, 0),
          By("trace_context", Ledger[tx].trace, Ledger[tx].span)} : tx \in TxIds}
Searchable == {c \in Correlations : c.key # Absent}

-----------------------------------------------------------------------------
\* The page is drawn again as a new one.
Redrawn(old, new, searched) ==
  /\ txPage' = new
  /\ privacyTab' \in PrivacyAfter(old, new)
  /\ flowTab' \in FlowAfter(old, new, searched)

\* An address is opened, by the search, a link or the browser's buttons.
GoTo(tx, tab) ==
  IF NoTx \in {tx, txPage.tx}
  THEN \E q \in IF tx = NoTx THEN {"idle"} ELSE Begun :
         Redrawn(NewPage(NoTx), [NewPage(tx) EXCEPT !.query = q], FALSE)
  ELSE \E q \in IF tx = txPage.tx THEN {txPage.query} ELSE Begun :
         Redrawn(txPage, [txPage EXCEPT !.tx = tx, !.query = q, !.tab = tab], FALSE)

SelectTransaction ==
  \E tx \in (TxIds \cup {NoTx}) \ {txPage.tx} : GoTo(tx, txPage.tab)

TransactionAnswered ==
  /\ txPage.query = "loading"
  /\ \E q \in {"have", "failed"} : Redrawn(txPage, [txPage EXCEPT !.query = q], FALSE)

SwitchTab ==
  /\ txPage.query = "have"
  /\ \E tab \in {"tree", "state-diff", "privacy", "workflow"} \ {txPage.tab} :
       Redrawn(txPage, [txPage EXCEPT !.tab = tab], FALSE)

\* The popover, which is there with and without a transaction: a search, or its
\* button.  Opening it, and an answer to the recent transactions, draw the page.
UsePopover ==
  \/ \E c \in Searchable :
       Redrawn(txPage, [txPage EXCEPT !.own = Searched(c), !.tab = "workflow"], TRUE)
  \/ txPage.tx # NoTx /\ Redrawn(txPage, [txPage EXCEPT !.tab = "workflow"], FALSE)
  \/ Redrawn(txPage, txPage, FALSE)

InPrivacyTab ==
  /\ TabOpen(txPage, "privacy")
  /\ \/ /\ privacyTab.query = "loading"
        /\ privacyTab' \in {Analyzed(privacyTab, txPage.tx), [privacyTab EXCEPT !.query = "failed"]}
     \/ /\ privacyTab.query = "have"
        /\ \E p \in ViewersOf(txPage.tx) :
             \/ privacyTab' = [privacyTab EXCEPT !.ticked = IF p \in @ THEN @ \ {p} ELSE @ \cup {p}]
             \/ privacyTab' = [privacyTab EXCEPT !.marked = IF @ = p THEN Absent ELSE p]
  /\ UNCHANGED <<txPage, flowTab>>

\* The views inside; one that is opened starts anew.
InPrivacyView ==
  /\ TabOpen(txPage, "privacy") /\ privacyTab.query = "have"
  /\ \E view \in {TreeView, MatrixView, [TreeView EXCEPT !.kind = "comparison"]} :
       \/ view.kind # privacyTab.view.kind
          /\ privacyTab' = [privacyTab EXCEPT !.view = Recompared(view, txPage.tx)]
       \/ /\ view.kind = privacyTab.view.kind
          /\ \E p \in ViewersOf(txPage.tx) :
               \/ /\ view.kind = "comparison" /\ Cardinality(ViewersOf(txPage.tx)) > 1
                  /\ \/ privacyTab' = [privacyTab EXCEPT !.view.a = p]
                     \/ privacyTab' = [privacyTab EXCEPT !.view.b = p]
               \/ /\ view.kind = "matrix"
                  /\ \E field \in {p, Absent} :
                       privacyTab' = [privacyTab EXCEPT !.view.a = field,
                                        !.view.up = field # privacyTab.view.a \/ ~@]
  /\ UNCHANGED <<txPage, flowTab>>

InFlowTab ==
  /\ TabOpen(txPage, "workflow")
  /\ \/ /\ flowTab.query = "loading"
        /\ flowTab' \in {[flowTab EXCEPT !.query = "have"], [flowTab EXCEPT !.query = "failed"]}
     \/ \E c \in Searchable : flowTab' \in CorrelatedBy(flowTab, Searched(c), FALSE)
  /\ UNCHANGED <<txPage, privacyTab>>

\* A click on a card of the timeline leaves the tab for the tree.
PickInTimeline ==
  /\ TabOpen(txPage, "workflow") /\ flowTab.query = "have"
  /\ \E tx \in Timeline(flowTab.correlation) : GoTo(tx, "tree")

TxPageInit(open) ==
  /\ txPage \in {NewPage(tx) : tx \in IF open THEN TxIds \cup {NoTx} ELSE {NoTx}}
  /\ privacyTab = NoPrivacyTab /\ flowTab = NoFlowTab

TxPageNext ==
  \/ SelectTransaction \/ TransactionAnswered \/ SwitchTab \/ UsePopover
  \/ InPrivacyTab \/ InPrivacyView \/ InFlowTab \/ PickInTimeline

-----------------------------------------------------------------------------
TxPageTypeOK ==
  /\ txPage.tx \in TxIds \cup {NoTx}
  /\ {txPage.query, privacyTab.query, flowTab.query} \subseteq {"idle", "failed"} \cup Begun
  /\ {txPage.own, flowTab.correlation} \subseteq Correlations \cup {NoCorrelation}
  /\ privacyTab.ticked \subseteq UNION {ViewersOf(tx) : tx \in TxIds}

\* The privacy tab speaks of the transaction that is shown, however quickly the
\* user goes from one to the next: it ticks and compares only its parties, and
\* the counts of the comparison are those of the matrix, whose rows are the
\* events, each once and those a party sees together.
AnalysisFollows ==
  privacyTab.query = "have" =>
    LET seen == Ledger[txPage.tx].seen
        view == privacyTab.view
        rows == MatrixRows(view, txPage.tx)
        column(p) == Cardinality({e \in DOMAIN seen : p \in seen[e]})
    IN /\ privacyTab.ticked \subseteq ViewersOf(txPage.tx)
       /\ view.kind = "comparison" /\ ViewersOf(txPage.tx) # {} =>
            /\ {view.a, view.b} \subseteq ViewersOf(txPage.tx)
            /\ InCategory(view, txPage.tx, {"both", "only a"}) = column(view.a)
            /\ InCategory(view, txPage.tx, {"both", "only b"}) = column(view.b)
       /\ Len(rows) = Len(seen) /\ \A e \in DOMAIN seen : \E i \in DOMAIN rows : rows[i] = e
       /\ \A i, j, k \in DOMAIN rows :
            (i < j /\ j < k /\ view.a \in seen[rows[i]] \cap seen[rows[k]])
              => view.a \in seen[rows[j]]

\* A workflow the page traces is the one of the transaction it shows, or the
\* one searched for in the popover.  It has that transaction in its timeline if
\* it was committed since the session began and has a workflow id; with only a
\* trace parent the whole of it is sent for the trace id, and nothing is found.
\* Neighbours of one trace parent are joined by one arrow.
WorkflowFollows ==
  TabOpen(txPage, "workflow") =>
    LET c == flowTab.correlation
        txs == Timeline(c)
    IN /\ flowTab.given /\ Default(txPage) # NoCorrelation => c = Default(txPage)
       /\ flowTab.given /\ txPage.own = NoCorrelation /\ c = Default(txPage) =>
            (txPage.tx \in txs <=> c.type = "workflow_id" /\ txPage.tx > BootstrapTx)
       /\ \A i, j \in txs :
            (i < j /\ SameParent(i, j) /\ \A k \in txs : i < k /\ k < j => ~SameParent(i, k))
              => (<<i, j>> \in ContractArrows(txs) <=> <<i, j>> \notin TraceArrows(txs))
=============================================================================
