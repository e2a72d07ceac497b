----------------------------- MODULE TracePanels -----------------------------
(***************************************************************************)
(* The trace tab of the debugger (features/debugger/page.tsx): the code    *)
(* panel, the steps and the context of the step shown.  Its panels live as *)
(* long as the tab is the active one, and keep what they hold from one     *)
(* trace to the next.  A trace is what the gateway makes of the engine's   *)
(* answer (routes/trace.ts, EngineExecutor.scala); Debugger.tla has every  *)
(* shape of a transaction, this module the contracts and parties of a root *)
(* command and one consequence.                                            *)
(***************************************************************************)
EXTENDS EventTree, FiniteSets, TLC
LOCAL INSTANCE SequencesExt

CONSTANTS
  Traceable,        \* what is traced: submitters, and the nodes it makes if admitted
  TracedPackages,   \* the packages that have its template
  MaxTraces,        \* bound: the traces a user asks for
  MaxPanelClicks    \* bound: rows opened or closed and tabs picked

ASSUME TracePanelsConstantsOK == MaxTraces \in Nat /\ MaxPanelClicks \in Nat

\* A command makes nodes, of which the root is no fetch.
ASSUME TraceableOK ==
  \A c \in Traceable :
    c.nodes \in Seq(ToSet(c.nodes)) \ {<<>>} /\ c.nodes[1].kind # "fetch"

VARIABLES
  resultTab,         \* activeTab of the page
  tracing,     \* a trace was asked for and is not answered
  tracesAsked,      \* how many traces were asked for
  tracedNow,       \* the trace of the page, NoShown without one
  at,          \* currentStep
  open,        \* the steps whose row is expanded
  touched,     \* the user opened or closed a row since the rows were mounted
  text,        \* decompiledSource of the code panel
  fetching,    \* the package and template whose source it waits for
  panelClicks      \* how often the user clicked in the panels

panelVars == <<resultTab, tracing, tracesAsked, tracedNow, at, open, touched,
               text, fetching, panelClicks>>

-----------------------------------------------------------------------------
(***************************************************************************)
(* What was traced.  Contract 1 is the contract of the root command, 2 is  *)
(* created by its consequence and 3 fetched by it.  An exercise returns    *)
(* the created contract or another value.                                  *)
(***************************************************************************)

InputContract == 1
MadeContract == 2
OtherContract == 3
ReturnedValue == 0   \* valueToString of a result that is no contract
NoId  == -1  \* no id at all

LfNode(kind, contract, signatories, actors, result) ==
  [kind |-> kind, contract |-> contract, signatories |-> signatories,
   actors |-> actors, result |-> result]

\* The traces of a command: admitted or refused by the engine, of one version
\* of its package or another, and with or without a source that the gateway
\* could decompile.
TracesOf(c) ==
  {[package |-> p, decompiled |-> d, admitted |-> a, actAs |-> c.actAs,
    nodes |-> c.nodes] : p \in TracedPackages, d, a \in BOOLEAN}

NoText  == [of |-> "none", template |-> "none"]
NoShown == [package |-> "none", actAs |-> {}, admitted |-> FALSE,
            decompiled |-> FALSE, nodes |-> <<>>]

-----------------------------------------------------------------------------
(***************************************************************************)
(* The trace as the page gets it.                                          *)
(***************************************************************************)

PlainStep(stepType, passed) ==
  [stepType |-> stepType, contract |-> NoId, resulting |-> NoId,
   payloads |-> <<>>, provided |-> {}, passed |-> passed]

\* A contract that the engine looked up.
LookedUp(contract) ==
  [PlainStep("fetch_contract", TRUE) EXCEPT
     !.contract = contract, !.payloads = contract :> "payload"]

\* normalizeStepContext of a ledger action: its arguments are the payload of
\* whatever id its result is.  The engine checks no authorization in a step of
\* its own, so that the submitters are what is provided.
ActionStep(stepType, node, resulting, arguments, actAs) ==
  [stepType |-> stepType, contract |-> node.contract, resulting |-> resulting,
   payloads |-> resulting :> arguments, provided |-> actAs, passed |-> TRUE]

ActionSteps(node, actAs) ==
  CASE node.kind = "create" ->
         <<ActionStep("create_contract", node, node.contract, "payload", actAs)>>
    [] node.kind = "fetch" ->
         <<[PlainStep("fetch_contract", TRUE) EXCEPT !.contract = node.contract]>>
    [] OTHER ->
         <<ActionStep("exercise_choice", node, node.result, "arguments", actAs)>>
           \o IF node.kind = "nonconsuming" THEN <<>>
              ELSE <<ActionStep("archive_contract", node, node.contract, "empty",
                                actAs)>>

PanelSteps(t) ==
  LET over(Op(_)) == FlattenSeq([i \in DOMAIN t.nodes |-> Op(t.nodes[i])])
      lookup(node) == IF node.kind = "create" THEN <<>> ELSE <<LookedUp(node.contract)>>
      action(node) == ActionSteps(node, t.actAs)
  IN <<PlainStep("fetch_package", TRUE), PlainStep("evaluate_expression", TRUE)>>
       \o over(lookup)
       \o (IF t.admitted THEN over(action) ELSE <<>>)
       \o <<PlainStep("evaluate_expression", t.admitted)>>

\* Fetches are no events; every consequence is a child of the root.
ResultEvents(t) ==
  LET id(i) == [base |-> i, at |-> 0, archive |-> FALSE]
      node(i) == t.nodes[i]
      kept == {i \in DOMAIN t.nodes : t.admitted /\ node(i).kind # "fetch"}
  IN Normalized([e \in {id(i) : i \in kept} |->
       [type |-> IF node(e.base).kind = "create" THEN "created" ELSE "exercised",
        consuming |-> node(e.base).kind = "consuming",
        contract |-> node(e.base).contract, number |-> e.base,
        childEventIds |-> IF e.base = 1 /\ Len(t.nodes) = 2 THEN <<id(2)>> ELSE <<>>]])

LedgerStepTypes == {"create_contract", "exercise_choice", "archive_contract"}

\* computeSourceLocations: every step lies in the file under its display name,
\* if the gateway has the source.
LocatedIn(t) == IF t.decompiled THEN "display" ELSE "none"

-----------------------------------------------------------------------------
(***************************************************************************)
(* What the panels show of a trace t at a step.                            *)
(***************************************************************************)

Current(t) == PanelSteps(t)[at + 1]

\* tracedPackageId: no step of a refused command names a template.
TracedPackage(t) ==
  IF \E k \in DOMAIN PanelSteps(t) : PanelSteps(t)[k].stepType \in LedgerStepTypes
  THEN t.package ELSE "none"

\* StepExpandedContent: the contract a row links to.
LinkOf(step) ==
  IF step.stepType \in LedgerStepTypes /\ step.resulting # NoId
  THEN step.resulting ELSE step.contract

OwnTextFirst(t) ==                     \* mutant: effectiveSourceFiles
  IF text.of # "none" THEN [file |-> "decompiled.daml", of |-> text.of]
  ELSE IF t.decompiled THEN [file |-> LocatedIn(t), of |-> t.package]
  ELSE [file |-> "none", of |-> "none"]

\* effectiveSourceFiles and currentFile: the sources of the trace come first.
CodeShown(t) ==
  IF t.decompiled THEN [file |-> LocatedIn(t), of |-> t.package]
  ELSE IF text.of # "none" THEN [file |-> "decompiled.daml", of |-> text.of]
  ELSE [file |-> "none", of |-> "none"]

\* The contracts of a result, archives last.
EventContracts(t) ==
  LET events == ResultEvents(t)
      in(archive) == SetToSortSeq({e \in DOMAIN events : e.archive = archive},
                                  LAMBDA d, e : d.base < e.base)
      shows == [created |-> "payload", exercised |-> "arguments", archived |-> "empty"]
      ids == in(FALSE) \o in(TRUE)
  IN [k \in DOMAIN ids |-> [contract |-> events[ids[k]].contract,
                            payload |-> shows[events[ids[k]].type]]]

\* ContractsTab: the contracts of the step, then those that any step fetched,
\* then those of the result, each as it is met first.
ContractsTab(t) ==
  LET steps == PanelSteps(t)
      now == Current(t).payloads
      stepIds == SetToSeq(DOMAIN now)
      fetches == SelectSeq(steps, LAMBDA s : s.stepType = "fetch_contract")
      all == [k \in DOMAIN stepIds |-> [contract |-> stepIds[k],
                                        payload |-> now[stepIds[k]]]]
        \o [k \in DOMAIN fetches |->
              [contract |-> fetches[k].contract,
               payload |-> IF fetches[k].payloads = <<>> THEN "empty" ELSE "payload"]]
        \o EventContracts(t)
  IN FoldLeft(LAMBDA list, c :
       IF \E k \in DOMAIN list : list[k].contract = c.contract
       THEN list ELSE Append(list, c), <<>>, all)

\* AuthorizationTab: the signatories of what is created, against the submitters
\* that the step provides and the actors of all exercises.
RequiredAuthority(t) ==
  UNION {t.nodes[i].signatories :
           i \in {j \in DOMAIN t.nodes : t.admitted /\ t.nodes[j].kind = "create"}}
ProvidedAuthority(t) ==
  Current(t).provided
    \cup UNION {t.nodes[i].actors : i \in {j \in DOMAIN t.nodes : t.admitted}}

AuthorityText(t) ==
  CASE RequiredAuthority(t) = {} /\ ProvidedAuthority(t) = {} -> "nothing"
    [] RequiredAuthority(t) = {} /\ ProvidedAuthority(t) # {} -> "extracted"
    [] RequiredAuthority(t) # {} ->
         IF RequiredAuthority(t) \subseteq ProvidedAuthority(t)
         THEN "provided" ELSE "missing"

\* TransactionTreeTab: the events, or without any the actions of the steps.
TreeTab(t) ==
  LET events == ResultEvents(t)
      ids == TreeOf(<<[base |-> 1, at |-> 0, archive |-> FALSE]>>, events)
  IN [k \in DOMAIN ids |-> [type |-> events[ids[k]].type,
                            contract |-> events[ids[k]].contract]]

-----------------------------------------------------------------------------
(***************************************************************************)
(* What the user does and what the answers do.                             *)
(***************************************************************************)

PanelsInit(on) ==
  /\ resultTab = "simulation" /\ tracing = FALSE /\ tracesAsked = IF on THEN 0 ELSE MaxTraces
  /\ tracedNow = NoShown /\ at = 0 /\ open = {} /\ touched = FALSE
  /\ text = NoText /\ fetching = NoText /\ panelClicks = 0

\* The effect of the code panel: it asks for the decompiled package once it
\* shows a step without a source, and again if the answer was no success.  It
\* looks for the template of the step shown then, which has none at first.
FetchesIfMissing(t, step, had, waiting) ==
  fetching' = IF t # NoShown /\ ~t.decompiled /\ had = NoText /\ waiting = NoText
                   /\ TracedPackage(t) # "none"
              THEN [of |-> TracedPackage(t),
                    template |-> IF PanelSteps(t)[step + 1].stepType \in LedgerStepTypes
                                 THEN "traced" ELSE "first"]
              ELSE waiting

\* The panels appear: everything they hold is as it is at first.
Mount(t, step) ==
  /\ open' = IF t = NoShown THEN {} ELSE {step}
  /\ touched' = FALSE
  /\ text' = NoText /\ FetchesIfMissing(t, step, NoText, NoText)

\* They are gone, and with them a fetch that is under way.
Unmount ==
  /\ open' = {} /\ touched' = FALSE
  /\ text' = NoText /\ fetching' = NoText

\* handleTrace, by the button of the command builder on any tab.
AskTrace ==
  /\ ~tracing /\ tracesAsked < MaxTraces
  /\ tracing' = TRUE /\ tracesAsked' = tracesAsked + 1 /\ resultTab' = "trace"
  /\ IF resultTab = "trace" THEN UNCHANGED <<open, touched, text, fetching>>
     ELSE Mount(tracedNow, at)
  /\ UNCHANGED <<tracedNow, at, panelClicks>>

\* A row keeps its state by its number; being the current one or no longer
\* opens or closes it.  A context panel without a trace has no tab.
RowsOf(t, was, step) ==
  LET last == Len(PanelSteps(t)) - 1
      kept == was \cap 0..last
  IN IF step = at THEN kept ELSE (kept \ {at}) \cup {step}

TraceArrives(t) ==
  /\ tracing /\ tracing' = FALSE /\ tracedNow' = t /\ at' = 0
  /\ IF resultTab # "trace" THEN UNCHANGED <<open, touched, text, fetching>>
     ELSE IF tracedNow = NoShown THEN Mount(t, 0)
     ELSE /\ open' = RowsOf(t, open, 0)
          /\ FetchesIfMissing(t, 0, text, fetching)
          /\ UNCHANGED <<touched, text>>
  /\ UNCHANGED <<resultTab, tracesAsked, panelClicks>>

AskFailed ==
  /\ tracing /\ tracing' = FALSE
  /\ UNCHANGED <<resultTab, tracesAsked, tracedNow, at, open, touched,
                 text, fetching, panelClicks>>

SwitchResultTab(x) ==
  /\ resultTab # x /\ resultTab' = x /\ panelClicks < MaxPanelClicks /\ panelClicks' = panelClicks + 1
  /\ IF x = "trace" THEN Mount(tracedNow, at) ELSE Unmount
  /\ UNCHANGED <<tracing, tracesAsked, tracedNow, at>>

\* resetDebugger: the trace goes, the step stays.
ResetTrace ==
  /\ tracedNow # NoShown /\ tracedNow' = NoShown /\ resultTab' = "simulation" /\ Unmount
  /\ UNCHANGED <<tracing, tracesAsked, at, panelClicks>>

ShowsSteps == resultTab = "trace" /\ tracedNow # NoShown

StepKept(k) ==                           \* mutant: no effect on isCurrent
  /\ ShowsSteps /\ k \in 0..(Len(PanelSteps(tracedNow)) - 1) /\ k # at
  /\ at' = k
  /\ FetchesIfMissing(tracedNow, k, text, fetching)
  /\ UNCHANGED <<resultTab, tracing, tracesAsked, tracedNow, open, touched, text, panelClicks>>

\* Any of the ways to move of Debugger.tla.  The nodes of the tree are mounted
\* anew whenever it is drawn, because their component is made while drawing.
GoToStep(k) ==
  /\ ShowsSteps /\ k \in 0..(Len(PanelSteps(tracedNow)) - 1) /\ k # at
  /\ at' = k /\ open' = RowsOf(tracedNow, open, k)
  /\ FetchesIfMissing(tracedNow, k, text, fetching)
  /\ UNCHANGED <<resultTab, tracing, tracesAsked, tracedNow, touched, text, panelClicks>>

Click == ShowsSteps /\ panelClicks < MaxPanelClicks /\ panelClicks' = panelClicks + 1

ToggleRow(k) ==
  /\ Click /\ k \in 0..(Len(PanelSteps(tracedNow)) - 1)
  /\ open' = (open \cup {k}) \ (open \cap {k}) /\ touched' = TRUE
  /\ UNCHANGED <<resultTab, tracing, tracesAsked, tracedNow, at, text, fetching>>

\* fetchDecompiled: the template it looked for, if the package has a text of
\* it, or the first one.  Without any, or if the call fails, a line says so;
\* after a refusal the effect asks again.
TextAnswered ==
  /\ fetching # NoText
  /\ \/ /\ text' \in {fetching, [fetching EXCEPT !.template = "first"],
                       [of |-> "apology", template |-> "none"]}
        /\ fetching' = NoText
     \/ UNCHANGED text /\ FetchesIfMissing(tracedNow, at, NoText, NoText)
  /\ UNCHANGED <<resultTab, tracing, tracesAsked, tracedNow, at, open, touched,
                 panelClicks>>

PanelsNext ==
  \/ AskTrace \/ AskFailed \/ ResetTrace \/ TextAnswered
  \/ \E c \in Traceable : \E t \in TracesOf(c) : TraceArrives(t)
  \/ \E x \in {"simulation", "trace"} : SwitchResultTab(x)
  \/ \E k \in 0..(Len(PanelSteps(tracedNow)) - 1) : GoToStep(k) \/ ToggleRow(k)

-----------------------------------------------------------------------------
PanelsTypeOK ==
  /\ resultTab \in {"simulation", "trace"} /\ tracing \in BOOLEAN
  /\ tracesAsked \in 0..MaxTraces /\ panelClicks \in 0..MaxPanelClicks
  /\ tracedNow \in UNION {TracesOf(c) : c \in Traceable} \cup {NoShown}
  /\ at \in Nat /\ open \subseteq 0..7 /\ touched \in BOOLEAN
  /\ \A x \in {text, fetching} : x \in [of : TracedPackages \cup {"none", "apology"},
                                      template : {"none", "traced", "first"}]

\* The rows: unless the user opened or closed one, the row of the step shown is
\* the only open one, on every way there: by steps, by another trace, by coming
\* back to the tab.
RowsFollow == ~touched => open = IF ShowsSteps THEN {at} ELSE {}

\* The source: where the trace comes with one, the step is marked in a file of
\* the traced package, whatever the panel had found by itself before; and it
\* asks only while it has nothing to show.
SourceFollows ==
  /\ tracedNow.decompiled => CodeShown(tracedNow) = [file |-> LocatedIn(tracedNow), of |-> tracedNow.package]
  /\ fetching # NoText => text = NoText /\ ShowsSteps

\* The contracts: each once, all that the trace fetched, used or created, and
\* besides these at most the value that the exercise shown returned.  What was
\* fetched or created shows its payload, except at a step whose own payload
\* hides it: the exercise that returned it or the archive.
ContractsFollow ==
  ShowsSteps =>
    LET list == ContractsTab(tracedNow)
        met == {tracedNow.nodes[i].contract : i \in
                 {j \in DOMAIN tracedNow.nodes : tracedNow.admitted \/ tracedNow.nodes[j].kind # "create"}}
        hides == Current(tracedNow).stepType \in {"exercise_choice", "archive_contract"}
    IN /\ \A j, k \in DOMAIN list : list[j].contract = list[k].contract => j = k
       /\ {list[k].contract : k \in DOMAIN list} =
            met \cup (IF Current(tracedNow).stepType = "exercise_choice"
                      THEN {Current(tracedNow).resulting} ELSE {})
       /\ \A k \in DOMAIN list :
            list[k].payload # "payload" => hides /\ list[k].contract = LinkOf(Current(tracedNow))

\* The authority: it is said to be there only for a command that was admitted
\* and whose creates are signed by submitters and actors alone; and at the step
\* of a command that is only a create it is said to be there.
AuthorityFollows ==
  ShowsSteps =>
    /\ AuthorityText(tracedNow) = "provided" =>
         /\ tracedNow.admitted
         /\ \A i \in DOMAIN tracedNow.nodes : tracedNow.nodes[i].kind = "create" =>
              tracedNow.nodes[i].signatories \subseteq
                tracedNow.actAs \cup UNION {tracedNow.nodes[j].actors : j \in DOMAIN tracedNow.nodes}
    /\ Current(tracedNow).stepType = "create_contract" /\ Len(tracedNow.nodes) = 1 =>
         AuthorityText(tracedNow) = "provided"

\* The tree: the actions of the steps, in their order and on their contracts.
TreeFollows ==
  ShowsSteps =>
    LET steps == SelectSeq(PanelSteps(tracedNow), LAMBDA s : s.stepType \in LedgerStepTypes)
        type == [create_contract |-> "created", exercise_choice |-> "exercised",
                 archive_contract |-> "archived"]
    IN TreeTab(tracedNow) = [k \in DOMAIN steps |-> [type |-> type[steps[k].stepType],
                                                contract |-> steps[k].contract]]

PanelsFollow ==
  RowsFollow /\ SourceFollows /\ ContractsFollow /\ AuthorityFollows /\ TreeFollows
=============================================================================
