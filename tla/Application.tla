----------------------------- MODULE Application -----------------------------
(***************************************************************************)
(* The parts of the application that share no state, checked in one run:   *)
(* an initial state chooses one of them, and only it takes steps.  Letting *)
(* them interleave would add states and no behaviour of any part.  For     *)
(* what shares state see the modules that compose it: EventStream,         *)
(* Sessions, and Browser here, which puts the two stores together.         *)
(***************************************************************************)
EXTENDS Browser, Collecting, TransactionDetail, CiPipeline, Debugger,
        CommandForm, Views, Arguments, EngineInput, TypeNames, SandboxPage,
        TemplateExplorer, ClauseText, PackageReply, SimulationTab, ContractPanel

VARIABLE part

Parts == {"browser", "replies", "history", "detail", "pages", "ci",
          "debugger", "form", "privacy", "argument", "input", "field",
          "events", "sandboxPage", "explorer", "txPage",
          "clause", "package", "panels", "simTab", "errors", "contracts"}

vars == <<part, browserVars, repliesVars, historyVars, detailVars, pagesVars,
          ciVars, debuggerVars, formVars, privacyVars, argVars, inputVars,
          fieldVars, eventsVars, sandboxPageVars, explorerVars, txPageVars,
          clauseVars, packageVars, panelVars, simTabVars, errorVars,
          contractsVars>>

Init ==
  /\ part \in Parts
  /\ BrowserInit(part = "browser")
  /\ RepliesInit
  /\ HistoryInit
  /\ DetailInit
  /\ PagesInit
  /\ CiInit
  /\ DebuggerInit(part = "debugger")
  /\ FormInit
  /\ PrivacyInit
  /\ ArgInit(part = "argument")
  /\ InputInit
  /\ FieldInit(part = "field")
  /\ EventsInit(part = "events")
  /\ SandboxPageInit(part = "sandboxPage")
  /\ ExplorerInit(part = "explorer")
  /\ TxPageInit(part = "txPage")
  /\ ClauseInit(part = "clause")
  /\ PackageInit(part = "package")
  /\ PanelsInit(part = "panels")
  /\ SimTabInit(part = "simTab")
  /\ ErrorInit(part = "errors")
  /\ ContractsInit(part = "contracts")

\* Only this part takes a step.
Only(p) ==
  /\ part = p /\ UNCHANGED part
  /\ IF p = "browser"     THEN TRUE ELSE UNCHANGED browserVars
  /\ IF p = "replies"     THEN TRUE ELSE UNCHANGED repliesVars
  /\ IF p = "history"     THEN TRUE ELSE UNCHANGED historyVars
  /\ IF p = "detail"      THEN TRUE ELSE UNCHANGED detailVars
  /\ IF p = "pages"       THEN TRUE ELSE UNCHANGED pagesVars
  /\ IF p = "ci"          THEN TRUE ELSE UNCHANGED ciVars
  /\ IF p = "debugger"    THEN TRUE ELSE UNCHANGED debuggerVars
  /\ IF p = "form"        THEN TRUE ELSE UNCHANGED formVars
  /\ IF p = "privacy"     THEN TRUE ELSE UNCHANGED privacyVars
  /\ IF p = "argument"    THEN TRUE ELSE UNCHANGED argVars
  /\ IF p = "input"       THEN TRUE ELSE UNCHANGED inputVars
  /\ IF p = "field"       THEN TRUE ELSE UNCHANGED fieldVars
  /\ IF p = "events"      THEN TRUE ELSE UNCHANGED eventsVars
  /\ IF p = "sandboxPage" THEN TRUE ELSE UNCHANGED sandboxPageVars
  /\ IF p = "explorer"    THEN TRUE ELSE UNCHANGED explorerVars
  /\ IF p = "txPage"      THEN TRUE ELSE UNCHANGED txPageVars
  /\ IF p = "clause"      THEN TRUE ELSE UNCHANGED clauseVars
  /\ IF p = "package"     THEN TRUE ELSE UNCHANGED packageVars
  /\ IF p = "panels"      THEN TRUE ELSE UNCHANGED panelVars
  /\ IF p = "simTab"      THEN TRUE ELSE UNCHANGED simTabVars
  /\ IF p = "errors"      THEN TRUE ELSE UNCHANGED errorVars
  /\ IF p = "contracts"   THEN TRUE ELSE UNCHANGED contractsVars

Next ==
  \/ Only("browser") /\ BrowserNext
  \/ Only("replies") /\ RepliesNext
  \/ Only("history") /\ HistoryNext
  \/ Only("detail") /\ DetailNext
  \/ Only("pages") /\ PagesNext
  \/ Only("ci") /\ CiNext
  \/ Only("debugger") /\ DebuggerNext
  \/ Only("form") /\ FormNext
  \/ Only("privacy") /\ PrivacyNext
  \/ Only("argument") /\ ArgNext
  \/ Only("input") /\ InputNext
  \/ Only("field") /\ Inside
  \/ Only("events") /\ EventsNext
  \/ Only("sandboxPage") /\ SandboxPageNext
  \/ Only("explorer") /\ ExplorerNext
  \/ Only("txPage") /\ TxPageNext
  \/ Only("clause") /\ ClauseNext
  \/ Only("package") /\ PackageNext
  \/ Only("panels") /\ PanelsNext
  \/ Only("simTab") /\ SimTabNext
  \/ Only("errors") /\ ErrorNext
  \/ Only("contracts") /\ ContractsNext

\* What these parts must do in the end, when they have it to do.  A timer has
\* fairness of its own: it fires also while a call that was cancelled may fail.
\* A call to the participant has no deadline and may stay unanswered: nothing
\* that waits for one is fair, and with it no step of the other parts.
Fairness ==
  /\ WF_browserVars(part = "browser" /\ Pending)
  /\ WF_repliesVars(part = "replies" /\ CancelledCallEnds)
  /\ WF_repliesVars(part = "replies" /\ TimeoutFires)

Spec == Init /\ [][Next]_vars /\ Fairness

-----------------------------------------------------------------------------
\* Every variable of the part that takes steps has its type.
TypeOK ==
  CASE part = "browser"     -> BrowserTypeOK
    [] part = "replies"     -> RepliesTypeOK
    [] part = "history"     -> HistoryTypeOK
    [] part = "detail"      -> DetailTypeOK
    [] part = "pages"       -> PagesTypeOK
    [] part = "ci"          -> CiTypeOK
    [] part = "debugger"    -> DebuggerTypeOK
    [] part = "form"        -> FormTypeOK
    [] part = "privacy"     -> PrivacyTypeOK
    [] part = "argument"    -> ArgTypeOK
    [] part = "input"       -> InputTypeOK
    [] part = "field"       -> FieldTypeOK
    [] part = "events"      -> EventsTypeOK
    [] part = "sandboxPage" -> SandboxPageTypeOK
    [] part = "explorer"    -> ExplorerTypeOK
    [] part = "txPage"      -> TxPageTypeOK
    [] part = "clause"      -> ClauseTypeOK
    [] part = "package"     -> PackageTypeOK
    [] part = "panels"      -> PanelsTypeOK
    [] part = "simTab"      -> SimTabTypeOK
    [] part = "errors"      -> ErrorTypeOK
    [] part = "contracts"   -> ContractsTypeOK

\* A package is shown as it was compiled: its modules and templates with their
\* choices, and the parties and conditions of its clauses.
PackageRead ==
  CASE part = "package" -> PackageShown
    [] part = "clause"  -> ClausesShown
    [] OTHER            -> TRUE

\* Events and steps are drawn as they were executed.  The tree of the
\* transaction page has those of the transaction.  The debugger shows one
\* execution, and its panels the step of it that is current: the trace and the
\* tree, the rows, the source, the contracts and the authority of the trace tab,
\* the result and the comparison of the other.
EventsDrawn ==
  CASE part = "detail"   -> TreeKept
    [] part = "debugger" -> ExecutionShown
    [] part = "panels"   -> PanelsFollow
    [] part = "simTab"   -> SimulationFollows
    [] OTHER             -> TRUE

\* A command is what its form shows: a field is drawn as its type, and what is
\* entered there is read as a value of that type.
FieldsFaithful ==
  CASE part = "field"    -> InputsMatch
    [] part = "argument" -> ArgumentsTyped
    [] OTHER             -> TRUE

\* A stream that is not established, or a reply that a participant's stream is
\* collected for.
Unsettled ==
  CASE part = "browser" -> ~StreamSettled
    [] part = "replies" -> RepliesBusy
    [] OTHER            -> FALSE

\* In the end a connected browser is streaming and keeps its socket, whatever
\* was dropped, refused, stopped and restarted on the way, unless every attempt
\* failed that it had, and then it shows that it is disconnected: every loss
\* before the last one leaves a timer behind that opens a new socket.  And in
\* the end no request is waiting for a stream of the participant, although
\* that may stay silent or fail half way or be cancelled: it has a timeout.
EverythingSettles == <>[]~Unsettled
=============================================================================
