------------------------------ MODULE Debugger ------------------------------
(***************************************************************************)
(* The debugger: a command is simulated, traced or executed.  The page     *)
(* (features/debugger/page.tsx, hooks.ts, steps-panel.tsx) asks the        *)
(* gateway (routes/simulate.ts, trace.ts, execute.ts), which asks the      *)
(* participant or, for a trace and an offline simulation, the engine       *)
(* service (EngineExecutor.scala, TraceRoutes.scala).  What the Daml-LF    *)
(* engine makes of the command is chosen once; whether the ledger still    *)
(* admits it is a choice of every request.                                 *)
(***************************************************************************)
EXTENDS EventTree
LOCAL INSTANCE SequencesExt

CONSTANTS
  MaxNodes,        \* bound: the nodes of the engine's transaction
  MaxRequests      \* bound: the requests a user makes

ASSUME DebuggerConstantsOK == MaxNodes \in Nat \ {0} /\ MaxRequests \in Nat

VARIABLES
  lf,        \* the engine's transaction for the command: its nodes, depth first
  asked,     \* how many requests were made
  pending,   \* the request in flight; the buttons are disabled meanwhile
  sim,       \* simResult, and what the engine or the participant had said
  exec,      \* lastExecuteResult
  trace,     \* the ExecutionTrace that is shown
  current    \* currentStep, counted from 0

debuggerVars == <<lf, asked, pending, sim, exec, trace, current>>

-----------------------------------------------------------------------------
(***************************************************************************)
(* A Daml-LF transaction.  An exercise has consequences, a rollback has    *)
(* what was undone; a lookup by key may find nothing.                      *)
(***************************************************************************)

Exercises == {"consuming", "nonconsuming"}
Inner     == Exercises \cup {"rollback"}
NodeKinds == Inner \cup {"create", "fetch", "found", "missing"}

\* One command makes one root, node 1.
LfTransactions ==
  UNION {{t \in [1..n -> [kind : NodeKinds, parent : 0..(MaxNodes - 1)]] :
            /\ t[1].parent = 0 /\ t[1].kind \in Exercises \cup {"create"}
            /\ \A i \in 2..n :
                 /\ t[i].parent \in 1..(i - 1) /\ t[t[i].parent].kind \in Inner
                 /\ \A j \in (t[i].parent + 1)..(i - 1) :
                      t[j].parent >= t[i].parent} : n \in 1..MaxNodes}

ChildrenOf(t, i) ==
  FlattenSeq([j \in DOMAIN t |-> IF t[j].parent = i THEN <<j>> ELSE <<>>])

-----------------------------------------------------------------------------
(***************************************************************************)
(* The engine service.                                                     *)
(***************************************************************************)

\* A TraceStep; node is 0 when it is not about a node.
Taken(stepType, node, passed) ==
  [stepType |-> stepType, node |-> node, passed |-> passed]

StepsOf(node, i) ==
  CASE node.kind = "consuming" ->
         <<Taken("exercise_choice", i, TRUE), Taken("archive_contract", i, TRUE)>>
    [] node.kind = "nonconsuming" -> <<Taken("exercise_choice", i, TRUE)>>
    [] node.kind = "create"       -> <<Taken("create_contract", i, TRUE)>>
    [] node.kind \in {"fetch", "found"} -> <<Taken("fetch_contract", i, TRUE)>>
    [] node.kind = "missing"      -> <<Taken("fetch_contract", i, FALSE)>>

\* walkNode from the root: a rollback is passed over with all it contains.
WalkNode(t) ==
  LET below == [i \in DOMAIN t |-> ChildrenOf(t, i)]
      walk[i \in DOMAIN t] ==
        IF t[i].kind = "rollback" THEN <<>>
        ELSE StepsOf(t[i], i)
               \o FlattenSeq([k \in DOMAIN below[i] |-> walk[below[i][k]]])
  IN walk[1]

\* The steps up to the evaluation.  An exercise fetches its contract, unless it
\* is refused before that; a fetch that finds nothing is an exception.
Opening(t, decoded, fetched) ==
  <<Taken("fetch_package", 0, decoded), Taken("evaluate_expression", 0, TRUE)>>
    \o IF t[1].kind = "create" \/ ~fetched THEN <<>>
       ELSE <<Taken("fetch_contract", 0, TRUE)>>

NodeId(i) == [base |-> i, at |-> 0, archive |-> FALSE]

EventOf(t, i) ==
  LET below == ChildrenOf(t, i)
  IN [type |-> IF t[i].kind = "create" THEN "created" ELSE "exercised",
      consuming |-> t[i].kind = "consuming",
      contract |-> IF t[i].kind = "create" THEN i ELSE 0, number |-> i,
      childEventIds |-> IF t[i].kind = "create" THEN <<>>
                        ELSE [k \in DOMAIN below |-> NodeId(below[k])]]

\* convertVersionedTransaction: every node has an id, but only creates and
\* exercises become events, those of a rollback too.
ConvertVersionedTransaction(t) ==
  LET kept == {i \in DOMAIN t : t[i].kind \in Exercises \cup {"create"}}
  IN [rootEventIds |-> <<NodeId(1)>>,
      eventsById |-> [id \in {NodeId(i) : i \in kept} |-> EventOf(t, id.base)]]

NoTree == [rootEventIds |-> <<>>, eventsById |-> <<>>]

\* tryRealEngine, when no exception ends it.  A package that cannot be decoded
\* is only a step that did not pass.
TryRealEngine(t, decoded, fetched, admitted) ==
  IF admitted
  THEN [steps |-> Opening(t, decoded, TRUE) \o WalkNode(t)
                    \o <<Taken("evaluate_expression", 0, TRUE)>>,
        tree |-> ConvertVersionedTransaction(t), error |-> FALSE]
  ELSE [steps |-> Opening(t, decoded, fetched)
                    \o <<Taken("evaluate_expression", 0, FALSE)>>,
        tree |-> NoTree, error |-> TRUE]

\* tryRealEngineSimulation.  Here an exception is a result too: the engine
\* service answers 200 whether or not the command was admitted.
TryRealEngineSimulation(t, admitted) ==
  [success |-> admitted,
   tree |-> IF admitted THEN ConvertVersionedTransaction(t) ELSE NoTree]

-----------------------------------------------------------------------------
(***************************************************************************)
(* The gateway.  It answers "failed" when a call to the participant, a     *)
(* package or the engine service fails (a 5xx, on which the page shows a   *)
(* banner and keeps what it had), or gives one of the results.             *)
(***************************************************************************)

NormalizeEngineTrace(raw) ==
  [raw EXCEPT !.tree.eventsById = Normalized(@)]

\* What POST /trace may answer with.
TraceResults ==
  {NormalizeEngineTrace(TryRealEngine(lf, decoded, fetched, admitted)) :
     decoded, fetched, admitted \in BOOLEAN}

SyntheticEvent(type, i, children) ==
  [type |-> type, consuming |-> type = "exercised", contract |-> i,
   number |-> i, childEventIds |-> children]

\* Of a prepared submission the gateway knows only the command: an exercise is
\* shown consuming its contract and creating another.
BuildOnlineTransactionTree(t) ==
  [rootEventIds |-> <<NodeId(1)>>,
   eventsById |->
     IF t[1].kind = "create"
     THEN [id \in {NodeId(1)} |-> SyntheticEvent("created", 1, <<>>)]
     ELSE [id \in {NodeId(1), NodeId(2), NodeId(3)} |->
             CASE id.base = 1 -> SyntheticEvent("exercised", 1,
                                                <<NodeId(2), NodeId(3)>>)
               [] id.base = 2 -> SyntheticEvent("archived", 2, <<>>)
               [] id.base = 3 -> SyntheticEvent("created", 3, <<>>)]]

Simulated(mode, success, tree, admitted) ==
  [mode |-> mode, success |-> success, tree |-> tree, admitted |-> admitted]

NoResult == Simulated("none", FALSE, NoTree, FALSE)

\* A submission that the participant refuses to prepare is a failed result.
SimulateOnline ==
  {Simulated("online", TRUE, BuildOnlineTransactionTree(lf), TRUE),
   Simulated("online", FALSE, NoTree, FALSE)}

\* A status other than 200 of the engine service is a failed result; anything
\* else is answered as a success.
SimulateOffline ==
  {Simulated("offline", TRUE, TryRealEngineSimulation(lf, admitted).tree,
             admitted) : admitted \in BOOLEAN}
    \cup {Simulated("offline", FALSE, NoTree, FALSE)}

-----------------------------------------------------------------------------
(***************************************************************************)
(* The page.                                                               *)
(***************************************************************************)

NoTrace == [steps |-> <<>>, tree |-> NoTree, error |-> FALSE]

DebuggerInit(on) ==
  /\ lf \in IF on THEN LfTransactions ELSE {<<>>}
  /\ asked = 0 /\ pending = "none"
  /\ sim = NoResult /\ exec = "none" /\ trace = NoTrace /\ current = 0

Requests == {"online", "offline", "trace", "execute"}

\* handleSimulate, handleTrace and handleExecute.
Request(kind) ==
  /\ pending = "none" /\ asked < MaxRequests /\ lf # <<>>
  /\ pending' = kind /\ asked' = asked + 1
  /\ UNCHANGED <<lf, sim, exec, trace, current>>

SimulateAnswered ==
  /\ pending \in {"online", "offline"}
  /\ pending' = "none"
  /\ sim' \in {sim} \cup IF pending = "online" THEN SimulateOnline
                                                ELSE SimulateOffline
  /\ UNCHANGED <<lf, asked, exec, trace, current>>

TraceKept ==                         \* mutant: the step stays where it was
  /\ pending = "trace"
  /\ pending' = "none"
  /\ trace' \in {trace} \cup TraceResults
  /\ UNCHANGED <<lf, asked, sim, exec, current>>

TraceAnswered ==
  /\ pending = "trace"
  /\ pending' = "none"
  /\ \/ trace' \in TraceResults /\ current' = 0
     \/ UNCHANGED <<trace, current>>
  /\ UNCHANGED <<lf, asked, sim, exec>>

\* A refusal is an answer; success refreshes the bootstrap data as well, which
\* is RefreshBootstrap of ConnectionStore.
ExecuteAnswered ==
  /\ pending = "execute"
  /\ pending' = "none" /\ exec' \in {exec, "committed", "refused"}
  /\ UNCHANGED <<lf, asked, sim, trace, current>>

\* resetDebugger leaves the current step and the request in flight alone.
ResetDebugger ==
  /\ sim # NoResult \/ trace # NoTrace \/ exec # "none"
  /\ sim' = NoResult /\ exec' = "none" /\ trace' = NoTrace
  /\ UNCHANGED <<lf, asked, pending, current>>

\* useTraceNavigation.
Clamp(n) ==
  LET last == Len(trace.steps) - 1
      low  == IF n < last THEN n ELSE last
  IN IF low > 0 THEN low ELSE 0

FailedSteps == {k \in DOMAIN trace.steps : ~trace.steps[k].passed}

\* stepForward, stepBack, runToFailure, runToEnd, reset and setStep, by key,
\* button or a click on a step; none of them is there without a trace.
Navigate ==
  /\ trace # NoTrace
  /\ current' \in {Clamp(current + 1), Clamp(current - 1),
                   Clamp(Len(trace.steps) - 1), 0}
                  \cup {k - 1 : k \in {j \in FailedSteps : \A i \in FailedSteps : j <= i}}
                  \cup {Clamp(k - 1) : k \in DOMAIN trace.steps}
  /\ UNCHANGED <<lf, asked, pending, sim, exec, trace>>

DebuggerAnswered == SimulateAnswered \/ TraceAnswered \/ ExecuteAnswered

DebuggerNext ==
  (\E kind \in Requests : Request(kind)) \/ DebuggerAnswered \/ ResetDebugger \/ Navigate

-----------------------------------------------------------------------------
DebuggerTypeOK ==
  /\ lf = <<>> \/ lf \in LfTransactions
  /\ asked \in 0..MaxRequests
  /\ pending \in {"none"} \cup Requests /\ exec \in {"none", "committed", "refused"}
  /\ sim = NoResult \/ sim \in [mode : {"online", "offline"}, success : BOOLEAN,
       tree : {sim.tree}, admitted : BOOLEAN]
  /\ trace.steps = <<>> \/ trace.steps \in Seq([stepType : {"fetch_package", "evaluate_expression",
       "fetch_contract", "exercise_choice", "archive_contract",
       "create_contract"}, node : 0..MaxNodes, passed : BOOLEAN])
  /\ trace.error \in BOOLEAN /\ current \in Nat

\* A tree as the steps would tell it.
Told(tree) ==
  LET ids == TreeOf(tree.rootEventIds, tree.eventsById)
      step == [created |-> "create_contract", exercised |-> "exercise_choice",
               archived |-> "archive_contract"]
  IN [k \in DOMAIN ids |-> [stepType |-> step[tree.eventsById[ids[k]].type],
                            node |-> ids[k].base]]

\* What the steps tell of the ledger.
LedgerSteps(steps, types) ==
  FlattenSeq([k \in DOMAIN steps |->
    IF steps[k].stepType \in types
    THEN <<[stepType |-> steps[k].stepType, node |-> steps[k].node]>> ELSE <<>>])

\* A trace that is shown is one execution: the current step is one of its
\* steps, although the step outlives the trace when the page is reset and when
\* a shorter trace replaces it; its steps tell the ledger actions of the tree
\* beside them, in the same order, each archive right after its exercise, and
\* nothing of what was rolled back; and it has an error exactly if it ends with
\* a step that did not pass and has no tree.  The tree of an offline simulation
\* has the same actions, without the archives.
ExecutionShown ==
  /\ trace # NoTrace =>
       /\ current \in 0..(Len(trace.steps) - 1)
       /\ Told(trace.tree) = LedgerSteps(trace.steps,
            {"create_contract", "exercise_choice", "archive_contract"})
       /\ trace.error <=> ~trace.steps[Len(trace.steps)].passed
       /\ trace.error <=> trace.tree = NoTree
  /\ sim.mode = "offline" /\ sim.admitted =>
       Told(sim.tree) = LedgerSteps(WalkNode(lf),
                                    {"create_contract", "exercise_choice"})

\* A simulation is shown as a success only if the engine or the participant
\* admitted the command.  The code does not keep this.
SuccessAdmitted == sim.success => sim.admitted

DebuggerSpec == DebuggerInit(TRUE) /\ [][DebuggerNext]_debuggerVars
=============================================================================
