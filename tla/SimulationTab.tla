---------------------------- MODULE SimulationTab ----------------------------
(***************************************************************************)
(* The simulation tab of the debugger (features/debugger/page.tsx,         *)
(* simulation-result.tsx, what-if-panel.tsx): the result of the last       *)
(* simulation and, below it, a second one of changed parameters to compare *)
(* it with.  An offline result is the engine's tree as the gateway         *)
(* transforms it (transformEngineTree of routes/simulate.ts), with the     *)
(* contracts that come and go; what an online one is made of is            *)
(* BuildOnlineTransactionTree of Debugger.tla.                             *)
(***************************************************************************)
EXTENDS TracePanels
LOCAL INSTANCE SequencesExt

CONSTANT MaxSimulations   \* bound: simulations and comparisons asked for

ASSUME MaxSimulationsOK == MaxSimulations \in Nat

VARIABLES
  simShown,     \* the simulation tab is the active one
  simPending,   \* the request of the page in flight
  lastRequest,  \* the request the what-if panel starts from
  simResult,    \* the result shown
  simFailed,    \* simulation.isError: the call itself failed, a banner says so
  builder,      \* showBuilder: the what-if panel is open
  whatIfAsked,  \* its request in flight
  comparison,   \* comparisonResult
  simulations   \* how many were asked for

simTabVars == <<simShown, simPending, lastRequest, simResult, simFailed, builder,
                whatIfAsked, comparison, simulations>>

-----------------------------------------------------------------------------
\* A request is numbered; a result is of a request and has the engine's nodes,
\* none when there is no tree.
NoneAsked == [number |-> 0, nodes |-> <<>>]
NoSimulation == [request |-> 0, success |-> FALSE, nodes |-> <<>>]

\* A call that is answered is a success with the tree of an admitted command
\* or, when the engine refused it, without a tree; or it is a failure.
SimulationsOf(request) ==
  {[request |-> request.number, success |-> TRUE, nodes |-> n] : n \in {request.nodes, <<>>}}
    \cup {[request |-> request.number, success |-> FALSE, nodes |-> <<>>]}

SimId(i) == [base |-> i, at |-> 0, archive |-> FALSE]

\* transformEngineTree: creates and exercises become events, without archives.
TransformEngineTree(nodes) ==
  [e \in {SimId(i) : i \in {j \in DOMAIN nodes : nodes[j].kind # "fetch"}} |->
     [type |-> IF nodes[e.base].kind = "create" THEN "created" ELSE "exercised",
      consuming |-> nodes[e.base].kind = "consuming",
      contract |-> nodes[e.base].contract, number |-> e.base,
      childEventIds |-> IF e.base = 1 /\ Len(nodes) > 1
                        THEN [k \in 1..(Len(nodes) - 1) |-> SimId(k + 1)] ELSE <<>>]]

\* Its stateDiff: what any exercise consumes and what is created anywhere.
DiffInputs(nodes) ==
  {nodes[i].contract : i \in {j \in DOMAIN nodes : nodes[j].kind = "consuming"}}
DiffOutputs(nodes) ==
  {nodes[i].contract : i \in {j \in DOMAIN nodes : nodes[j].kind = "create"}}

\* What the TreeNode of an event opens to.
NodeSections(e) ==
  IF e.type = "created" THEN {"payload", "signatories", "observers"}
  ELSE {"consuming", "actingParties", "choiceArgument"}

\* SimpleTransactionTree: the rows.
TreeRows(nodes) ==
  LET events == TransformEngineTree(nodes)
      ids == TreeOf(IF nodes = <<>> THEN <<>> ELSE <<SimId(1)>>, events)
  IN [k \in DOMAIN ids |-> [contract |-> events[ids[k]].contract,
                            consuming |-> events[ids[k]].consuming,
                            opensTo |-> NodeSections(events[ids[k]])]]

\* SimulationResultView shows the tree, and beside it the contracts, of a
\* success that has one.
ViewedRows(r) == IF r.success THEN TreeRows(r.nodes) ELSE <<>>
ViewedInputs(r) == IF r.success THEN DiffInputs(r.nodes) ELSE {}
ViewedOutputs(r) == IF r.success THEN DiffOutputs(r.nodes) ELSE {}

\* ResultComparison.  The contracts of a simulation have ids of its own.
OutputIds(r) == {<<r.request, c>> : c \in DiffOutputs(r.nodes)}
OnlyIn(r, other) == OutputIds(r) \ OutputIds(other)

-----------------------------------------------------------------------------
SimTabInit(on) ==
  /\ simShown = TRUE /\ simPending = NoneAsked /\ lastRequest = NoneAsked
  /\ simResult = NoSimulation /\ simFailed = FALSE /\ builder = FALSE
  /\ whatIfAsked = NoneAsked /\ comparison = NoSimulation
  /\ simulations = IF on THEN 0 ELSE MaxSimulations

\* The what-if panel is drawn under a result while no simulation runs; what it
\* holds goes with it, an answer under way too.
WhatIfGone == builder' = FALSE /\ whatIfAsked' = NoneAsked /\ comparison' = NoSimulation
WhatIfKept == UNCHANGED <<builder, whatIfAsked, comparison>>
WhatIfDrawn == simShown /\ simResult # NoSimulation /\ simPending = NoneAsked

NewRequest(nodes) == [number |-> simulations + 1, nodes |-> nodes]

PanelStays(c) ==                       \* mutant: drawn while a simulation runs
  /\ simPending = NoneAsked /\ simulations < MaxSimulations
  /\ simulations' = simulations + 1 /\ simShown' = TRUE /\ simFailed' = FALSE
  /\ simPending' = NewRequest(c.nodes) /\ lastRequest' = simPending'
  /\ WhatIfKept /\ UNCHANGED simResult

\* handleSimulate, from any tab.
Simulate(c) ==
  /\ simPending = NoneAsked /\ simulations < MaxSimulations
  /\ simulations' = simulations + 1 /\ simShown' = TRUE /\ simFailed' = FALSE
  /\ simPending' = NewRequest(c.nodes) /\ lastRequest' = simPending'
  /\ WhatIfGone /\ UNCHANGED simResult

\* The panel comes back as new, under the new result or, after a failed call,
\* under the one before.
SimulationAnswered ==
  /\ simPending # NoneAsked /\ simPending' = NoneAsked
  /\ \/ simResult' \in SimulationsOf(simPending) /\ UNCHANGED simFailed
     \/ simFailed' = TRUE /\ UNCHANGED simResult
  /\ WhatIfKept /\ UNCHANGED <<simShown, lastRequest, simulations>>

\* Another tab, by a click or by asking for a trace or an execution, or back.
SwitchSimTab ==
  /\ simShown' = ~simShown /\ WhatIfGone
  /\ UNCHANGED <<simPending, lastRequest, simResult, simFailed, simulations>>

\* resetDebugger, whose button is there with any result, of another tab too.  A
\* call in flight goes on, and its answer is shown.
ResetSimulation ==
  /\ simResult' = NoSimulation /\ lastRequest' = NoneAsked /\ simShown' = TRUE
  /\ WhatIfGone /\ UNCHANGED <<simPending, simFailed, simulations>>

OpenWhatIf ==
  /\ WhatIfDrawn /\ ~builder /\ builder' = TRUE
  /\ UNCHANGED <<simShown, simPending, lastRequest, simResult, simFailed,
                 whatIfAsked, comparison, simulations>>

\* Closing forgets the comparison; one that is under way is kept when it comes.
CloseWhatIf ==
  /\ WhatIfDrawn /\ builder /\ builder' = FALSE /\ comparison' = NoSimulation
  /\ UNCHANGED <<simShown, simPending, lastRequest, simResult, simFailed,
                 whatIfAsked, simulations>>

AskWhatIf(c) ==
  /\ WhatIfDrawn /\ builder /\ whatIfAsked = NoneAsked /\ simulations < MaxSimulations
  /\ simulations' = simulations + 1 /\ whatIfAsked' = NewRequest(c.nodes)
  /\ UNCHANGED <<simShown, simPending, lastRequest, simResult, simFailed,
                 builder, comparison>>

\* An error leaves the comparison that was there.
WhatIfAnswered ==
  /\ whatIfAsked # NoneAsked /\ whatIfAsked' = NoneAsked
  /\ comparison' \in SimulationsOf(whatIfAsked) \cup {comparison}
  /\ UNCHANGED <<simShown, simPending, lastRequest, simResult, simFailed,
                 builder, simulations>>

SimTabNext ==
  \/ SimulationAnswered \/ SwitchSimTab \/ ResetSimulation
  \/ OpenWhatIf \/ CloseWhatIf \/ WhatIfAnswered
  \/ \E c \in Traceable : Simulate(c) \/ AskWhatIf(c)

-----------------------------------------------------------------------------
SimTabTypeOK ==
  /\ simShown \in BOOLEAN /\ simFailed \in BOOLEAN /\ builder \in BOOLEAN
  /\ simulations \in 0..MaxSimulations
  /\ \A r \in {simPending, lastRequest, whatIfAsked} :
       r.number \in 0..MaxSimulations
       /\ r.nodes \in {c.nodes : c \in Traceable} \cup {<<>>}
  /\ \A r \in {simResult, comparison} :
       r.request \in 0..MaxSimulations /\ r.success \in BOOLEAN

\* A comparison is with the result above it: it was asked for after that result
\* came, although either call may fail, be answered late or be overtaken by a
\* reset, another tab or another simulation.  Its lists of differences then
\* hold every output of both, since no two simulations name a contract alike.
ComparisonFollows ==
  comparison # NoSimulation =>
    /\ simResult # NoSimulation /\ comparison.request > simResult.request
    /\ OnlyIn(simResult, comparison) = OutputIds(simResult)
    /\ OnlyIn(comparison, simResult) = OutputIds(comparison)

\* The panel starts from the request that the result above it answers, unless
\* a later call failed or the page was reset while the call was in flight.
RequestFollows ==
  WhatIfDrawn /\ ~simFailed => lastRequest.number \in {simResult.request, 0}

\* The contracts beside a tree are those of its rows: the inputs those of the
\* consuming exercises, the outputs those of the creates.
ContractsOfRows ==
  \A r \in {simResult, comparison} :
    LET rows == ViewedRows(r)
        of(P(_)) == {rows[k].contract : k \in {j \in DOMAIN rows : P(rows[j])}}
        consuming(row) == row.consuming
        created(row) == "payload" \in row.opensTo
    IN ViewedInputs(r) = of(consuming) /\ ViewedOutputs(r) = of(created)

SimulationFollows == ComparisonFollows /\ RequestFollows /\ ContractsOfRows

SimTabSpec == SimTabInit(TRUE) /\ [][SimTabNext]_simTabVars
=============================================================================
