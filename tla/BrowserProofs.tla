---------------------------- MODULE BrowserProofs ----------------------------
(***************************************************************************)
(* Proofs about the two ends of a request.  The browser, for every number  *)
(* of sockets, updates, ledgers and requests: its list of events is        *)
(* faithful, at most one socket is alive, and it shows what it is          *)
(* connected to.  First the connection store, then facts about lists, then *)
(* one lemma per function of the event stream store, then the steps of the *)
(* browser, which run these functions beside the connection store.  And    *)
(* what the gateway collects before it answers: a reply made from a        *)
(* stream, the pages cut from snapshots of the contracts, and what it      *)
(* tells of contracts, a chain of them and the lifecycle of one, for every *)
(* ledger that grows while the gateway asks.                               *)
(***************************************************************************)
EXTENDS Browser, Collecting, ContractPanel, Induction, FunctionTheorems, FiniteSetTheorems,
        SequenceTheorems, TLAPS

-----------------------------------------------------------------------------
(***************************************************************************)
(* The connection store, for every set of ledgers, every number of         *)
(* functions under way and of attempts: ConnectionInv is inductive.  One   *)
(* lemma per step of the store and of the gateway.                         *)
(***************************************************************************)

\* What a flow in its shape may be.
LEMMA ShapeFacts ==
  ASSUME NEW f \in Flow, FlowShape(f)
  PROVE  /\ f.kind = "none" <=> f.at = "none"
         /\ f.at = "post" => f.kind \in {"connect", "create", "check", "page"}
         /\ f.at = "create" => f.kind = "create"
         /\ f.at = "get" => f.kind \in {"check", "refresh"}
         /\ f.at = "verify" => f.kind = "check"
         /\ f.at = "delete" => f.kind \in {"check", "delete"}
         /\ f.at = "timer" => f.kind = "page"
         /\ f.answer # "none" => f.at \notin {"none", "timer"}
<1>1. /\ f.kind \in {"none", "connect", "create", "check", "refresh", "delete", "page"}
      /\ f.at \in Awaits[f.kind]
  BY DEF Flow, FlowShape
<1>2. /\ f.kind = "none" => f.at = "none"
      /\ f.kind = "connect" => f.at = "post"
      /\ f.kind = "create" => f.at \in {"create", "post"}
      /\ f.kind = "check" => f.at \in {"get", "verify", "delete", "post"}
      /\ f.kind = "refresh" => f.at = "get"
      /\ f.kind = "delete" => f.at = "delete"
      /\ f.kind = "page" => f.at \in {"timer", "post"}
  BY <1>1 DEF Awaits
<1>3. f.at \in {"none", "timer"} => f.answer = "none"
  BY DEF FlowShape
<1>4. QED
  BY <1>1, <1>2, <1>3

\* No function at all.
LEMMA NoFlowFacts ==
  /\ NoFlow \in Flow /\ FlowShape(NoFlow)
  /\ NoFlow.kind = "none" /\ NoFlow.at = "none"
<1>1. NoFlow \in Flow
  BY ConnectionConstantsOK DEF NoFlow, Flow
<1>2. /\ NoFlow.kind = "none" /\ NoFlow.at = "none" /\ NoFlow.answer = "none"
  BY DEF NoFlow
<1>3. NoFlow.at \in Awaits[NoFlow.kind]
  BY <1>2 DEF Awaits
<1>4. QED
  BY <1>1, <1>2, <1>3 DEF FlowShape

\* A function that begins.
LEMMA NewFlowFacts ==
  ASSUME NEW kind \in {"connect", "create", "check", "refresh", "delete", "page"},
         NEW at \in {"post", "create", "get", "delete", "timer"},
         NEW target \in Targets \cup {Nothing}, at \in Awaits[kind],
         at \in {"post", "timer"} => target \in Targets
  PROVE  /\ NewFlow(kind, at, target) \in Flow
         /\ FlowShape(NewFlow(kind, at, target))
         /\ NewFlow(kind, at, target).kind = kind
         /\ NewFlow(kind, at, target).at = at
         /\ NewFlow(kind, at, target).target = target
         /\ NewFlow(kind, at, target).answer = "none"
<1> DEFINE f == NewFlow(kind, at, target)
<1>1. /\ f \in Flow /\ f.kind = kind /\ f.at = at /\ f.target = target
      /\ f.answer = "none" /\ f.tries = 0
  BY NoFlowFacts DEF NewFlow, NoFlow, Flow
<1>2. at = "timer" => f.tries < MaxRetries
  BY <1>1, ConnectionConstantsOK
<1> HIDE DEF f
<1>3. FlowShape(f)
  BY <1>1, <1>2 DEF FlowShape
<1>4. QED
  BY <1>1, <1>3 DEF f

\* A function that goes on with its next request or with the timer.
LEMMA AwaitingFacts ==
  ASSUME NEW f \in Flow, NEW at \in {"post", "delete", "timer"}
  PROVE  LET g == Awaiting(f, at)
         IN /\ g \in Flow /\ g.kind = f.kind /\ g.at = at
            /\ g.target = f.target /\ g.tries = f.tries
            /\ g.answer = "none" /\ g.found = Nothing
BY DEF Awaiting, Flow

\* One function changes.
LEMMA FlowChange ==
  ASSUME ConnectionTypeOK, NEW n \in Flows, NEW f \in Flow,
         flow' = [flow EXCEPT ![n] = f]
  PROVE  /\ flow' \in [Flows -> Flow] /\ flow'[n] = f
         /\ \A m \in Flows : m # n => flow'[m] = flow[m]
BY DEF ConnectionTypeOK

LEMMA AnswerChange ==
  ASSUME ConnectionTypeOK, NEW n \in Flows,
         NEW answer \in {"none", "working", "ok", "failed", "lost"},
         NEW found \in Targets \cup {Nothing},
         Answered(n, answer, found)
  PROVE  /\ flow' \in [Flows -> Flow]
         /\ \A m \in Flows : m # n => flow'[m] = flow[m]
         /\ flow'[n] \in Flow /\ flow'[n].kind = flow[n].kind /\ flow'[n].at = flow[n].at
         /\ flow'[n].target = flow[n].target /\ flow'[n].tries = flow[n].tries
         /\ flow'[n].answer = answer /\ flow'[n].found = found
<1> DEFINE f == [flow[n] EXCEPT !.answer = answer, !.found = found]
<1>1. flow[n] \in Flow /\ flow' = [flow EXCEPT ![n] = f]
  BY DEF ConnectionTypeOK, Answered
<1>2. /\ f \in Flow /\ f.kind = flow[n].kind /\ f.at = flow[n].at
      /\ f.target = flow[n].target /\ f.tries = flow[n].tries
      /\ f.answer = answer /\ f.found = found
  BY <1>1 DEF Flow
<1> HIDE DEF f
<1>3. QED
  BY <1>1, <1>2, FlowChange

\* The request that is under way when nothing overlapped.
LEMMA OnlyRequest ==
  ASSUME Calm, NEW n \in Flows, RequestingFlow(n)
  PROVE  /\ FlowFails(flow[n]) /\ RequestCalm(flow[n])
         /\ \A m \in Flows : m # n => ~RequestingFlow(m)
BY DEF Calm

\* No request is under way when one is sent that does not overlap.
LEMMA SentAlone ==
  ASSUME ConnectionInv, Sending, ~disturbed'
  PROVE  ~disturbed /\ Agreed /\ \A m \in Flows : ~RequestingFlow(m)
BY DEF ConnectionInv, Sending, Calm, Requesting, RequestingFlow

\* After a step in which n alone may go on with a request.
LEMMA CalmAgain ==
  ASSUME NEW n \in Flows,
         \A m \in Flows : m # n => flow'[m] = flow[m] /\ ~RequestingFlow(m),
         RequestingFlow(n)' => (FlowFails(flow[n]) /\ RequestCalm(flow[n]))',
         ~RequestingFlow(n)' => Agreed'
  PROVE  Calm'
<1>1. \A m \in Flows : m # n => ~RequestingFlow(m)'
  BY DEF RequestingFlow, Running
<1>2. ~Requesting' => ~RequestingFlow(n)'
  BY DEF Requesting, RequestingFlow
<1>3. QED
  BY <1>1, <1>2 DEF Calm

\* The shapes after it.
LEMMA ShapesAgain ==
  ASSUME ConnectionInv, NEW n \in Flows, FlowShape(flow[n])',
         \A m \in Flows : m # n => flow'[m] = flow[m]
  PROVE  \A m \in Flows : FlowShape(flow[m])'
BY DEF ConnectionInv, FlowShape

\* How the bounds count.
LEMMA MoveType ==
  ASSUME ConnectionTypeOK, Move
  PROVE  moves' \in 0..MaxMoves
BY ConnectionConstantsOK DEF ConnectionTypeOK, Move

-----------------------------------------------------------------------------
(***************************************************************************)
(* The buttons: a step that sends a request while another one is under way *)
(* counts as disturbed, so that nothing was under way before.              *)
(***************************************************************************)

LEMMA ConnectStep ==
  ASSUME ConnectionTypeOK, ConnectionInv, NEW target \in Participants, Connect(target)
  PROVE  ConnectionTypeOK' /\ ConnectionInv'
<1> DEFINE f == NewFlow("connect", "post", target)
<1>1. target \in Targets /\ "post" \in Awaits["connect"]
  BY DEF Targets, Awaits
<1>2. /\ f \in Flow /\ FlowShape(f) /\ f.kind = "connect" /\ f.at = "post"
      /\ f.target = target /\ f.answer = "none"
  BY <1>1, NewFlowFacts
<1> HIDE DEF f
<1>3. PICK n \in Flows : flow' = [flow EXCEPT ![n] = f] /\ ~Running(n)
  BY DEF Connect, FirstFree, Free, f
<1>4. /\ flow' \in [Flows -> Flow] /\ flow'[n] = f
      /\ \A m \in Flows : m # n => flow'[m] = flow[m]
  BY <1>2, <1>3, FlowChange
<1>5. /\ app' \in App /\ app'.status = "connecting" /\ app'.config = target
      /\ UNCHANGED <<saved, session, sandboxes>> /\ disturbed' \in BOOLEAN
  BY <1>1 DEF Connect, Sending, ConnectionTypeOK, App
<1>6. ConnectionTypeOK'
  BY <1>4, <1>5, MoveType DEF Connect, ConnectionTypeOK
<1>7. \A m \in Flows : FlowShape(flow[m])'
  BY <1>2, <1>4, ShapesAgain
<1>8. ASSUME ~disturbed' PROVE Calm'
  <2>1. Agreed /\ \A m \in Flows : ~RequestingFlow(m)
    BY <1>8, SentAlone DEF Connect
  <2>2. FlowFails(flow[n])' /\ RequestCalm(flow[n])'
    BY <1>2, <1>4, <1>5, <2>1 DEF FlowFails, RequestCalm, PostCalm, Agreed, SessionKept
  <2>3. RequestingFlow(n)'
    BY <1>2, <1>4 DEF RequestingFlow, Running
  <2>4. QED
    BY <1>4, <2>1, <2>2, <2>3, CalmAgain
<1>9. QED
  BY <1>6, <1>7, <1>8 DEF ConnectionInv

LEMMA CreateSandboxStep ==
  ASSUME ConnectionTypeOK, ConnectionInv, CreateSandbox
  PROVE  ConnectionTypeOK' /\ ConnectionInv'
<1> DEFINE f == NewFlow("create", "create", Nothing)
<1>1. "create" \in Awaits["create"]
  BY DEF Awaits
<1>2. /\ f \in Flow /\ FlowShape(f) /\ f.kind = "create" /\ f.at = "create"
      /\ f.answer = "none"
  BY <1>1, NewFlowFacts
<1> HIDE DEF f
<1>3. PICK n \in Flows : flow' = [flow EXCEPT ![n] = f] /\ ~Running(n)
  BY DEF CreateSandbox, FirstFree, Free, f
<1>4. /\ flow' \in [Flows -> Flow] /\ flow'[n] = f
      /\ \A m \in Flows : m # n => flow'[m] = flow[m]
  BY <1>2, <1>3, FlowChange
<1>5. /\ app' \in App /\ app'.status = "connecting"
      /\ UNCHANGED <<saved, session, sandboxes>> /\ disturbed' \in BOOLEAN
  BY DEF CreateSandbox, Sending, ConnectionTypeOK, App
<1>6. ConnectionTypeOK'
  BY <1>4, <1>5, MoveType DEF CreateSandbox, ConnectionTypeOK
<1>7. \A m \in Flows : FlowShape(flow[m])'
  BY <1>2, <1>4, ShapesAgain
<1>8. ASSUME ~disturbed' PROVE Calm'
  <2>1. Agreed /\ \A m \in Flows : ~RequestingFlow(m)
    BY <1>8, SentAlone DEF CreateSandbox
  <2>2. FlowFails(flow[n])' /\ RequestCalm(flow[n])'
    BY <1>2, <1>4, <1>5, <2>1 DEF FlowFails, RequestCalm, Agreed, SessionKept
  <2>3. RequestingFlow(n)'
    BY <1>2, <1>4 DEF RequestingFlow, Running
  <2>4. QED
    BY <1>4, <2>1, <2>2, <2>3, CalmAgain
<1>9. QED
  BY <1>6, <1>7, <1>8 DEF ConnectionInv

LEMMA FreshAppType ==
  FreshApp \in App /\ FreshApp.status = "disconnected" /\ FreshApp.bootstrap = Nothing
BY DEF FreshApp, App

LEMMA DisconnectStep ==
  ASSUME ConnectionTypeOK, ConnectionInv, Disconnect
  PROVE  ConnectionTypeOK' /\ ConnectionInv'
<1> DEFINE f == NewFlow("delete", "delete", Nothing)
<1>1. "delete" \in Awaits["delete"]
  BY DEF Awaits
<1>2. /\ f \in Flow /\ FlowShape(f) /\ f.kind = "delete" /\ f.at = "delete"
      /\ f.answer = "none"
  BY <1>1, NewFlowFacts
<1> HIDE DEF f
<1>3. PICK n \in Flows : flow' = [flow EXCEPT ![n] = f] /\ ~Running(n)
  BY DEF Disconnect, FirstFree, Free, f
<1>4. /\ flow' \in [Flows -> Flow] /\ flow'[n] = f
      /\ \A m \in Flows : m # n => flow'[m] = flow[m]
  BY <1>2, <1>3, FlowChange
<1>5. /\ app' = FreshApp /\ saved' = Nothing
      /\ UNCHANGED <<session, sandboxes>> /\ disturbed' \in BOOLEAN
  BY DEF Disconnect, Sending, ConnectionTypeOK
<1>6. ConnectionTypeOK'
  BY <1>4, <1>5, MoveType, FreshAppType DEF Disconnect, ConnectionTypeOK
<1>7. \A m \in Flows : FlowShape(flow[m])'
  BY <1>2, <1>4, ShapesAgain
<1>8. ASSUME ~disturbed' PROVE Calm'
  <2>1. Agreed /\ \A m \in Flows : ~RequestingFlow(m)
    BY <1>8, SentAlone DEF Disconnect
  <2>2. FlowFails(flow[n])' /\ RequestCalm(flow[n])'
    BY <1>2, <1>4, <1>5 DEF FlowFails, RequestCalm
  <2>3. RequestingFlow(n)'
    BY <1>2, <1>4 DEF RequestingFlow, Running
  <2>4. QED
    BY <1>4, <2>1, <2>2, <2>3, CalmAgain
<1>9. QED
  BY <1>6, <1>7, <1>8 DEF ConnectionInv

\* The sandbox page begins two flows, of which one waits for its timer.
LEMMA ConnectSandboxStep ==
  ASSUME ConnectionTypeOK, ConnectionInv, NEW target \in Sandboxes,
         ConnectSandbox(target)
  PROVE  ConnectionTypeOK' /\ ConnectionInv'
<1> DEFINE f == NewFlow("delete", "delete", Nothing)
           g == NewFlow("page", "timer", target)
<1>1. "delete" \in Awaits["delete"] /\ "timer" \in Awaits["page"] /\ target \in Targets
  BY DEF Awaits, Targets
<1>2. /\ f \in Flow /\ FlowShape(f) /\ f.kind = "delete" /\ f.at = "delete"
      /\ f.answer = "none"
      /\ g \in Flow /\ FlowShape(g) /\ g.kind = "page" /\ g.at = "timer"
  BY <1>1, NewFlowFacts
<1> HIDE DEF f, g
<1>3. PICK n \in Flows, k \in Flows :
        n # k /\ flow' = [flow EXCEPT ![n] = f, ![k] = g]
  <2>1. PICK n \in FirstFree, k \in Free :
          n < k /\ flow' = [flow EXCEPT ![n] = f, ![k] = g]
    BY DEF ConnectSandbox, f, g
  <2>2. n \in Flows /\ k \in Flows /\ n # k
    BY <2>1, ConnectionConstantsOK DEF FirstFree, Free, Flows
  <2>3. QED
    BY <2>1, <2>2
<1>4. /\ flow' \in [Flows -> Flow] /\ flow'[n] = f /\ flow'[k] = g
      /\ \A m \in Flows : m # n /\ m # k => flow'[m] = flow[m]
  BY <1>2, <1>3 DEF ConnectionTypeOK
<1>5. /\ app' = FreshApp /\ saved' = Nothing
      /\ UNCHANGED <<session, sandboxes>> /\ disturbed' \in BOOLEAN
  BY DEF ConnectSandbox, Sending, ConnectionTypeOK
<1>6. ConnectionTypeOK'
  BY <1>4, <1>5, MoveType, FreshAppType DEF ConnectSandbox, ConnectionTypeOK
<1>7. \A m \in Flows : FlowShape(flow[m])'
  BY <1>2, <1>4 DEF ConnectionInv, FlowShape
<1>8. ASSUME ~disturbed' PROVE Calm'
  <2>1. Agreed /\ \A m \in Flows : ~RequestingFlow(m)
    BY <1>8, SentAlone DEF ConnectSandbox
  <2>2. FlowFails(flow[n])' /\ RequestCalm(flow[n])'
    BY <1>2, <1>4, <1>5 DEF FlowFails, RequestCalm
  <2>3. RequestingFlow(n)' /\ \A m \in Flows : m # n => ~RequestingFlow(m)'
    BY <1>2, <1>4, <2>1 DEF RequestingFlow, Running
  <2>4. Requesting'
    BY <2>3 DEF Requesting, RequestingFlow
  <2>5. QED
    BY <2>2, <2>3, <2>4 DEF Calm
<1>9. QED
  BY <1>6, <1>7, <1>8 DEF ConnectionInv

LEMMA PageTimerStep ==
  ASSUME ConnectionTypeOK, ConnectionInv, NEW n \in Flows, PageTimer(n)
  PROVE  ConnectionTypeOK' /\ ConnectionInv'
<1> DEFINE g == Awaiting(flow[n], "post")
           f == [g EXCEPT !.tries = flow[n].tries + 1]
<1>1. /\ flow[n] \in Flow /\ FlowShape(flow[n]) /\ flow[n].at = "timer"
      /\ flow' = [flow EXCEPT ![n] = f]
  BY DEF PageTimer, ConnectionInv, ConnectionTypeOK
<1>2. /\ flow[n].kind = "page" /\ flow[n].target \in Targets
      /\ flow[n].tries + 1 \in 0..MaxRetries
  BY <1>1, ShapeFacts, ConnectionConstantsOK DEF FlowShape, Flow
<1>3. /\ g \in Flow /\ g.kind = "page" /\ g.at = "post" /\ g.answer = "none"
      /\ g.target = flow[n].target
  BY <1>1, <1>2, AwaitingFacts
<1> HIDE DEF g
<1>4. /\ f \in Flow /\ f.kind = "page" /\ f.at = "post" /\ f.answer = "none"
      /\ f.target = flow[n].target
  BY <1>2, <1>3 DEF Flow
<1>a. "post" \in Awaits["page"]
  BY DEF Awaits
<1> HIDE DEF f
<1>5. FlowShape(f)
  BY <1>2, <1>4, <1>a DEF FlowShape
<1>6. /\ flow' \in [Flows -> Flow] /\ flow'[n] = f
      /\ \A m \in Flows : m # n => flow'[m] = flow[m]
  BY <1>1, <1>4, FlowChange
<1>7. /\ app' \in App /\ app'.status = "connecting" /\ app'.config = f.target
      /\ UNCHANGED <<saved, session, sandboxes, moves>> /\ disturbed' \in BOOLEAN
  BY <1>2, <1>4 DEF PageTimer, Sending, ConnectionTypeOK, App
<1>8. ConnectionTypeOK'
  BY <1>6, <1>7 DEF ConnectionTypeOK
<1>9. \A m \in Flows : FlowShape(flow[m])'
  BY <1>5, <1>6, ShapesAgain
<1>10. ASSUME ~disturbed' PROVE Calm'
  <2>1. Agreed /\ \A m \in Flows : ~RequestingFlow(m)
    BY <1>10, SentAlone DEF PageTimer
  <2>2. FlowFails(flow[n])' /\ RequestCalm(flow[n])'
    BY <1>4, <1>6, <1>7, <2>1 DEF FlowFails, RequestCalm, PostCalm, Agreed, SessionKept
  <2>3. RequestingFlow(n)'
    BY <1>4, <1>6 DEF RequestingFlow, Running
  <2>4. QED
    BY <1>6, <2>1, <2>2, <2>3, CalmAgain
<1>11. QED
  BY <1>8, <1>9, <1>10 DEF ConnectionInv

LEMMA RefreshBootstrapStep ==
  ASSUME ConnectionTypeOK, ConnectionInv, RefreshBootstrap
  PROVE  ConnectionTypeOK' /\ ConnectionInv'
<1> DEFINE f == NewFlow("refresh", "get", Nothing)
<1>1. "get" \in Awaits["refresh"]
  BY DEF Awaits
<1>2. /\ f \in Flow /\ FlowShape(f) /\ f.kind = "refresh" /\ f.at = "get"
      /\ f.answer = "none"
  BY <1>1, NewFlowFacts
<1> HIDE DEF f
<1>3. PICK n \in Flows : flow' = [flow EXCEPT ![n] = f] /\ ~Running(n)
  BY DEF RefreshBootstrap, FirstFree, Free, f
<1>4. /\ flow' \in [Flows -> Flow] /\ flow'[n] = f
      /\ \A m \in Flows : m # n => flow'[m] = flow[m]
  BY <1>2, <1>3, FlowChange
<1>5. UNCHANGED <<app, saved, session, sandboxes>> /\ disturbed' \in BOOLEAN
  BY DEF RefreshBootstrap, Sending, ConnectionTypeOK
<1>6. ConnectionTypeOK'
  BY <1>4, <1>5, MoveType DEF RefreshBootstrap, ConnectionTypeOK
<1>7. \A m \in Flows : FlowShape(flow[m])'
  BY <1>2, <1>4, ShapesAgain
<1>8. ASSUME ~disturbed' PROVE Calm'
  <2>1. Agreed /\ \A m \in Flows : ~RequestingFlow(m)
    BY <1>8, SentAlone DEF RefreshBootstrap
  <2>2. Agreed'
    BY <1>5, <2>1 DEF Agreed, SessionKept
  <2>3. FlowFails(flow[n])' /\ RequestCalm(flow[n])'
    BY <1>2, <1>4, <2>2 DEF FlowFails, RequestCalm
  <2>4. QED
    BY <1>4, <2>1, <2>2, <2>3, CalmAgain
<1>9. QED
  BY <1>6, <1>7, <1>8 DEF ConnectionInv

\* A loaded page begins with one flow.
LEMMA LoadedFlows ==
  ASSUME NEW fl, fl = [n \in Flows |-> IF n = 1 THEN CheckFlow ELSE NoFlow]
  PROVE  /\ fl \in [Flows -> Flow] /\ \A n \in Flows : FlowShape(fl[n])
         /\ \A n \in Flows : n # 1 => fl[n].kind = "none"
         /\ \A n \in Flows : n = 1 =>
              fl[n].kind = "check" /\ fl[n].at = "get" /\ fl[n].answer = "none"
<1>1. "get" \in Awaits["check"]
  BY DEF Awaits
<1>2. /\ CheckFlow \in Flow /\ FlowShape(CheckFlow) /\ CheckFlow.kind = "check"
      /\ CheckFlow.at = "get" /\ CheckFlow.answer = "none"
  BY <1>1, NewFlowFacts DEF CheckFlow
<1>3. QED
  BY <1>2, NoFlowFacts

LEMMA ReloadStep ==
  ASSUME ConnectionTypeOK, ConnectionInv, Reload
  PROVE  ConnectionTypeOK' /\ ConnectionInv'
<1>1. /\ flow' \in [Flows -> Flow] /\ \A n \in Flows : FlowShape(flow'[n])
      /\ \A n \in Flows : n # 1 => flow'[n].kind = "none"
      /\ \A n \in Flows : n = 1 => flow'[n].kind = "check" /\ flow'[n].at = "get"
                                   /\ flow'[n].answer = "none"
  BY LoadedFlows DEF Reload
<1>2. /\ app' = FreshApp /\ UNCHANGED <<saved, session, sandboxes>>
      /\ disturbed' = (disturbed \/ ~Idle)
  BY DEF Reload
<1>3. ConnectionTypeOK'
  BY <1>1, <1>2, MoveType, FreshAppType DEF Reload, ConnectionTypeOK
<1>4. ASSUME ~disturbed' PROVE Calm'
  <2>1. Idle /\ Agreed
    BY <1>2, <1>4 DEF ConnectionInv, Calm, Idle, Requesting
  <2>2. SessionKept'
    BY <1>2, <2>1 DEF Agreed, SessionKept
  <2>3. \A n \in Flows : RequestingFlow(n)' => n = 1
    BY <1>1 DEF RequestingFlow, Running
  <2>4. \A n \in Flows : n = 1 => (FlowFails(flow[n]) /\ RequestCalm(flow[n]))'
    BY <1>1, <1>2, <2>2 DEF FlowFails, RequestCalm
  <2>5. Requesting'
    <3>1. 1 \in Flows
      BY ConnectionConstantsOK DEF Flows
    <3>2. QED
      BY <1>1, <3>1 DEF Requesting, Running
  <2>6. QED
    BY <2>3, <2>4, <2>5 DEF Calm
<1>5. QED
  BY <1>1, <1>3, <1>4 DEF ConnectionInv

-----------------------------------------------------------------------------
(***************************************************************************)
(* The gateway: the answer of one request changes, and the session.        *)
(***************************************************************************)

\* A flow in its shape whose answer changes.
LEMMA AnswerShape ==
  ASSUME NEW f \in Flow, NEW g, FlowShape(f),
         g.kind = f.kind, g.at = f.at, g.target = f.target, g.tries = f.tries,
         g.answer # "none" => f.at \notin {"none", "timer"},
         g.answer = "working" => f.at = "post",
         f.at = "post" /\ g.answer = "ok" => g.found = f.target,
         f.at = "create" /\ g.answer = "ok" => g.found \in Sandboxes
  PROVE  FlowShape(g)
BY DEF FlowShape

\* The flow that a request belongs to, and that it is the only one.
LEMMA RequestOf ==
  ASSUME ConnectionTypeOK, ConnectionInv, NEW n \in Flows,
         flow[n].at \notin {"none", "timer"} \/ flow[n].answer # "none"
  PROVE  /\ flow[n] \in Flow /\ FlowShape(flow[n]) /\ RequestingFlow(n)
         /\ ~disturbed =>
              /\ FlowFails(flow[n]) /\ RequestCalm(flow[n])
              /\ \A m \in Flows : m # n => ~RequestingFlow(m)
<1>1. flow[n] \in Flow /\ FlowShape(flow[n])
  BY DEF ConnectionTypeOK, ConnectionInv
<1>2. RequestingFlow(n)
  BY <1>1, ShapeFacts DEF RequestingFlow, Running
<1>3. QED
  BY <1>1, <1>2, OnlyRequest DEF ConnectionInv

LEMMA PostArrivesStep ==
  ASSUME ConnectionTypeOK, ConnectionInv, NEW n \in Flows, PostArrives(n)
  PROVE  ConnectionTypeOK' /\ ConnectionInv'
<1>0. flow[n].at = "post" /\ flow[n].answer = "none"
  BY DEF PostArrives
<1>1. /\ flow[n] \in Flow /\ FlowShape(flow[n])
      /\ ~disturbed => /\ FlowFails(flow[n]) /\ RequestCalm(flow[n])
                       /\ \A m \in Flows : m # n => ~RequestingFlow(m)
  BY <1>0, RequestOf
<1> DEFINE f == flow'[n]
<1>2. /\ flow' \in [Flows -> Flow] /\ \A m \in Flows : m # n => flow'[m] = flow[m]
      /\ f \in Flow /\ f.kind = flow[n].kind /\ f.at = "post" /\ f.target = flow[n].target
      /\ f.tries = flow[n].tries /\ f.answer = "working"
  BY <1>0, AnswerChange DEF PostArrives
<1> HIDE DEF f
<1>3. /\ flow' \in [Flows -> Flow] /\ flow'[n] = f
      /\ \A m \in Flows : m # n => flow'[m] = flow[m]
  BY <1>2 DEF f
<1>4. session' = Nothing /\ UNCHANGED <<app, saved, sandboxes, moves, disturbed>>
  BY DEF PostArrives
<1>5. ConnectionTypeOK'
  BY <1>3, <1>4 DEF ConnectionTypeOK
<1>6. FlowShape(f)
  BY <1>0, <1>1, <1>2, AnswerShape
<1>7. \A m \in Flows : FlowShape(flow[m])'
  BY <1>3, <1>6, ShapesAgain
<1>8. ASSUME ~disturbed' PROVE Calm'
  <2>1. /\ FlowFails(flow[n]) /\ RequestCalm(flow[n])
        /\ \A m \in Flows : m # n => ~RequestingFlow(m)
    BY <1>1, <1>4, <1>8
  <2>2. f.kind # "refresh" /\ f.kind # "none"
    BY <1>2, <1>6, ShapeFacts
  <2>3. FlowFails(flow[n])' /\ RequestCalm(flow[n])'
    BY <1>0, <1>2, <1>3, <1>4, <2>1, <2>2 DEF FlowFails, RequestCalm, PostCalm
  <2>4. RequestingFlow(n)'
    BY <1>2, <1>3, <2>2 DEF RequestingFlow, Running
  <2>5. QED
    BY <1>3, <2>1, <2>3, <2>4, CalmAgain
<1>9. QED
  BY <1>5, <1>7, <1>8 DEF ConnectionInv

LEMMA PostDoneStep ==
  ASSUME ConnectionTypeOK, ConnectionInv, NEW n \in Flows, PostDone(n)
  PROVE  ConnectionTypeOK' /\ ConnectionInv'
<1>0. flow[n].answer = "working" /\ flow[n].target \in Targets
  BY DEF PostDone, ConnectionTypeOK, Targets
<1>1. /\ flow[n] \in Flow /\ FlowShape(flow[n])
      /\ ~disturbed => /\ FlowFails(flow[n]) /\ RequestCalm(flow[n])
                       /\ \A m \in Flows : m # n => ~RequestingFlow(m)
  BY <1>0, RequestOf
<1>a. flow[n].at = "post"
  BY <1>0, <1>1 DEF FlowShape
<1> DEFINE f == flow'[n]
<1>2. /\ flow' \in [Flows -> Flow] /\ \A m \in Flows : m # n => flow'[m] = flow[m]
      /\ f \in Flow /\ f.kind = flow[n].kind /\ f.at = "post" /\ f.target = flow[n].target
      /\ f.tries = flow[n].tries /\ f.answer = "ok" /\ f.found = flow[n].target
  BY <1>0, <1>a, AnswerChange DEF PostDone
<1> HIDE DEF f
<1>3. /\ flow' \in [Flows -> Flow] /\ flow'[n] = f
      /\ \A m \in Flows : m # n => flow'[m] = flow[m]
  BY <1>2 DEF f
<1>4. session' = flow[n].target /\ UNCHANGED <<app, saved, sandboxes, moves, disturbed>>
  BY DEF PostDone
<1>5. ConnectionTypeOK'
  BY <1>0, <1>3, <1>4 DEF ConnectionTypeOK
<1>6. FlowShape(f)
  BY <1>a, <1>1, <1>2, AnswerShape
<1>7. \A m \in Flows : FlowShape(flow[m])'
  BY <1>3, <1>6, ShapesAgain
<1>8. ASSUME ~disturbed' PROVE Calm'
  <2>1. /\ FlowFails(flow[n]) /\ RequestCalm(flow[n])
        /\ \A m \in Flows : m # n => ~RequestingFlow(m)
    BY <1>1, <1>4, <1>8
  <2>2. f.kind # "refresh" /\ f.kind # "none"
    BY <1>2, <1>6, ShapeFacts
  <2>3. FlowFails(flow[n])' /\ RequestCalm(flow[n])'
    BY <1>a, <1>2, <1>3, <1>4, <2>1, <2>2 DEF FlowFails, RequestCalm, PostCalm
  <2>4. RequestingFlow(n)'
    BY <1>2, <1>3, <2>2 DEF RequestingFlow, Running
  <2>5. QED
    BY <1>3, <2>1, <2>3, <2>4, CalmAgain
<1>9. QED
  BY <1>5, <1>7, <1>8 DEF ConnectionInv

LEMMA PostFailsStep ==
  ASSUME ConnectionTypeOK, ConnectionInv, NEW n \in Flows, PostFails(n)
  PROVE  ConnectionTypeOK' /\ ConnectionInv'
<1>0. flow[n].answer = "working"
  BY DEF PostFails
<1>1. /\ flow[n] \in Flow /\ FlowShape(flow[n])
      /\ ~disturbed => /\ FlowFails(flow[n]) /\ RequestCalm(flow[n])
                       /\ \A m \in Flows : m # n => ~RequestingFlow(m)
  BY <1>0, RequestOf
<1>a. flow[n].at = "post"
  BY <1>0, <1>1 DEF FlowShape
<1> DEFINE f == flow'[n]
<1>2. /\ flow' \in [Flows -> Flow] /\ \A m \in Flows : m # n => flow'[m] = flow[m]
      /\ f \in Flow /\ f.kind = flow[n].kind /\ f.at = "post" /\ f.target = flow[n].target
      /\ f.tries = flow[n].tries /\ f.answer = "failed"
  BY <1>0, <1>a, AnswerChange DEF PostFails
<1> HIDE DEF f
<1>3. /\ flow' \in [Flows -> Flow] /\ flow'[n] = f
      /\ \A m \in Flows : m # n => flow'[m] = flow[m]
  BY <1>2 DEF f
<1>4. UNCHANGED <<app, saved, session, sandboxes, moves, disturbed>>
  BY DEF PostFails
<1>5. ConnectionTypeOK'
  BY <1>3, <1>4 DEF ConnectionTypeOK
<1>6. FlowShape(f)
  BY <1>a, <1>1, <1>2, AnswerShape
<1>7. \A m \in Flows : FlowShape(flow[m])'
  BY <1>3, <1>6, ShapesAgain
<1>8. ASSUME ~disturbed' PROVE Calm'
  <2>1. /\ FlowFails(flow[n]) /\ RequestCalm(flow[n])
        /\ \A m \in Flows : m # n => ~RequestingFlow(m)
    BY <1>1, <1>4, <1>8
  <2>2. f.kind # "refresh" /\ f.kind # "none"
    BY <1>2, <1>6, ShapeFacts
  <2>3. FlowFails(flow[n])' /\ RequestCalm(flow[n])'
    BY <1>0, <1>a, <1>2, <1>3, <1>4, <2>1, <2>2 DEF FlowFails, RequestCalm, PostCalm
  <2>4. RequestingFlow(n)'
    BY <1>2, <1>3, <2>2 DEF RequestingFlow, Running
  <2>5. QED
    BY <1>3, <2>1, <2>3, <2>4, CalmAgain
<1>9. QED
  BY <1>5, <1>7, <1>8 DEF ConnectionInv

LEMMA DeleteHandledStep ==
  ASSUME ConnectionTypeOK, ConnectionInv, NEW n \in Flows, DeleteHandled(n)
  PROVE  ConnectionTypeOK' /\ ConnectionInv'
<1>0. flow[n].at = "delete" /\ flow[n].answer = "none"
  BY DEF DeleteHandled
<1>1. /\ flow[n] \in Flow /\ FlowShape(flow[n])
      /\ ~disturbed => /\ FlowFails(flow[n]) /\ RequestCalm(flow[n])
                       /\ \A m \in Flows : m # n => ~RequestingFlow(m)
  BY <1>0, RequestOf
<1> DEFINE f == flow'[n]
<1>2. /\ flow' \in [Flows -> Flow] /\ \A m \in Flows : m # n => flow'[m] = flow[m]
      /\ f \in Flow /\ f.kind = flow[n].kind /\ f.at = "delete" /\ f.target = flow[n].target
      /\ f.tries = flow[n].tries /\ f.answer = "ok"
  BY <1>0, AnswerChange DEF DeleteHandled
<1> HIDE DEF f
<1>3. /\ flow' \in [Flows -> Flow] /\ flow'[n] = f
      /\ \A m \in Flows : m # n => flow'[m] = flow[m]
  BY <1>2 DEF f
<1>4. session' = Nothing /\ UNCHANGED <<app, saved, sandboxes, moves, disturbed>>
  BY DEF DeleteHandled
<1>5. ConnectionTypeOK'
  BY <1>3, <1>4 DEF ConnectionTypeOK
<1>6. FlowShape(f)
  BY <1>0, <1>1, <1>2, AnswerShape
<1>7. \A m \in Flows : FlowShape(flow[m])'
  BY <1>3, <1>6, ShapesAgain
<1>8. ASSUME ~disturbed' PROVE Calm'
  <2>1. /\ FlowFails(flow[n]) /\ RequestCalm(flow[n])
        /\ \A m \in Flows : m # n => ~RequestingFlow(m)
    BY <1>1, <1>4, <1>8
  <2>2. f.kind \in {"check", "delete"}
    BY <1>2, <1>6, ShapeFacts
  <2>3. FlowFails(flow[n])' /\ RequestCalm(flow[n])'
    BY <1>0, <1>2, <1>3, <1>4, <2>1, <2>2 DEF FlowFails, RequestCalm
  <2>4. RequestingFlow(n)'
    BY <1>2, <1>3, <2>2 DEF RequestingFlow, Running
  <2>5. QED
    BY <1>3, <2>1, <2>3, <2>4, CalmAgain
<1>9. QED
  BY <1>5, <1>7, <1>8 DEF ConnectionInv

LEMMA GetHandledStep ==
  ASSUME ConnectionTypeOK, ConnectionInv, NEW n \in Flows, GetHandled(n)
  PROVE  ConnectionTypeOK' /\ ConnectionInv'
<1>0. flow[n].at \in {"get", "verify"} /\ flow[n].answer = "none"
  BY DEF GetHandled
<1>1. /\ flow[n] \in Flow /\ FlowShape(flow[n])
      /\ ~disturbed => /\ FlowFails(flow[n]) /\ RequestCalm(flow[n])
                       /\ \A m \in Flows : m # n => ~RequestingFlow(m)
  BY <1>0, RequestOf
<1>2. PICK answer \in {"ok", "failed"}, found \in Targets \cup {Nothing} :
        /\ Answered(n, answer, found)
        /\ flow[n].at = "get" => answer = "ok" /\ found = session
        /\ flow[n].at = "verify" => found = flow[n].found
  BY <1>0, <1>1 DEF GetHandled, ConnectionTypeOK, Flow
<1> DEFINE f == flow'[n]
<1>3. /\ flow' \in [Flows -> Flow] /\ \A m \in Flows : m # n => flow'[m] = flow[m]
      /\ f \in Flow /\ f.kind = flow[n].kind /\ f.at = flow[n].at /\ f.target = flow[n].target
      /\ f.tries = flow[n].tries /\ f.answer = answer /\ f.found = found
  BY <1>2, AnswerChange
<1> HIDE DEF f
<1>4. /\ flow' \in [Flows -> Flow] /\ flow'[n] = f
      /\ \A m \in Flows : m # n => flow'[m] = flow[m]
  BY <1>3 DEF f
<1>5. UNCHANGED <<app, saved, session, sandboxes, moves, disturbed>>
  BY DEF GetHandled
<1>6. ConnectionTypeOK'
  BY <1>4, <1>5 DEF ConnectionTypeOK
<1>7. FlowShape(f)
  BY <1>0, <1>1, <1>3, AnswerShape
<1>8. \A m \in Flows : FlowShape(flow[m])'
  BY <1>4, <1>7, ShapesAgain
<1>9. ASSUME ~disturbed' PROVE Calm'
  <2>1. /\ FlowFails(flow[n]) /\ RequestCalm(flow[n])
        /\ \A m \in Flows : m # n => ~RequestingFlow(m)
    BY <1>1, <1>5, <1>9
  <2>2. f.kind \in {"check", "refresh"} /\ (f.kind = "refresh" => f.at = "get")
    BY <1>0, <1>3, <1>7, ShapeFacts
  <2>3. FlowFails(flow[n])'
    BY <1>0, <1>2, <1>3, <1>4 DEF FlowFails
  <2>4. Agreed => Agreed'
    BY <1>5 DEF Agreed, SessionKept
  <2>5. RequestCalm(flow[n])'
    BY <1>0, <1>2, <1>3, <1>4, <1>5, <2>1, <2>2, <2>4 DEF RequestCalm, SessionKept
  <2>6. RequestingFlow(n)'
    BY <1>0, <1>3, <1>4, <2>2 DEF RequestingFlow, Running
  <2>7. QED
    BY <1>4, <2>1, <2>3, <2>5, <2>6, CalmAgain
<1>10. QED
  BY <1>6, <1>8, <1>9 DEF ConnectionInv

LEMMA SandboxCreatedStep ==
  ASSUME ConnectionTypeOK, ConnectionInv, NEW n \in Flows, SandboxCreated(n)
  PROVE  ConnectionTypeOK' /\ ConnectionInv'
<1>0. flow[n].at = "create" /\ flow[n].answer = "none"
  BY DEF SandboxCreated
<1>1. /\ flow[n] \in Flow /\ FlowShape(flow[n])
      /\ ~disturbed => /\ FlowFails(flow[n]) /\ RequestCalm(flow[n])
                       /\ \A m \in Flows : m # n => ~RequestingFlow(m)
  BY <1>0, RequestOf
<1>2. PICK answer \in {"ok", "failed"}, found \in Targets \cup {Nothing} :
        /\ Answered(n, answer, found)
        /\ answer = "ok" => found \in Sandboxes
  BY DEF SandboxCreated, Targets
<1> DEFINE f == flow'[n]
<1>3. /\ flow' \in [Flows -> Flow] /\ \A m \in Flows : m # n => flow'[m] = flow[m]
      /\ f \in Flow /\ f.kind = flow[n].kind /\ f.at = flow[n].at /\ f.target = flow[n].target
      /\ f.tries = flow[n].tries /\ f.answer = answer /\ f.found = found
  BY <1>2, AnswerChange
<1> HIDE DEF f
<1>4. /\ flow' \in [Flows -> Flow] /\ flow'[n] = f
      /\ \A m \in Flows : m # n => flow'[m] = flow[m]
  BY <1>3 DEF f
<1>5. /\ UNCHANGED <<app, saved, session, moves, disturbed>>
      /\ sandboxes' \subseteq Sandboxes
  BY DEF SandboxCreated, ConnectionTypeOK
<1>6. ConnectionTypeOK'
  BY <1>4, <1>5 DEF ConnectionTypeOK
<1>7. FlowShape(f)
  BY <1>0, <1>1, <1>2, <1>3, AnswerShape
<1>8. \A m \in Flows : FlowShape(flow[m])'
  BY <1>4, <1>7, ShapesAgain
<1>9. ASSUME ~disturbed' PROVE Calm'
  <2>1. /\ FlowFails(flow[n]) /\ RequestCalm(flow[n])
        /\ \A m \in Flows : m # n => ~RequestingFlow(m)
    BY <1>1, <1>5, <1>9
  <2>2. f.kind = "create"
    BY <1>0, <1>3, <1>7, ShapeFacts
  <2>3. FlowFails(flow[n])' /\ RequestCalm(flow[n])'
    BY <1>0, <1>2, <1>3, <1>4, <1>5, <2>1, <2>2 DEF FlowFails, RequestCalm, SessionKept
  <2>4. RequestingFlow(n)'
    BY <1>0, <1>3, <1>4, <2>2 DEF RequestingFlow, Running
  <2>5. QED
    BY <1>4, <2>1, <2>3, <2>4, CalmAgain
<1>10. QED
  BY <1>6, <1>8, <1>9 DEF ConnectionInv

\* Losses count as disturbed, and a sandbox that is gone shows nowhere.
LEMMA RequestLostStep ==
  ASSUME ConnectionTypeOK, ConnectionInv, NEW n \in Flows, RequestLost(n)
  PROVE  ConnectionTypeOK' /\ ConnectionInv'
<1> DEFINE f == [flow[n] EXCEPT !.answer = "lost"]
<1>1. /\ flow[n] \in Flow /\ FlowShape(flow[n]) /\ flow[n].at \notin {"none", "timer"}
      /\ flow' = [flow EXCEPT ![n] = f]
  BY ShapeFacts DEF RequestLost, Running, ConnectionTypeOK, ConnectionInv
<1>2. /\ f \in Flow /\ f.kind = flow[n].kind /\ f.at = flow[n].at
      /\ f.target = flow[n].target /\ f.tries = flow[n].tries /\ f.answer = "lost"
  BY <1>1 DEF Flow
<1> HIDE DEF f
<1>3. /\ flow' \in [Flows -> Flow] /\ flow'[n] = f
      /\ \A m \in Flows : m # n => flow'[m] = flow[m]
  BY <1>1, <1>2, FlowChange
<1>4. FlowShape(f)
  BY <1>1, <1>2, AnswerShape
<1>5. \A m \in Flows : FlowShape(flow[m])'
  BY <1>3, <1>4, ShapesAgain
<1>6. ConnectionTypeOK'
  BY <1>3, MoveType DEF RequestLost, ConnectionTypeOK
<1>7. QED
  BY <1>5, <1>6 DEF RequestLost, ConnectionInv

LEMMA SessionLostStep ==
  ASSUME ConnectionTypeOK, ConnectionInv, SessionLost
  PROVE  ConnectionTypeOK' /\ ConnectionInv'
<1>1. ConnectionTypeOK'
  BY MoveType DEF SessionLost, ConnectionTypeOK
<1>2. QED
  BY <1>1 DEF SessionLost, ConnectionInv

\* What the invariant does not speak of may change.
LEMMA OthersChange ==
  ASSUME ConnectionInv, UNCHANGED <<app, saved, flow, session, disturbed>>
  PROVE  ConnectionInv'
<1>1. Calm => Calm'
  <2>1. Agreed => Agreed'
    BY DEF Agreed, SessionKept
  <2>2. \A n \in Flows : /\ RequestingFlow(n) <=> RequestingFlow(n)'
                         /\ RequestCalm(flow[n]) => RequestCalm(flow[n])'
    BY <2>1 DEF RequestingFlow, Running, RequestCalm, PostCalm, SessionKept
  <2>3. Requesting <=> Requesting'
    BY DEF Requesting, Running
  <2>4. QED
    BY <2>1, <2>2, <2>3 DEF Calm
<1>2. QED
  BY <1>1 DEF ConnectionInv

LEMMA SandboxDeletedStep ==
  ASSUME ConnectionTypeOK, ConnectionInv, NEW s \in Sandboxes, SandboxDeleted(s)
  PROVE  ConnectionTypeOK' /\ ConnectionInv'
<1>1. ConnectionTypeOK'
  BY MoveType DEF SandboxDeleted, ConnectionTypeOK
<1>2. QED
  BY <1>1, OthersChange DEF SandboxDeleted

LEMMA MoveStep ==
  ASSUME ConnectionTypeOK, ConnectionInv, Move,
         UNCHANGED <<app, saved, flow, session, sandboxes, disturbed>>
  PROVE  ConnectionTypeOK' /\ ConnectionInv'
<1>1. ConnectionTypeOK'
  BY MoveType DEF ConnectionTypeOK
<1>2. QED
  BY <1>1, OthersChange

-----------------------------------------------------------------------------
(***************************************************************************)
(* The answers: a function ends, or goes on with its next request.         *)
(***************************************************************************)

\* The flow whose answer is handled.
LEMMA AnswerOf ==
  ASSUME ConnectionTypeOK, ConnectionInv, NEW n \in Flows,
         flow[n].answer \in {"ok", "failed", "lost"}
  PROVE  /\ flow[n] \in Flow /\ FlowShape(flow[n])
         /\ flow[n].answer = "ok" \/ flow[n].answer = "failed" \/ flow[n].answer = "lost"
         /\ ~disturbed =>
              /\ flow[n].answer # "lost" /\ FlowFails(flow[n])
              /\ RequestCalm(flow[n])
              /\ \A m \in Flows : m # n => ~RequestingFlow(m)
<1>1. flow[n].answer # "none"
  OBVIOUS
<1>2. QED
  BY <1>1, RequestOf DEF FlowFails

\* What follows when the function has ended, or waits for its timer.
LEMMA EndedStep ==
  ASSUME ConnectionTypeOK, ConnectionInv, NEW n \in Flows, NEW f \in Flow,
         FlowShape(f), f.kind = "none" \/ f.at = "timer",
         flow' = [flow EXCEPT ![n] = f], app' \in App,
         saved' \in Targets \cup {Nothing},
         UNCHANGED <<session, sandboxes, moves, disturbed>>,
         ~disturbed => /\ Agreed'
                       /\ \A m \in Flows : m # n => ~RequestingFlow(m)
  PROVE  ConnectionTypeOK' /\ ConnectionInv'
<1>1. /\ flow' \in [Flows -> Flow] /\ flow'[n] = f
      /\ \A m \in Flows : m # n => flow'[m] = flow[m]
  BY FlowChange
<1>2. ConnectionTypeOK'
  BY <1>1 DEF ConnectionTypeOK
<1>3. \A m \in Flows : FlowShape(flow[m])'
  BY <1>1, ShapesAgain
<1>4. ~RequestingFlow(n)'
  BY <1>1 DEF RequestingFlow, Running
<1>5. ~disturbed' => Calm'
  BY <1>1, <1>4, CalmAgain
<1>6. QED
  BY <1>2, <1>3, <1>5 DEF ConnectionInv

\* What follows when it goes on with another request.
LEMMA GoesOnStep ==
  ASSUME ConnectionTypeOK, ConnectionInv, NEW n \in Flows, NEW f \in Flow,
         FlowShape(f), f.at \notin {"none", "timer"}, f.answer = "none",
         flow' = [flow EXCEPT ![n] = f], app' \in App,
         saved' \in Targets \cup {Nothing},
         UNCHANGED <<session, sandboxes, moves, disturbed>>,
         ~disturbed => /\ RequestCalm(flow[n])'
                       /\ \A m \in Flows : m # n => ~RequestingFlow(m)
  PROVE  ConnectionTypeOK' /\ ConnectionInv'
<1>1. /\ flow' \in [Flows -> Flow] /\ flow'[n] = f
      /\ \A m \in Flows : m # n => flow'[m] = flow[m]
  BY FlowChange
<1>2. ConnectionTypeOK'
  BY <1>1 DEF ConnectionTypeOK
<1>3. \A m \in Flows : FlowShape(flow[m])'
  BY <1>1, ShapesAgain
<1>4. RequestingFlow(n)'
  BY <1>1, ShapeFacts DEF RequestingFlow, Running
<1>5. FlowFails(flow[n])'
  BY <1>1 DEF FlowFails
<1>6. ~disturbed' => Calm'
  BY <1>1, <1>4, <1>5, CalmAgain
<1>7. QED
  BY <1>2, <1>3, <1>6 DEF ConnectionInv

\* connected to the ledger that was asked for.
LEMMA ConnectedFacts ==
  ASSUME NEW config \in Targets \cup {Nothing, Unknown}, NEW found \in Targets \cup {Nothing}
  PROVE  LET a == ConnectedTo(config, found)
         IN a \in App /\ a.status = "connected" /\ a.config = config /\ a.bootstrap = found
BY DEF ConnectedTo, App

LEMMA PostAnsweredStep ==
  ASSUME ConnectionTypeOK, ConnectionInv, NEW n \in Flows, PostAnswered(n)
  PROVE  ConnectionTypeOK' /\ ConnectionInv'
<1>1. /\ flow[n].at = "post" /\ flow[n].answer \in {"ok", "failed", "lost"}
      /\ flow[n].kind \in {"connect", "create", "page"}
      /\ UNCHANGED <<session, sandboxes, moves, disturbed>>
  BY DEF PostAnswered, IsAnswered, UnchangedByAnswer
<1>2. /\ flow[n] \in Flow /\ FlowShape(flow[n]) /\ flow[n].target \in Targets
      /\ ~disturbed => /\ flow[n].answer # "lost" /\ PostCalm(flow[n])
                       /\ \A m \in Flows : m # n => ~RequestingFlow(m)
  BY <1>1, AnswerOf DEF FlowShape, RequestCalm
<1>3. app \in App /\ saved \in Targets \cup {Nothing}
  BY DEF ConnectionTypeOK
<1>4. CASE IsOk(n)
  <2>1. /\ flow' = [flow EXCEPT ![n] = NoFlow] /\ saved' = flow[n].target
        /\ app' = ConnectedTo(app.config, flow[n].found)
    BY <1>4 DEF PostAnswered, SavedConfig, Ended
  <2>2. /\ app' \in App /\ app'.status = "connected" /\ app'.config = app.config
        /\ app'.bootstrap = flow[n].target
    BY <1>1, <1>2, <1>3, <1>4, <2>1 DEF ConnectedTo, App, FlowShape, IsOk
  <2>3. ~disturbed => Agreed'
    BY <1>1, <1>2, <1>4, <2>1, <2>2, ConnectionConstantsOK
       DEF PostCalm, IsOk, Agreed, SessionKept
  <2>4. QED
    BY <1>1, <1>2, <2>1, <2>2, <2>3, NoFlowFacts, EndedStep
<1>5. CASE ~IsOk(n)
  <2>1. saved' = saved /\ app' = [app EXCEPT !.status = "error", !.bootstrap = Nothing]
    BY <1>5 DEF PostAnswered
  <2>2. app' \in App /\ app'.status = "error"
    BY <1>3, <2>1 DEF App
  <2>3. ~disturbed => Agreed'
    BY <1>1, <1>2, <1>5, <2>2 DEF PostCalm, IsOk, Agreed, SessionKept
  <2>4. CASE Ended(n)
    BY <1>1, <1>2, <1>3, <2>1, <2>2, <2>3, <2>4, NoFlowFacts, EndedStep DEF Ended
  <2>5. CASE /\ flow[n].kind = "page" /\ flow[n].tries < MaxRetries
             /\ flow' = [flow EXCEPT ![n] = Awaiting(flow[n], "timer")]
    <3> DEFINE f == Awaiting(flow[n], "timer")
    <3>1. /\ f \in Flow /\ f.kind = "page" /\ f.at = "timer" /\ f.answer = "none"
          /\ f.target = flow[n].target /\ f.tries = flow[n].tries
      BY <1>2, <2>5, AwaitingFacts
    <3>2. "timer" \in Awaits["page"] /\ flow' = [flow EXCEPT ![n] = f]
      BY <2>5 DEF Awaits
    <3> HIDE DEF f
    <3>3. FlowShape(f)
      BY <1>2, <2>5, <3>1, <3>2 DEF FlowShape
    <3>4. QED
      BY <1>1, <1>2, <1>3, <2>1, <2>2, <2>3, <3>1, <3>2, <3>3, EndedStep
  <2>6. QED
    BY <1>5, <2>4, <2>5 DEF PostAnswered
<1>6. QED
  BY <1>4, <1>5

LEMMA CreateAnsweredStep ==
  ASSUME ConnectionTypeOK, ConnectionInv, NEW n \in Flows, CreateAnswered(n)
  PROVE  ConnectionTypeOK' /\ ConnectionInv'
<1>1. /\ flow[n].at = "create" /\ flow[n].answer \in {"ok", "failed", "lost"}
      /\ flow[n].kind = "create"
      /\ UNCHANGED <<saved, session, sandboxes, moves, disturbed>>
  BY DEF CreateAnswered, IsAnswered, UnchangedByAnswer
<1>2. /\ flow[n] \in Flow /\ FlowShape(flow[n])
      /\ ~disturbed => /\ app.status = "connecting" /\ SessionKept
                       /\ \A m \in Flows : m # n => ~RequestingFlow(m)
  BY <1>1, AnswerOf DEF RequestCalm
<1>3. app \in App /\ saved \in Targets \cup {Nothing} /\ saved' = saved
  BY <1>1 DEF ConnectionTypeOK
<1>4. CASE IsOk(n)
  <2> DEFINE g == Awaiting(flow[n], "post")
             f == [g EXCEPT !.target = flow[n].found]
  <2>1. /\ flow' = [flow EXCEPT ![n] = f] /\ app' = [app EXCEPT !.config = flow[n].found]
        /\ flow[n].found \in Targets
    BY <1>1, <1>2, <1>4 DEF CreateAnswered, FlowShape, IsOk, Targets
  <2>2. g \in Flow /\ g.kind = "create" /\ g.at = "post" /\ g.answer = "none"
    BY <1>1, <1>2, AwaitingFacts
  <2> HIDE DEF g
  <2>3. /\ f \in Flow /\ f.kind = "create" /\ f.at = "post" /\ f.answer = "none"
        /\ f.target = flow[n].found
    BY <2>1, <2>2 DEF Flow
  <2>4. "post" \in Awaits["create"]
    BY DEF Awaits
  <2>5. /\ app' \in App /\ app'.status = app.status /\ app'.config = flow[n].found
    BY <1>3, <2>1 DEF App
  <2> HIDE DEF f
  <2>6. FlowShape(f)
    BY <2>1, <2>3, <2>4 DEF FlowShape
  <2>a. flow'[n] = f
    BY <2>1, <2>2, <2>3, FlowChange
  <2>7. ~disturbed => RequestCalm(flow[n])'
    BY <2>a, <1>1, <1>2, <2>3, <2>5 DEF RequestCalm, PostCalm, SessionKept
  <2>8. QED
    BY <1>1, <1>2, <1>3, <2>1, <2>3, <2>5, <2>6, <2>7, GoesOnStep
<1>5. CASE ~IsOk(n)
  <2>1. /\ flow' = [flow EXCEPT ![n] = NoFlow]
        /\ app' = [app EXCEPT !.status = "error", !.bootstrap = Nothing]
    BY <1>5 DEF CreateAnswered, Ended
  <2>2. app' \in App /\ app'.status = "error"
    BY <1>3, <2>1 DEF App
  <2>3. ~disturbed => Agreed'
    BY <1>1, <1>2, <2>2 DEF Agreed, SessionKept
  <2>4. QED
    BY <1>1, <1>2, <1>3, <2>1, <2>2, <2>3, NoFlowFacts, EndedStep
<1>6. QED
  BY <1>4, <1>5

LEMMA CheckAnsweredStep ==
  ASSUME ConnectionTypeOK, ConnectionInv, NEW n \in Flows, CheckAnswered(n)
  PROVE  ConnectionTypeOK' /\ ConnectionInv'
<1>1. /\ flow[n].at = "get" /\ flow[n].answer \in {"ok", "failed", "lost"}
      /\ flow[n].kind = "check"
      /\ UNCHANGED <<session, sandboxes, moves, disturbed>>
  BY DEF CheckAnswered, IsAnswered, UnchangedByAnswer
<1>2. /\ flow[n] \in Flow /\ FlowShape(flow[n])
      /\ ~disturbed => /\ IsOk(n) /\ app = FreshApp /\ SessionKept
                       /\ flow[n].found = session
                       /\ \A m \in Flows : m # n => ~RequestingFlow(m)
  BY <1>1, AnswerOf DEF RequestCalm, FlowFails, IsOk
<1>3. /\ app \in App /\ saved \in Targets \cup {Nothing}
      /\ flow[n].found \in Targets \cup {Nothing}
  BY <1>2 DEF ConnectionTypeOK, Flow
<1>4. CASE ~IsOk(n)
  <2>1. flow' = [flow EXCEPT ![n] = NoFlow] /\ UNCHANGED <<app, saved>>
    BY <1>4 DEF CheckAnswered, Ended
  <2>2. QED
    BY <1>1, <1>2, <1>3, <1>4, <2>1, NoFlowFacts, EndedStep
<1>5. CASE IsOk(n) /\ flow[n].found # Nothing /\ saved \in Sandboxes
  <2> DEFINE f == [flow[n] EXCEPT !.at = "verify", !.answer = "none", !.target = saved]
  <2>1. flow' = [flow EXCEPT ![n] = f] /\ UNCHANGED <<app, saved>>
    <3>1. flow' = [flow EXCEPT ![n].at = "verify", ![n].answer = "none",
                               ![n].target = saved]
          /\ UNCHANGED <<app, saved>>
      BY <1>5 DEF CheckAnswered
    <3>2. QED
      BY <3>1 DEF ConnectionTypeOK
  <2>2. /\ f \in Flow /\ f.kind = "check" /\ f.at = "verify" /\ f.answer = "none"
        /\ f.target = saved /\ f.found = flow[n].found /\ f.target \in Targets
    BY <1>1, <1>2, <1>5 DEF Flow, Targets
  <2>3. "verify" \in Awaits["check"]
    BY DEF Awaits
  <2> HIDE DEF f
  <2>4. FlowShape(f)
    BY <2>2, <2>3 DEF FlowShape
  <2>a. flow'[n] = f
    BY <2>1, <2>2, <2>3, FlowChange
  <2>5. ~disturbed => RequestCalm(flow[n])'
    BY <2>a, <1>1, <1>2, <1>5, <2>1, <2>2 DEF RequestCalm, SessionKept
  <2>6. QED
    BY <1>1, <1>2, <1>3, <2>1, <2>2, <2>4, <2>5, GoesOnStep
<1>6. CASE IsOk(n) /\ flow[n].found # Nothing /\ saved \notin Sandboxes
  <2>1. /\ flow' = [flow EXCEPT ![n] = NoFlow] /\ saved' = saved
        /\ app' = ConnectedTo(IF saved = Nothing THEN Unknown ELSE saved, flow[n].found)
    BY <1>6 DEF CheckAnswered, Ended, Restored
  <2>2. /\ app' \in App /\ app'.status = "connected" /\ app'.bootstrap = flow[n].found
        /\ saved # Nothing => app'.config = saved
    BY <1>3, <2>1 DEF ConnectedTo, App
  <2>3. ~disturbed => Agreed'
    BY <1>1, <1>2, <1>6, <2>1, <2>2 DEF Agreed, SessionKept
  <2>4. QED
    BY <1>1, <1>2, <1>3, <2>1, <2>2, <2>3, NoFlowFacts, EndedStep
<1>7. CASE IsOk(n) /\ flow[n].found = Nothing /\ saved \in Participants
  <2> DEFINE g == Awaiting(flow[n], "post")
             f == [g EXCEPT !.target = saved]
  <2>1. /\ flow' = [flow EXCEPT ![n] = f] /\ saved' = saved /\ saved \in Targets
        /\ app' = [app EXCEPT !.status = "connecting", !.config = saved]
    BY <1>7 DEF CheckAnswered, Targets
  <2>2. g \in Flow /\ g.kind = "check" /\ g.at = "post" /\ g.answer = "none"
    BY <1>1, <1>2, AwaitingFacts
  <2> HIDE DEF g
  <2>3. /\ f \in Flow /\ f.kind = "check" /\ f.at = "post" /\ f.answer = "none"
        /\ f.target = saved
    BY <2>1, <2>2 DEF Flow
  <2>4. "post" \in Awaits["check"]
    BY DEF Awaits
  <2>5. /\ app' \in App /\ app'.status = "connecting" /\ app'.config = saved
        /\ app'.bootstrap = app.bootstrap
    BY <1>3, <2>1 DEF App
  <2> HIDE DEF f
  <2>6. FlowShape(f)
    BY <2>1, <2>3, <2>4 DEF FlowShape
  <2>a. flow'[n] = f
    BY <2>1, <2>2, <2>3, FlowChange
  <2>7. ~disturbed => RequestCalm(flow[n])'
    BY <2>a, <1>1, <1>2, <2>1, <2>3, <2>5, FreshAppType DEF RequestCalm, PostCalm, SessionKept
  <2>8. QED
    BY <1>1, <1>2, <1>3, <2>1, <2>3, <2>5, <2>6, <2>7, GoesOnStep
<1>8. CASE IsOk(n) /\ flow[n].found = Nothing /\ saved \notin Participants
  <2>1. flow' = [flow EXCEPT ![n] = NoFlow] /\ saved' = Nothing /\ app' = app
    BY <1>8 DEF CheckAnswered, Ended
  <2>2. ~disturbed => Agreed'
    BY <1>1, <1>2, <1>8, <2>1, FreshAppType DEF Agreed, SessionKept
  <2>3. QED
    BY <1>1, <1>2, <1>3, <2>1, <2>2, NoFlowFacts, EndedStep
<1>9. QED
  BY <1>4, <1>5, <1>6, <1>7, <1>8

LEMMA VerifyAnsweredStep ==
  ASSUME ConnectionTypeOK, ConnectionInv, NEW n \in Flows, VerifyAnswered(n)
  PROVE  ConnectionTypeOK' /\ ConnectionInv'
<1>1. /\ flow[n].at = "verify" /\ flow[n].answer \in {"ok", "failed", "lost"}
      /\ flow[n].kind = "check"
      /\ UNCHANGED <<session, sandboxes, moves, disturbed>>
  BY DEF VerifyAnswered, IsAnswered, UnchangedByAnswer
<1>2. /\ flow[n] \in Flow /\ FlowShape(flow[n]) /\ flow[n].target \in Targets
      /\ ~disturbed => /\ app = FreshApp /\ SessionKept /\ session = saved
                       /\ flow[n].found = session /\ flow[n].target = saved
                       /\ \A m \in Flows : m # n => ~RequestingFlow(m)
  BY <1>1, AnswerOf DEF RequestCalm, FlowShape
<1>3. /\ app \in App /\ saved \in Targets \cup {Nothing}
      /\ flow[n].found \in Targets \cup {Nothing}
  BY <1>2 DEF ConnectionTypeOK, Flow
<1>4. CASE flow[n].answer = "failed"
  <2> DEFINE f == Awaiting(flow[n], "delete")
  <2>1. flow' = [flow EXCEPT ![n] = f] /\ saved' = Nothing /\ app' = app
    BY <1>4 DEF VerifyAnswered
  <2>2. f \in Flow /\ f.kind = "check" /\ f.at = "delete" /\ f.answer = "none"
    BY <1>1, <1>2, AwaitingFacts
  <2>3. "delete" \in Awaits["check"]
    BY DEF Awaits
  <2> HIDE DEF f
  <2>4. FlowShape(f)
    BY <2>2, <2>3 DEF FlowShape
  <2>a. flow'[n] = f
    BY <2>1, <2>2, <2>3, FlowChange
  <2>5. ~disturbed => RequestCalm(flow[n])'
    BY <2>a, <1>2, <2>1, <2>2 DEF RequestCalm
  <2>6. QED
    BY <1>1, <1>2, <1>3, <2>1, <2>2, <2>4, <2>5, GoesOnStep
<1>5. CASE flow[n].answer # "failed"
  <2>1. /\ flow' = [flow EXCEPT ![n] = NoFlow] /\ saved' = saved
        /\ app' = ConnectedTo(flow[n].target, flow[n].found)
    BY <1>5 DEF VerifyAnswered, Ended
  <2>2. /\ app' \in App /\ app'.status = "connected" /\ app'.bootstrap = flow[n].found
        /\ app'.config = flow[n].target
    BY <1>2, <1>3, <2>1 DEF ConnectedTo, App
  <2>3. ~disturbed => Agreed'
    BY <1>1, <1>2, <2>1, <2>2, ConnectionConstantsOK DEF Agreed, SessionKept
  <2>4. QED
    BY <1>1, <1>2, <1>3, <2>1, <2>2, <2>3, NoFlowFacts, EndedStep
<1>6. QED
  BY <1>4, <1>5

LEMMA AutoConnectAnsweredStep ==
  ASSUME ConnectionTypeOK, ConnectionInv, NEW n \in Flows, AutoConnectAnswered(n)
  PROVE  ConnectionTypeOK' /\ ConnectionInv'
<1>1. /\ flow[n].at = "post" /\ flow[n].answer \in {"ok", "failed", "lost"}
      /\ flow[n].kind = "check" /\ flow' = [flow EXCEPT ![n] = NoFlow]
      /\ UNCHANGED <<session, sandboxes, moves, disturbed>>
  BY DEF AutoConnectAnswered, IsAnswered, UnchangedByAnswer, Ended
<1>2. /\ flow[n] \in Flow /\ FlowShape(flow[n]) /\ flow[n].target \in Targets
      /\ ~disturbed => /\ flow[n].answer # "lost" /\ PostCalm(flow[n])
                       /\ app.bootstrap = Nothing /\ saved = flow[n].target
                       /\ \A m \in Flows : m # n => ~RequestingFlow(m)
  BY <1>1, AnswerOf DEF RequestCalm, FlowShape
<1>3. /\ app \in App /\ saved \in Targets \cup {Nothing}
  BY DEF ConnectionTypeOK
<1>4. CASE IsOk(n)
  <2>1. saved' = saved /\ app' = ConnectedTo(app.config, flow[n].found)
    BY <1>4 DEF AutoConnectAnswered
  <2>2. /\ app' \in App /\ app'.status = "connected" /\ app'.config = app.config
        /\ app'.bootstrap = flow[n].target
    BY <1>1, <1>2, <1>3, <1>4, <2>1 DEF ConnectedTo, App, FlowShape, IsOk
  <2>3. ~disturbed => Agreed'
    BY <1>1, <1>2, <1>4, <2>1, <2>2, ConnectionConstantsOK
       DEF PostCalm, IsOk, Agreed, SessionKept
  <2>4. QED
    BY <1>1, <1>2, <1>3, <2>1, <2>2, <2>3, NoFlowFacts, EndedStep
<1>5. CASE ~IsOk(n)
  <2>1. /\ saved' = Nothing
        /\ app' = [app EXCEPT !.status = "disconnected", !.config = Nothing]
    BY <1>5 DEF AutoConnectAnswered
  <2>2. /\ app' \in App /\ app'.status = "disconnected"
        /\ app'.bootstrap = app.bootstrap
    BY <1>3, <2>1 DEF App
  <2>3. ~disturbed => Agreed'
    BY <1>1, <1>2, <1>5, <2>1, <2>2 DEF PostCalm, IsOk, Agreed, SessionKept
  <2>4. QED
    BY <1>1, <1>2, <2>1, <2>2, <2>3, NoFlowFacts, EndedStep
<1>6. QED
  BY <1>4, <1>5

LEMMA DeleteAnsweredStep ==
  ASSUME ConnectionTypeOK, ConnectionInv, NEW n \in Flows, DeleteAnswered(n)
  PROVE  ConnectionTypeOK' /\ ConnectionInv'
<1>1. /\ flow[n].at = "delete" /\ flow[n].answer \in {"ok", "failed", "lost"}
      /\ flow' = [flow EXCEPT ![n] = NoFlow] /\ app' \in {app, FreshApp}
      /\ UNCHANGED <<saved, session, sandboxes, moves, disturbed>>
  BY DEF DeleteAnswered, IsAnswered, UnchangedByAnswer, Ended
<1>2. /\ flow[n] \in Flow /\ FlowShape(flow[n])
      /\ ~disturbed => /\ app = FreshApp /\ saved = Nothing /\ session = Nothing
                       /\ \A m \in Flows : m # n => ~RequestingFlow(m)
  BY <1>1, AnswerOf DEF RequestCalm, FlowFails
<1>3. app' \in App /\ saved' \in Targets \cup {Nothing}
  BY <1>1, FreshAppType DEF ConnectionTypeOK
<1>4. ~disturbed => Agreed'
  BY <1>1, <1>2, FreshAppType DEF Agreed, SessionKept
<1>5. QED
  BY <1>1, <1>2, <1>3, <1>4, NoFlowFacts, EndedStep

LEMMA RefreshAnsweredStep ==
  ASSUME ConnectionTypeOK, ConnectionInv, NEW n \in Flows, RefreshAnswered(n)
  PROVE  ConnectionTypeOK' /\ ConnectionInv'
<1>1. /\ flow[n].at = "get" /\ flow[n].answer \in {"ok", "failed", "lost"}
      /\ flow[n].kind = "refresh" /\ flow' = [flow EXCEPT ![n] = NoFlow]
      /\ app' = IF IsOk(n) /\ flow[n].found # Nothing
                THEN [app EXCEPT !.bootstrap = flow[n].found] ELSE app
      /\ UNCHANGED <<saved, session, sandboxes, moves, disturbed>>
  BY DEF RefreshAnswered, IsAnswered, UnchangedByAnswer, Ended
<1>2. /\ flow[n] \in Flow /\ FlowShape(flow[n])
      /\ ~disturbed => /\ Agreed /\ (IsOk(n) => flow[n].found = session)
                       /\ \A m \in Flows : m # n => ~RequestingFlow(m)
  BY <1>1, AnswerOf DEF RequestCalm, IsOk
<1>3. /\ app' \in App /\ saved' \in Targets \cup {Nothing}
      /\ app'.status = app.status /\ app'.config = app.config
      /\ app'.bootstrap = IF IsOk(n) /\ flow[n].found # Nothing
                          THEN flow[n].found ELSE app.bootstrap
  BY <1>1, <1>2 DEF ConnectionTypeOK, App, Flow
<1>4. ~disturbed => Agreed'
  BY <1>1, <1>2, <1>3 DEF Agreed, SessionKept
<1>5. QED
  BY <1>1, <1>2, <1>3, <1>4, NoFlowFacts, EndedStep

-----------------------------------------------------------------------------
(***************************************************************************)
(* The invariant.                                                          *)
(***************************************************************************)

LEMMA ConnectionInitially ==
  ASSUME ConnectionInit(TRUE)
  PROVE  ConnectionTypeOK /\ ConnectionInv
<1>1. /\ flow \in [Flows -> Flow] /\ \A n \in Flows : FlowShape(flow[n])
      /\ \A n \in Flows : n # 1 => flow[n].kind = "none"
      /\ \A n \in Flows : n = 1 => flow[n].kind = "check" /\ flow[n].at = "get"
                                   /\ flow[n].answer = "none"
  <2>1. flow = [n \in Flows |-> IF n = 1 THEN CheckFlow ELSE NoFlow]
    BY DEF ConnectionInit
  <2>2. QED
    BY <2>1, LoadedFlows
<1>2. /\ app = FreshApp /\ saved = Nothing /\ session = Nothing
      /\ sandboxes = {} /\ moves = 0 /\ disturbed = FALSE
  BY DEF ConnectionInit
<1>3. ConnectionTypeOK
  <2>1. 0 \in 0..MaxMoves /\ FALSE \in BOOLEAN
    BY ConnectionConstantsOK
  <2>2. app \in App /\ saved \in Targets \cup {Nothing} /\ session \in Targets \cup {Nothing}
    BY <1>2, FreshAppType
  <2>3. moves \in 0..MaxMoves /\ disturbed \in BOOLEAN /\ sandboxes \subseteq Sandboxes
    BY <1>2, <2>1
  <2>4. QED
    BY <1>1, <2>2, <2>3 DEF ConnectionTypeOK
<1>4. Calm
  <2>1. \A n \in Flows : RequestingFlow(n) => n = 1
    BY <1>1 DEF RequestingFlow, Running
  <2>2. \A n \in Flows : n = 1 => FlowFails(flow[n]) /\ RequestCalm(flow[n])
    BY <1>1, <1>2 DEF FlowFails, RequestCalm, SessionKept
  <2>3. Agreed
    BY <1>2, FreshAppType DEF Agreed, SessionKept
  <2>4. QED
    BY <2>1, <2>2, <2>3 DEF Calm
<1>5. QED
  BY <1>1, <1>3, <1>4 DEF ConnectionInv

\* Every step of the store keeps the invariant, what the gateway does and the
\* answers included.
LEMMA ButtonsStep ==
  ASSUME ConnectionTypeOK, ConnectionInv, Buttons
  PROVE  ConnectionTypeOK' /\ ConnectionInv'
BY ConnectStep, CreateSandboxStep, DisconnectStep, ConnectSandboxStep,
   RefreshBootstrapStep DEF Buttons

LEMMA ServedStep ==
  ASSUME ConnectionTypeOK, ConnectionInv, NEW n \in Flows, Gateway(n) \/ Unsubscribing(n)
  PROVE  ConnectionTypeOK' /\ ConnectionInv'
BY PostArrivesStep, PostDoneStep, PostFailsStep, DeleteHandledStep, GetHandledStep,
   SandboxCreatedStep DEF Gateway, Unsubscribing

LEMMA AnswerStep ==
  ASSUME ConnectionTypeOK, ConnectionInv, NEW n \in Flows, Answer(n)
  PROVE  ConnectionTypeOK' /\ ConnectionInv'
BY PostAnsweredStep, CreateAnsweredStep, CheckAnsweredStep, VerifyAnsweredStep,
   AutoConnectAnsweredStep, DeleteAnsweredStep, RefreshAnsweredStep DEF Answer

LEMMA UnchangedStep ==
  ASSUME ConnectionTypeOK, ConnectionInv, UNCHANGED connectionVars
  PROVE  ConnectionTypeOK' /\ ConnectionInv'
BY OthersChange DEF ConnectionTypeOK, connectionVars

\* When no request is under way, the invariant is what the user relies on.
LEMMA InvShown ==
  ASSUME ConnectionInv
  PROVE  ShownIsConnected
BY DEF ConnectionInv, Calm, Agreed, ShownIsConnected, Idle, Requesting

-----------------------------------------------------------------------------
(***************************************************************************)
(* Lists and their newest elements.                                        *)
(***************************************************************************)

LEMMA NewestFacts ==
  ASSUME NEW S, NEW list \in Seq(S), NEW n \in Nat
  PROVE  /\ Newest(list, n) \in Seq(S)
         /\ Len(Newest(list, n)) = IF Len(list) <= n THEN Len(list) ELSE n
         /\ \A i \in 1..Len(Newest(list, n)) :
              Newest(list, n)[i] = list[i + Len(list) - Len(Newest(list, n))]
<1>1. Len(list) \in Nat /\ \A i \in 1..Len(list) : list[i] \in S
  BY LenProperties, ElementOfSeq
<1>2. CASE Len(list) <= n
  BY <1>1, <1>2 DEF Newest
<1>3. CASE ~(Len(list) <= n)
  <2> DEFINE m == Len(list) - n + 1
             r == SubSeq(list, m, Len(list))
  <2>1. m \in Int /\ Len(list) \in Int /\ m \in 2..(Len(list) + 1)
    BY <1>1, <1>3
  <2>2. \A i \in m..Len(list) : list[i] \in S
    BY <1>1, <2>1
  <2>3. /\ r \in Seq(S)
        /\ Len(r) = IF m <= Len(list) THEN Len(list) - m + 1 ELSE 0
        /\ \A i \in 1..(Len(list) - m + 1) : r[i] = list[m + i - 1]
    <3> HIDE DEF m
    <3> QED BY <2>1, <2>2, SubSeqProperties
  <2>4. Newest(list, n) = r
    BY <1>3 DEF Newest
  <2>5. Len(r) = n /\ Len(list) - m + 1 = n
    BY <1>1, <1>3, <2>3
  <2>6. \A i \in 1..n : r[i] = list[i + Len(list) - n]
    <3> TAKE i \in 1..n
    <3>1. r[i] = list[m + i - 1]
      BY <2>3, <2>5
    <3>2. m + i - 1 = i + Len(list) - n
      BY <1>1
    <3>3. QED
      BY <3>1, <3>2
  <2>7. QED
    BY <1>3, <2>3, <2>4, <2>5, <2>6
<1>4. QED
  BY <1>2, <1>3

\* A list is what comes before its newest elements and these.
LEMMA ConcatOfEnd ==
  ASSUME NEW S, NEW s \in Seq(S), NEW n \in 0..Len(s)
  PROVE  /\ SubSeq(s, 1, Len(s) - n) \in Seq(S)
         /\ s = SubSeq(s, 1, Len(s) - n) \o Newest(s, n)
<1>1. Len(s) \in Nat /\ n \in Nat /\ \A i \in 1..Len(s) : s[i] \in S
  BY LenProperties, ElementOfSeq
<1> DEFINE k == Len(s) - n
           a == SubSeq(s, 1, k)
           b == Newest(s, n)
<1>2. 1 \in Int /\ k \in Int /\ k \in 0..Len(s) /\ \A i \in 1..k : s[i] \in S
  BY <1>1
<1> HIDE DEF k
<1>3. /\ a \in Seq(S) /\ Len(a) = IF 1 <= k THEN k - 1 + 1 ELSE 0
      /\ \A i \in 1..(k - 1 + 1) : a[i] = s[1 + i - 1]
  BY <1>2, SubSeqProperties
<1>4. /\ b \in Seq(S) /\ Len(b) = IF Len(s) <= n THEN Len(s) ELSE n
      /\ \A i \in 1..Len(b) : b[i] = s[i + Len(s) - Len(b)]
  BY <1>1, NewestFacts
<1> HIDE DEF a, b
<1>5. Len(a) = k /\ Len(b) = n
  BY <1>1, <1>2, <1>3, <1>4
<1>6. /\ a \o b \in Seq(S) /\ Len(a \o b) = Len(a) + Len(b)
      /\ \A i \in 1..(Len(a) + Len(b)) :
           (a \o b)[i] = IF i <= Len(a) THEN a[i] ELSE b[i - Len(a)]
  BY <1>3, <1>4, ConcatProperties
<1>7. Len(s) = Len(a \o b) /\ Len(s) = k + n
  BY <1>1, <1>2, <1>5, <1>6 DEF k
<1>8. \A i \in 1..Len(s) : s[i] = (a \o b)[i]
  <2> TAKE i \in 1..Len(s)
  <2>1. CASE i <= k
    BY <1>1, <1>2, <1>3, <1>5, <1>6, <1>7, <2>1
  <2>2. CASE ~(i <= k)
    <3>1. i - k \in 1..n /\ (a \o b)[i] = b[i - k]
      BY <1>1, <1>2, <1>5, <1>6, <1>7, <2>2
    <3>2. b[i - k] = s[i - k + Len(s) - n] /\ i - k + Len(s) - n = i
      BY <1>1, <1>2, <1>4, <1>5, <1>7, <3>1, SMTT(30)
    <3>3. QED
      BY <3>1, <3>2
  <2>3. QED
    BY <2>1, <2>2
<1>9. s = a \o b
  BY <1>6, <1>7, <1>8, SeqEqual
<1>10. QED
  BY <1>3, <1>9 DEF a, b, k
\* What comes before enough newer elements does not matter.
LEMMA NewestOfConcat ==
  ASSUME NEW S, NEW a \in Seq(S), NEW z \in Seq(S), NEW k \in 0..Len(z)
  PROVE  Newest(a \o z, k) = Newest(z, k)
<1> DEFINE az == a \o z
           x == Newest(az, k)
           y == Newest(z, k)
<1>1. Len(a) \in Nat /\ Len(z) \in Nat /\ k \in Nat /\ k <= Len(z)
  BY LenProperties
<1>2. /\ az \in Seq(S) /\ Len(az) = Len(a) + Len(z)
      /\ \A i \in 1..(Len(a) + Len(z)) :
           az[i] = IF i <= Len(a) THEN a[i] ELSE z[i - Len(a)]
  BY ConcatProperties
<1> HIDE DEF az
<1>3. /\ x \in Seq(S) /\ Len(x) = IF Len(az) <= k THEN Len(az) ELSE k
      /\ \A i \in 1..Len(x) : x[i] = az[i + Len(az) - Len(x)]
  BY <1>1, <1>2, NewestFacts
<1>4. /\ y \in Seq(S) /\ Len(y) = IF Len(z) <= k THEN Len(z) ELSE k
      /\ \A i \in 1..Len(y) : y[i] = z[i + Len(z) - Len(y)]
  BY <1>1, NewestFacts
<1> HIDE DEF x, y
<1>5. Len(x) = k /\ Len(y) = k
  BY <1>1, <1>2, <1>3, <1>4
<1>6. \A i \in 1..Len(x) : x[i] = y[i]
  <2> TAKE i \in 1..Len(x)
  <2> DEFINE q == i + Len(az) - Len(x)
  <2>1. /\ i \in 1..k /\ q = i + Len(a) + Len(z) - k /\ q \in 1..(Len(a) + Len(z))
        /\ ~(q <= Len(a)) /\ q - Len(a) = i + Len(z) - k
    BY <1>1, <1>2, <1>5
  <2>2. x[i] = az[q] /\ y[i] = z[i + Len(z) - k]
    BY <1>3, <1>4, <1>5
  <2> HIDE DEF q
  <2>3. az[q] = z[q - Len(a)]
    BY <1>2, <2>1
  <2>4. QED
    BY <2>1, <2>2, <2>3
<1>7. QED
  BY <1>3, <1>4, <1>5, <1>6, SeqEqual DEF x, y, az

\* A long list is cut: the newest k elements and some before them.
LEMMA LongList ==
  ASSUME NEW S, NEW s \in Seq(S), NEW k \in Nat, ~(Len(s) <= k)
  PROVE  /\ Newest(s, k) \in Seq(S) /\ Len(Newest(s, k)) = k
         /\ \E pre \in Seq(S) : s = pre \o Newest(s, k)
<1>1. Len(s) \in Nat /\ k \in 0..Len(s)
  <2>1. Len(s) \in Nat
    BY LenProperties
  <2>2. QED
    BY <2>1
<1>2. Newest(s, k) \in Seq(S) /\ Len(Newest(s, k)) = k
  BY NewestFacts
<1>3. /\ SubSeq(s, 1, Len(s) - k) \in Seq(S)
      /\ s = SubSeq(s, 1, Len(s) - k) \o Newest(s, k)
  BY <1>1, ConcatOfEnd
<1>4. QED
  BY <1>2, <1>3

\* A list that is short enough is not cut.
LEMMA ShortList ==
  ASSUME NEW s, NEW k, Len(s) <= k
  PROVE  Newest(s, k) = s
BY DEF Newest

\* Nothing is lost by cutting a list before it grows and is cut again ...
LEMMA CutBeforeAppend ==
  ASSUME NEW S, NEW s \in Seq(S), NEW b \in Seq(S), NEW k \in Nat
  PROVE  Newest(Newest(s, k) \o b, k) = Newest(s \o b, k)
<1>1. CASE Len(s) <= k
  BY <1>1, ShortList
<1>2. CASE ~(Len(s) <= k)
  <2> DEFINE c == Newest(s, k)
  <2>1. c \in Seq(S) /\ Len(c) = k
    BY <1>2, LongList
  <2>2. PICK pre \in Seq(S) : s = pre \o c
    BY <1>2, LongList
  <2> HIDE DEF c
  <2>3. s \o b = pre \o (c \o b)
    BY <2>1, <2>2, ConcatAssociative
  <2>4. c \o b \in Seq(S) /\ Len(c \o b) = k + Len(b) /\ Len(b) \in Nat
    BY <2>1, ConcatProperties, LenProperties
  <2> DEFINE cb == c \o b
  <2>5. cb \in Seq(S) /\ k \in 0..Len(cb)
    BY <2>4
  <2> HIDE DEF cb
  <2>6. Newest(pre \o cb, k) = Newest(cb, k)
    BY <2>5, NewestOfConcat
  <2>7. QED
    BY <2>3, <2>6 DEF c, cb
<1>3. QED
  BY <1>1, <1>2

\* ... nor by cutting it before something older is put in front.
LEMMA CutBeforePrepend ==
  ASSUME NEW S, NEW s \in Seq(S), NEW a \in Seq(S), NEW k \in Nat
  PROVE  Newest(a \o Newest(s, k), k) = Newest(a \o s, k)
<1>1. CASE Len(s) <= k
  BY <1>1, ShortList
<1>2. CASE ~(Len(s) <= k)
  <2> DEFINE c == Newest(s, k)
  <2>1. c \in Seq(S) /\ Len(c) = k
    BY <1>2, LongList
  <2>2. k \in 0..Len(c) /\ k \in 0..Len(s)
    <3>1. Len(s) \in Nat
      BY LenProperties
    <3>2. QED
      BY <1>2, <2>1, <3>1
  <2> HIDE DEF c
  <2>3. Newest(a \o c, k) = Newest(c, k)
    BY <2>1, <2>2, NewestOfConcat
  <2>4. Newest(c, k) = c
    BY <2>1, ShortList
  <2>5. Newest(a \o s, k) = Newest(s, k)
    BY <2>2, NewestOfConcat
  <2>6. QED
    BY <2>3, <2>4, <2>5 DEF c
<1>3. QED
  BY <1>1, <1>2

\* A list keeps its end when it is cut no shorter than that.
LEMMA CutKeepsEnd ==
  ASSUME NEW S, NEW a \in Seq(S), NEW b \in Seq(S), NEW k \in Nat
  PROVE  Newest(a \o b, k + Len(b)) = Newest(a, k) \o b
<1>0. Len(a) \in Nat /\ Len(b) \in Nat /\ Len(a \o b) = Len(a) + Len(b)
  BY LenProperties, ConcatProperties
<1>1. CASE Len(a) <= k
  <2>1. Len(a \o b) <= k + Len(b)
    BY <1>0, <1>1
  <2>2. QED
    BY <1>1, <2>1, ShortList
<1>2. CASE ~(Len(a) <= k)
  <2> DEFINE c == Newest(a, k)
  <2>1. c \in Seq(S) /\ Len(c) = k
    BY <1>2, LongList
  <2>2. PICK pre \in Seq(S) : a = pre \o c
    BY <1>2, LongList
  <2> HIDE DEF c
  <2>3. a \o b = pre \o (c \o b)
    BY <2>1, <2>2, ConcatAssociative
  <2>4. c \o b \in Seq(S) /\ Len(c \o b) = k + Len(b)
    BY <2>1, ConcatProperties
  <2> DEFINE cb == c \o b
             n == k + Len(b)
  <2>5. cb \in Seq(S) /\ n \in 0..Len(cb) /\ Len(cb) <= n
    BY <1>0, <2>4
  <2> HIDE DEF cb, n
  <2>6. Newest(pre \o cb, n) = Newest(cb, n)
    BY <2>5, NewestOfConcat
  <2>7. Newest(cb, n) = cb
    BY <2>5, ShortList
  <2>8. QED
    BY <2>3, <2>6, <2>7 DEF c, cb, n
<1>3. QED
  BY <1>1, <1>2

\* A list is its beginning and its end.
LEMMA EndOfConcat ==
  ASSUME NEW S, NEW a \in Seq(S), NEW b \in Seq(S)
  PROVE  /\ Newest(a \o b, Len(b)) = b
         /\ SubSeq(a \o b, 1, Len(a \o b) - Len(b)) = a
<1>1. Len(a) \in Nat /\ Len(b) \in Nat
  BY LenProperties
<1>2. Newest(a, 0) = <<>>
  <2>1. Newest(a, 0) \in Seq(S) /\ Len(Newest(a, 0)) = 0
    BY <1>1, NewestFacts
  <2>2. QED
    BY <2>1, EmptySeq
<1>3. Newest(a \o b, 0 + Len(b)) = Newest(a, 0) \o b
  BY CutKeepsEnd
<1>4. Newest(a \o b, Len(b)) = b
  BY <1>1, <1>2, <1>3, ConcatEmptySeq
<1>5. /\ a \o b \in Seq(S) /\ Len(a \o b) = Len(a) + Len(b)
      /\ \A i \in 1..(Len(a) + Len(b)) :
           (a \o b)[i] = IF i <= Len(a) THEN a[i] ELSE b[i - Len(a)]
  BY ConcatProperties
<1> DEFINE x == SubSeq(a \o b, 1, Len(a))
<1>6. \A i \in 1..Len(a) : (a \o b)[i] = a[i] /\ a[i] \in S
  BY <1>1, <1>5, ElementOfSeq
<1>7. /\ x \in Seq(S) /\ Len(x) = IF 1 <= Len(a) THEN Len(a) - 1 + 1 ELSE 0
      /\ \A i \in 1..(Len(a) - 1 + 1) : x[i] = (a \o b)[1 + i - 1]
  <2>1. 1 \in Int /\ Len(a) \in Int /\ \A i \in 1..Len(a) : (a \o b)[i] \in S
    BY <1>1, <1>6
  <2> DEFINE ab == a \o b
  <2> HIDE DEF ab
  <2>2. QED
    BY <2>1, SubSeqProperties
<1> HIDE DEF x
<1>8. Len(x) = Len(a) /\ \A i \in 1..Len(x) : x[i] = a[i]
  BY <1>1, <1>6, <1>7
<1>9. x = a
  BY <1>7, <1>8, SeqEqual
<1>10. Len(a \o b) - Len(b) = Len(a)
  BY <1>1, <1>5
<1>11. QED
  BY <1>4, <1>9, <1>10 DEF x


-----------------------------------------------------------------------------
(***************************************************************************)
(* What a list keeps.  The recursive function is defined by CHOOSE: by     *)
(* induction there is a function to be chosen, and by induction again it   *)
(* has kept what it should.                                                *)
(***************************************************************************)

\* f keeps, up to each of the first N elements, those that are not out.
Keeps(f, N, list, out) ==
  f = [n \in 0..N |->
         IF n = 0 THEN <<>>
         ELSE IF list[n] \in out THEN f[n - 1] ELSE Append(f[n - 1], list[n])]

LEMMA KeepsExists ==
  ASSUME NEW list, NEW out
  PROVE  \A N \in Nat : \E f : Keeps(f, N, list, out)
<1> DEFINE T == {N \in Nat : \E f : Keeps(f, N, list, out)}
<1>1. 0 \in T
  <2>1. Keeps([n \in 0..0 |-> <<>>], 0, list, out)
    BY DEF Keeps
  <2>2. QED
    BY <2>1
<1>2. ASSUME NEW N \in Nat, N \in T PROVE N + 1 \in T
  <2>1. PICK f : Keeps(f, N, list, out)
    BY <1>2
  <2> DEFINE last == IF list[N + 1] \in out THEN f[N] ELSE Append(f[N], list[N + 1])
             g == [n \in 0..(N + 1) |-> IF n = N + 1 THEN last ELSE f[n]]
  <2>2. \A n \in 0..N : g[n] = f[n] /\ n \in 0..(N + 1)
    OBVIOUS
  <2>3. \A n \in 0..N :
          f[n] = IF n = 0 THEN <<>>
                 ELSE IF list[n] \in out THEN f[n - 1] ELSE Append(f[n - 1], list[n])
    BY <2>1 DEF Keeps
  <2>4. \A n \in 0..(N + 1) : n # 0 => n - 1 \in 0..N
    OBVIOUS
  <2>5. \A n \in 0..(N + 1) :
          g[n] = IF n = 0 THEN <<>>
                 ELSE IF list[n] \in out THEN g[n - 1] ELSE Append(g[n - 1], list[n])
    <3> TAKE n \in 0..(N + 1)
    <3>1. CASE n = N + 1
      BY <2>2, <2>4, <3>1
    <3>2. CASE n # N + 1
      <4>1. n \in 0..N /\ g[n] = f[n]
        BY <2>2, <3>2
      <4>2. n # 0 => g[n - 1] = f[n - 1]
        BY <2>2, <2>4
      <4> HIDE DEF g
      <4>3. QED
        BY <2>3, <4>1, <4>2
    <3>3. QED
      BY <3>1, <3>2
  <2>6. g = [n \in 0..(N + 1) |-> g[n]]
    OBVIOUS
  <2> HIDE DEF g
  <2>7. Keeps(g, N + 1, list, out)
    BY <2>5, <2>6 DEF Keeps
  <2>8. QED
    BY <2>7
<1>3. Nat \subseteq T
  <2> HIDE DEF T
  <2> QED BY <1>1, <1>2, SetInduction
<1>4. QED
  BY <1>3

LEMMA KeepsFacts ==
  ASSUME NEW S, NEW list \in Seq(S), NEW out
  PROVE  \A f : Keeps(f, Len(list), list, out) =>
           /\ f[Len(list)] \in Seq(S \ out)
           /\ SeenIn(f[Len(list)]) = SeenIn(list) \ out
<1> SUFFICES ASSUME NEW f, Keeps(f, Len(list), list, out)
             PROVE  /\ f[Len(list)] \in Seq(S \ out)
                    /\ SeenIn(f[Len(list)]) = SeenIn(list) \ out
  OBVIOUS
<1>0. Len(list) \in Nat /\ DOMAIN list = 1..Len(list)
  BY LenProperties
<1>1. \A n \in 1..Len(list) : list[n] \in S
  BY ElementOfSeq
<1>a. \A n \in 0..Len(list) :
        f[n] = IF n = 0 THEN <<>>
               ELSE IF list[n] \in out THEN f[n - 1] ELSE Append(f[n - 1], list[n])
  BY DEF Keeps
<1> DEFINE Upto(n) == {list[i] : i \in 1..n} \ out
           T == {n \in Nat : n <= Len(list) =>
                   f[n] \in Seq(S \ out) /\ SeenIn(f[n]) = Upto(n)}
<1>2. 0 \in T
  <2>1. f[0] = <<>>
    BY <1>0 DEF Keeps
  <2>2. SeenIn(<<>>) = {}
    BY DEF SeenIn
  <2>3. Upto(0) = {} /\ <<>> \in Seq(S \ out)
    BY EmptySeq
  <2>4. f[0] \in Seq(S \ out) /\ SeenIn(f[0]) = Upto(0)
    BY <2>1, <2>2, <2>3
  <2>5. QED
    BY <2>4
<1>3. ASSUME NEW n \in Nat, n \in T PROVE n + 1 \in T
  <2> SUFFICES ASSUME n + 1 <= Len(list)
               PROVE  f[n + 1] \in Seq(S \ out) /\ SeenIn(f[n + 1]) = Upto(n + 1)
    OBVIOUS
  <2>1. /\ n + 1 \in 0..Len(list) /\ n + 1 \in 1..Len(list) /\ n + 1 # 0
        /\ n + 1 - 1 = n /\ list[n + 1] \in S
    BY <1>0, <1>1
  <2>2. f[n + 1] = IF list[n + 1] \in out THEN f[n] ELSE Append(f[n], list[n + 1])
    <3>1. f[n + 1] = IF n + 1 = 0 THEN <<>>
                     ELSE IF list[n + 1] \in out THEN f[n + 1 - 1]
                     ELSE Append(f[n + 1 - 1], list[n + 1])
      BY <1>a, <2>1
    <3>2. QED
      BY <2>1, <3>1
  <2>3. f[n] \in Seq(S \ out) /\ SeenIn(f[n]) = Upto(n)
    BY <1>0, <1>3
  <2>4. {list[i] : i \in 1..(n + 1)} = {list[i] : i \in 1..n} \cup {list[n + 1]}
    OBVIOUS
  <2>5. CASE list[n + 1] \in out
    BY <2>2, <2>3, <2>4, <2>5
  <2>6. CASE list[n + 1] \notin out
    <3> DEFINE x == list[n + 1]
               a == Append(f[n], x)
    <3>1. x \in S \ out
      BY <2>1, <2>6
    <3>2. /\ a \in Seq(S \ out) /\ Len(a) = Len(f[n]) + 1
          /\ \A i \in 1..Len(f[n]) : a[i] = f[n][i]
          /\ a[Len(f[n]) + 1] = x
      BY <2>3, <3>1, AppendProperties
    <3>3. Len(f[n]) \in Nat /\ DOMAIN f[n] = 1..Len(f[n]) /\ DOMAIN a = 1..Len(a)
      BY <2>3, <3>2, LenProperties
    <3> HIDE DEF a
    <3>4. SeenIn(a) = SeenIn(f[n]) \cup {x}
      BY <3>2, <3>3, SMTT(30) DEF SeenIn
    <3>5. f[n + 1] = a
      BY <2>2, <2>6 DEF a
    <3>6. QED
      BY <2>3, <2>4, <2>6, <3>2, <3>4, <3>5
  <2>7. QED
    BY <2>5, <2>6
<1>4. Nat \subseteq T
  <2> HIDE DEF T
  <2> QED BY <1>2, <1>3, SetInduction
<1>5. f[Len(list)] \in Seq(S \ out) /\ SeenIn(f[Len(list)]) = Upto(Len(list))
  <2>1. Len(list) \in T
    BY <1>0, <1>4
  <2>2. QED
    BY <1>0, <2>1
<1>6. QED
  BY <1>0, <1>5 DEF SeenIn

\* What is left of a list.
LEMMA ExcludingFacts ==
  ASSUME NEW S, NEW list \in Seq(S), NEW out
  PROVE  /\ Excluding(list, out) \in Seq(S \ out)
         /\ SeenIn(Excluding(list, out)) = SeenIn(list) \ out
<1> DEFINE f == CHOOSE g : Keeps(g, Len(list), list, out)
<1>1. Len(list) \in Nat
  BY LenProperties
<1>2. Keeps(f, Len(list), list, out)
  BY <1>1, KeepsExists
<1>3. Excluding(list, out) = f[Len(list)]
  BY DEF Excluding, Keeps
<1> HIDE DEF f
<1>4. f[Len(list)] \in Seq(S \ out) /\ SeenIn(f[Len(list)]) = SeenIn(list) \ out
  <2>1. \A g : Keeps(g, Len(list), list, out) =>
               /\ g[Len(list)] \in Seq(S \ out)
               /\ SeenIn(g[Len(list)]) = SeenIn(list) \ out
    BY KeepsFacts, Zenon
  <2>2. QED
    BY <1>2, <2>1, Zenon
<1>5. QED
  BY <1>3, <1>4

-----------------------------------------------------------------------------
(***************************************************************************)
(* Functions that change no list, and what they do to the sockets.         *)
(***************************************************************************)

\* Nothing of the list changes, more need not be held, and feeds go on, end or
\* have passed nothing else.
SameList(t, u) ==
  /\ u.events = t.events /\ u.buffer = t.buffer /\ u.arrived = t.arrived
  /\ u.paused = t.paused /\ u.lost = t.lost /\ t.skipped \subseteq u.skipped
  /\ \A i \in Sockets : u.sockets[i].feed.status = "open" =>
       \/ u.sockets[i].feed = t.sockets[i].feed
       \/ \A r \in Required :
            r <= Listener!Position(u.sockets[i].feed) => r \in u.skipped

LEMMA SameListKeeps ==
  ASSUME NEW t, NEW u, ListInv(t), SameList(t, u)
  PROVE  ListInv(u)
<1>1. HeldIn(u) = HeldIn(t) /\ t.skipped \subseteq u.skipped /\ (NewestIn(t) => NewestIn(u))
  BY DEF SameList, HeldIn, NewestIn
<1>2. Accounted(t) \subseteq Accounted(u) /\ u.skipped \subseteq Accounted(u)
  BY <1>1 DEF Accounted
<1>3. NoHolesIn(u)
  BY <1>1, <1>2 DEF ListInv, NoHolesIn
<1>4. ASSUME NEW i \in Sockets PROVE PassedHeld(u, i)
  <2>1. PassedHeld(t, i)
    BY DEF ListInv
  <2>2. CASE u.sockets[i].feed.status # "open"
    BY <2>2 DEF PassedHeld
  <2>3. CASE u.sockets[i].feed = t.sockets[i].feed
    BY <1>2, <2>1, <2>3 DEF PassedHeld
  <2>4. CASE \A r \in Required :
               r <= Listener!Position(u.sockets[i].feed) => r \in u.skipped
    BY <1>2, <2>4 DEF PassedHeld
  <2>5. QED
    BY <2>2, <2>3, <2>4 DEF SameList
<1>5. QED
  BY <1>1, <1>3, <1>4 DEF SameList, ListInv

LEMMA SameListTwice ==
  ASSUME NEW t, NEW u, NEW v, SameList(t, u), SameList(u, v)
  PROVE  SameList(t, v)
<1>1. t.skipped \subseteq u.skipped /\ u.skipped \subseteq v.skipped
  BY DEF SameList
<1>2. ASSUME NEW i \in Sockets, v.sockets[i].feed.status = "open"
      PROVE  \/ v.sockets[i].feed = t.sockets[i].feed
             \/ \A r \in Required :
                  r <= Listener!Position(v.sockets[i].feed) => r \in v.skipped
  <2>1. CASE v.sockets[i].feed = u.sockets[i].feed
    <3>1. \/ u.sockets[i].feed = t.sockets[i].feed
          \/ \A r \in Required :
               r <= Listener!Position(u.sockets[i].feed) => r \in u.skipped
      BY <1>2, <2>1 DEF SameList
    <3>2. QED
      BY <1>1, <2>1, <3>1
  <2>2. QED
    BY <1>2, <2>1 DEF SameList
<1>3. QED
  BY <1>1, <1>2 DEF SameList

\* Sockets that have not been opened yet or not any more.
LEMMA SocketFacts ==
  /\ ClosedSocket \in Socket /\ ClosedSocket.state = "closed"
  /\ ClosedSocket.feed.status = "unopened"
  /\ ClosingSocket \in Socket /\ ClosingSocket.state = "closing"
  /\ ClosingSocket.feed.status = "unopened"
  /\ \A st \in {"closed", "connecting", "open", "closing"} :
       [state |-> st, feed |-> Listener!Unopened] \in Socket
  /\ Listener!Unopened.status = "unopened"
<1>1. Listener!Unopened = [status |-> "unopened", after |-> 0, received |-> <<>>]
  BY DEF Listener!Unopened
<1>2. <<>> \in Seq(Updates)
  BY EmptySeq
<1>3. QED
  BY <1>1, <1>2 DEF ClosedSocket, ClosingSocket, Socket, Offsets

\* What is changed besides lists and sockets.
SameSockets(t, u) == u.sockets = t.sockets /\ u.ws = t.ws

LEMMA SameSocketsKeeps ==
  ASSUME NEW t, NEW u, SameSockets(t, u)
  PROVE  /\ SocketInv(t) => SocketInv(u)
         /\ HasFreeSocket(t) => HasFreeSocket(u)
BY DEF SameSockets, SocketInv, Alive, HasFreeSocket

LEMMA CloseWsFacts ==
  ASSUME NEW t \in Stream
  PROVE  /\ CloseWs(t) \in Stream /\ CloseWs(t).ws = NoSocket
         /\ SameList(t, CloseWs(t))
         /\ SocketInv(t) => \A i \in Sockets : ~Alive(CloseWs(t), i)
         /\ CloseWs(t).attempts = t.attempts
<1> DEFINE s == [i \in Sockets |->
                   IF i = t.ws /\ Alive(t, i) THEN ClosingSocket ELSE t.sockets[i]]
           u == CloseWs(t)
<1>1. s \in [Sockets -> Socket]
  BY SocketFacts DEF Stream
<1>2. u = [t EXCEPT !.ws = NoSocket, !.sockets = s]
  BY DEF CloseWs
<1>3. \A i \in Sockets : s[i] = t.sockets[i] \/ s[i] = ClosingSocket
  OBVIOUS
<1>4. SocketInv(t) => \A i \in Sockets : i = NoSocket \/ s[i].state \notin {"connecting", "open"}
  BY SocketFacts DEF SocketInv, Alive
<1> HIDE DEF s
<1>5. /\ u \in Stream /\ u.ws = NoSocket /\ u.sockets = s
      /\ u.events = t.events /\ u.buffer = t.buffer /\ u.arrived = t.arrived
      /\ u.paused = t.paused /\ u.lost = t.lost /\ u.skipped = t.skipped
      /\ u.attempts = t.attempts
  BY <1>1, <1>2 DEF Stream
<1> HIDE DEF u
<1>6. SameList(t, u)
  BY <1>3, <1>5, SocketFacts DEF SameList
<1>7. SocketInv(t) => \A i \in Sockets : ~Alive(u, i)
  BY <1>4, <1>5 DEF Alive
<1>8. QED
  BY <1>5, <1>6, <1>7 DEF u

LEMMA FreeSocketFacts ==
  ASSUME NEW t, HasFreeSocket(t)
  PROVE  FreeSocket(t) \in Sockets
BY DEF HasFreeSocket, FreeSocket

\* connectWebSocket closes the old socket before it opens a new one.
LEMMA ConnectWebSocketFacts ==
  ASSUME NEW t \in Stream, SocketInv(t), HasFreeSocket(t)
  PROVE  /\ ConnectWebSocket(t) \in Stream /\ SocketInv(ConnectWebSocket(t))
         /\ SameList(t, ConnectWebSocket(t))
<1> DEFINE u == CloseWs(t)
           i == FreeSocket(t)
           new == [state |-> "connecting", feed |-> Listener!Unopened]
           s == [u.sockets EXCEPT ![i] = new]
           v == ConnectWebSocket(t)
<1>1. /\ u \in Stream /\ SameList(t, u) /\ i \in Sockets /\ new \in Socket
      /\ new.feed.status = "unopened"
      /\ \A j \in Sockets : ~Alive(u, j)
  BY CloseWsFacts, FreeSocketFacts, SocketFacts
<1>2. v = [u EXCEPT !.timer = FALSE, !.status = "reconnecting", !.ws = i,
                    !.sockets[i] = new]
  BY DEF ConnectWebSocket
<1> HIDE DEF u, i, new, v
<1>3. /\ s \in [Sockets -> Socket] /\ s[i] = new
      /\ \A j \in Sockets : j # i => s[j] = u.sockets[j]
  BY <1>1 DEF Stream
<1>4. v = [u EXCEPT !.timer = FALSE, !.status = "reconnecting", !.ws = i, !.sockets = s]
  BY <1>2 DEF s
<1> HIDE DEF s
<1>5. /\ v \in Stream /\ v.ws = i /\ v.sockets = s
      /\ v.events = u.events /\ v.buffer = u.buffer /\ v.arrived = u.arrived
      /\ v.paused = u.paused /\ v.lost = u.lost /\ v.skipped = u.skipped
  BY <1>1, <1>3, <1>4 DEF Stream
<1>6. SameList(u, v)
  BY <1>1, <1>3, <1>5 DEF SameList
<1>7. SocketInv(v)
  BY <1>1, <1>3, <1>5 DEF SocketInv, Alive
<1>8. QED
  BY <1>1, <1>5, <1>6, <1>7, SameListTwice DEF u, v

\* disconnectWebSocket closes the socket, whatever else is pending.
LEMMA DisconnectWebSocketFacts ==
  ASSUME NEW t \in Stream, SocketInv(t)
  PROVE  /\ DisconnectWebSocket(t) \in Stream /\ SocketInv(DisconnectWebSocket(t))
         /\ SameList(t, DisconnectWebSocket(t))
<1> DEFINE u == CloseWs(t)
           v == DisconnectWebSocket(t)
<1>1. u \in Stream /\ SameList(t, u) /\ \A j \in Sockets : ~Alive(u, j)
  BY CloseWsFacts
<1>2. v = [u EXCEPT !.timer = FALSE, !.attempts = 0, !.status = "disconnected"]
  BY DEF DisconnectWebSocket
<1> HIDE DEF u, v
<1>3. /\ v \in Stream /\ v.ws = u.ws /\ v.sockets = u.sockets
      /\ v.events = u.events /\ v.buffer = u.buffer /\ v.arrived = u.arrived
      /\ v.paused = u.paused /\ v.lost = u.lost /\ v.skipped = u.skipped
  <2>1. 0 \in 0..MaxAttempts
    BY StoreConstantsOK
  <2>2. QED
    BY <1>1, <1>2, <2>1 DEF Stream
<1>4. SameList(u, v) /\ SocketInv(v)
  BY <1>1, <1>3 DEF SameList, SocketInv, Alive
<1>5. QED
  BY <1>1, <1>3, <1>4, SameListTwice DEF u, v

\* A step that keeps both invariants because it changes no list.
LEMMA StreamStep ==
  ASSUME NEW t, NEW u, ListInv(t), SameList(t, u), SocketInv(u), u \in Stream
  PROVE  u \in Stream /\ SocketInv(u) /\ ListInv(u)
BY SameListKeeps

LEMMA ManagedFacts ==
  ASSUME NEW t \in Stream, SocketInv(t), ListInv(t), NEW old, NEW new
  PROVE  LET u == Managed(t, old, new) IN u \in Stream /\ SocketInv(u) /\ ListInv(u)
<1> DEFINE u == StartCollection(t)
<1>1. /\ u \in Stream /\ u.ws = t.ws /\ u.sockets = t.sockets
      /\ u.events = t.events /\ u.buffer = t.buffer /\ u.arrived = t.arrived
      /\ u.paused = t.paused /\ u.lost = t.lost /\ u.skipped = t.skipped
  <2>1. t.starting + 1 \in Nat
    BY DEF Stream
  <2>2. QED
    BY <2>1 DEF StartCollection, Stream
<1> HIDE DEF u
<1>2. SocketInv(u) /\ ListInv(u)
  BY <1>1, SameSocketsKeeps, SameListKeeps DEF SameSockets, SameList
<1>3. LET v == StopCollection(t) IN v \in Stream /\ SocketInv(v) /\ ListInv(v)
  BY DisconnectWebSocketFacts, SameListKeeps DEF StopCollection
<1>4. QED
  BY <1>1, <1>2, <1>3 DEF Managed, u

LEMMA EndFeedsFacts ==
  ASSUME NEW t \in Stream, SocketInv(t), ListInv(t)
  PROVE  LET u == EndFeeds(t) IN u \in Stream /\ SocketInv(u) /\ ListInv(u)
<1> DEFINE s == [i \in Sockets |->
                   IF t.sockets[i].feed.status = "open"
                   THEN [t.sockets[i] EXCEPT !.feed.status = "ended"] ELSE t.sockets[i]]
           u == EndFeeds(t)
<1>1. \A i \in Sockets : t.sockets[i] \in Socket
  BY DEF Stream
<1>2. \A i \in Sockets : /\ s[i] \in Socket /\ s[i].state = t.sockets[i].state
                          /\ s[i].feed.status # "open"
  BY <1>1, SMTT(30) DEF Socket
<1>3. u = [t EXCEPT !.sockets = s] /\ s = [i \in Sockets |-> s[i]]
  BY DEF EndFeeds
<1> HIDE DEF s, u
<1>4. s \in [Sockets -> Socket]
  BY <1>2, <1>3
<1>5. /\ u \in Stream /\ u.ws = t.ws /\ u.sockets = s
      /\ u.events = t.events /\ u.buffer = t.buffer /\ u.arrived = t.arrived
      /\ u.paused = t.paused /\ u.lost = t.lost /\ u.skipped = t.skipped
  BY <1>3, <1>4 DEF Stream
<1>6. SocketInv(u) /\ SameList(t, u)
  BY <1>2, <1>5 DEF SocketInv, Alive, SameList
<1>7. QED
  BY <1>5, <1>6, SameListKeeps DEF u

-----------------------------------------------------------------------------
(***************************************************************************)
(* Functions that change the list.                                         *)
(***************************************************************************)

\* What is seen in lists that are put together.
LEMMA SeenInConcat ==
  ASSUME NEW S, NEW a \in Seq(S), NEW b \in Seq(S)
  PROVE  SeenIn(a \o b) = SeenIn(a) \cup SeenIn(b)
<1>0. Len(a) \in Nat /\ DOMAIN a = 1..Len(a) /\ Len(b) \in Nat /\ DOMAIN b = 1..Len(b)
  BY LenProperties
<1> DEFINE c == a \o b
<1>1. /\ c \in Seq(S) /\ Len(c) = Len(a) + Len(b)
      /\ \A i \in 1..(Len(a) + Len(b)) :
           c[i] = IF i <= Len(a) THEN a[i] ELSE b[i - Len(a)]
  BY ConcatProperties
<1>2. DOMAIN c = 1..(Len(a) + Len(b))
  BY <1>1, LenProperties
<1> HIDE DEF c
<1>3. \A i \in DOMAIN c : c[i] \in SeenIn(a) \cup SeenIn(b)
  <2> TAKE i \in DOMAIN c
  <2>1. i \in DOMAIN a \/ (~(i <= Len(a)) /\ i - Len(a) \in DOMAIN b)
    BY <1>0, <1>2
  <2>2. \/ i \in DOMAIN a /\ c[i] = a[i]
        \/ i - Len(a) \in DOMAIN b /\ c[i] = b[i - Len(a)]
    BY <1>0, <1>1, <1>2, <2>1
  <2>3. QED
    BY <2>2 DEF SeenIn
<1>4. \A i \in DOMAIN a : i \in DOMAIN c /\ c[i] = a[i]
  BY <1>0, <1>1, <1>2
<1>5. \A i \in DOMAIN b : i + Len(a) \in DOMAIN c /\ c[i + Len(a)] = b[i]
  <2> TAKE i \in DOMAIN b
  <2>1. /\ i + Len(a) \in 1..(Len(a) + Len(b)) /\ ~(i + Len(a) <= Len(a))
        /\ i + Len(a) - Len(a) = i
    BY <1>0
  <2>2. QED
    BY <1>1, <1>2, <2>1
<1>6. SeenIn(c) = SeenIn(a) \cup SeenIn(b)
  BY <1>3, <1>4, <1>5 DEF SeenIn
<1>7. QED
  BY <1>6 DEF c

LEMMA SeenFacts ==
  ASSUME NEW S, NEW a \in Seq(S), NEW u \in S
  PROVE  /\ SeenIn(a) \subseteq S
         /\ SeenIn(Append(a, u)) = SeenIn(a) \cup {u}
<1>1. /\ Len(a) \in Nat /\ DOMAIN a = 1..Len(a)
      /\ \A i \in 1..Len(a) : a[i] \in S
  BY LenProperties, ElementOfSeq
<1>2. SeenIn(Append(a, u)) = SeenIn(a) \cup {u}
  <2> DEFINE c == Append(a, u)
  <2>1. /\ c \in Seq(S) /\ Len(c) = Len(a) + 1 /\ c[Len(a) + 1] = u
        /\ \A i \in 1..Len(a) : c[i] = a[i]
    BY AppendProperties
  <2>2. DOMAIN c = 1..(Len(a) + 1)
    BY <2>1, LenProperties
  <2> HIDE DEF c
  <2>3. \A i \in DOMAIN c : c[i] \in SeenIn(a) \cup {u}
    <3> TAKE i \in DOMAIN c
    <3>1. i = Len(a) + 1 \/ (i \in DOMAIN a /\ i \in 1..Len(a))
      BY <1>1, <2>2
    <3>2. c[i] = u \/ (i \in DOMAIN a /\ c[i] = a[i])
      BY <2>1, <3>1
    <3>3. QED
      BY <3>2 DEF SeenIn
  <2>4. \A i \in DOMAIN a : i \in DOMAIN c /\ c[i] = a[i]
    BY <1>1, <2>1, <2>2
  <2>5. Len(a) + 1 \in DOMAIN c
    BY <1>1, <2>2
  <2>6. SeenIn(c) = SeenIn(a) \cup {u}
    BY <2>1, <2>3, <2>4, <2>5 DEF SeenIn
  <2>7. QED
    BY <2>6 DEF c
<1>3. SeenIn(a) \subseteq S
  BY <1>1 DEF SeenIn
<1>4. QED
  BY <1>2, <1>3

\* What has arrived is what is shown, cut or not, and what is buffered.
LEMMA NewestSplit ==
  ASSUME NEW t \in Stream
  PROVE  NewestIn(t) <=> \E shown \in Seq(Updates) :
                           /\ t.arrived = shown \o t.buffer
                           /\ t.events = Newest(shown, MaxEvents)
<1>1. t.arrived \in Seq(Updates) /\ t.buffer \in Seq(Updates)
  BY DEF Stream
<1>2. Len(t.arrived) \in Nat /\ Len(t.buffer) \in Nat
  BY <1>1, LenProperties
<1> DEFINE before == SubSeq(t.arrived, 1, Len(t.arrived) - Len(t.buffer))
<1>3. ASSUME NewestIn(t)
      PROVE  /\ before \in Seq(Updates) /\ t.arrived = before \o t.buffer
             /\ t.events = Newest(before, MaxEvents)
  <2>1. /\ Len(t.buffer) <= Len(t.arrived) /\ t.events = Newest(before, MaxEvents)
        /\ t.buffer = Newest(t.arrived, Len(t.buffer))
    BY <1>3 DEF NewestIn
  <2>2. Len(t.buffer) \in 0..Len(t.arrived)
    BY <1>2, <2>1
  <2>3. /\ before \in Seq(Updates)
        /\ t.arrived = before \o Newest(t.arrived, Len(t.buffer))
    BY <1>1, <2>2, ConcatOfEnd
  <2> HIDE DEF before
  <2>4. QED
    BY <2>1, <2>3
<1>4. ASSUME NEW shown \in Seq(Updates), t.arrived = shown \o t.buffer,
             t.events = Newest(shown, MaxEvents)
      PROVE  NewestIn(t)
  <2>1. Newest(t.arrived, Len(t.buffer)) = t.buffer /\ before = shown
    BY <1>1, <1>4, EndOfConcat
  <2>2. Len(t.arrived) = Len(shown) + Len(t.buffer) /\ Len(shown) \in Nat
    BY <1>1, <1>4, ConcatProperties, LenProperties
  <2>3. Len(t.buffer) <= Len(t.arrived)
    BY <1>2, <2>2
  <2>4. t.events = Newest(before, MaxEvents) /\ t.buffer = Newest(t.arrived, Len(t.buffer))
    BY <1>4, <2>1
  <2>5. QED
    BY <2>3, <2>4 DEF NewestIn
<1>5. QED
  BY <1>3, <1>4

\* The history of what arrived grows with the buffer, and keeps its end.
LEMMA RememberFacts ==
  ASSUME NEW list \in Seq(Updates), NEW buffer \in Seq(Updates)
  PROVE  /\ Remember(list, buffer) \in Seq(Updates)
         /\ \A a \in Seq(Updates) : list = a \o buffer =>
              Remember(list, buffer) = Newest(a, MaxEvents) \o buffer
<1>1. MaxEvents \in Nat /\ Len(buffer) \in Nat /\ MaxEvents + Len(buffer) \in Nat
  <2>1. MaxEvents \in Nat /\ Len(buffer) \in Nat
    BY StoreConstantsOK, LenProperties
  <2>2. QED
    BY <2>1
<1>2. Remember(list, buffer) \in Seq(Updates)
  BY <1>1, NewestFacts DEF Remember
<1>3. ASSUME NEW a \in Seq(Updates), list = a \o buffer
      PROVE  Remember(list, buffer) = Newest(a, MaxEvents) \o buffer
  BY <1>1, <1>3, CutKeepsEnd DEF Remember
<1>4. QED
  BY <1>2, <1>3

\* Without a buffer.
LEMMA RememberNothing ==
  ASSUME NEW list \in Seq(Updates)
  PROVE  Remember(list, <<>>) = Newest(list, MaxEvents)
<1>1. <<>> \in Seq(Updates) /\ list = list \o <<>> /\ Newest(list, MaxEvents) \in Seq(Updates)
  BY EmptySeq, ConcatEmptySeq, StoreConstantsOK, NewestFacts
<1>2. Remember(list, <<>>) = Newest(list, MaxEvents) \o <<>>
  BY <1>1, RememberFacts
<1>3. QED
  BY <1>1, <1>2, ConcatEmptySeq

\* A list that has been cut needs no cutting.
LEMMA CutTwice ==
  ASSUME NEW S, NEW s \in Seq(S), NEW k \in Nat
  PROVE  Newest(Newest(s, k), k) = Newest(s, k) /\ Len(Newest(s, k)) <= k
<1>1. Newest(s, k) \in Seq(S) /\ Len(Newest(s, k)) <= k
  <2>1. Len(s) \in Nat
    BY LenProperties
  <2>2. QED
    BY <2>1, NewestFacts
<1>2. QED
  BY <1>1, ShortList

\* Everything that was accounted for still is, and so is what precedes the
\* new ones and what the feeds have passed.
LEMMA KeepsHoles ==
  ASSUME NEW t, ListInv(t), NEW v, NEW new, HeldIn(v) \subseteq HeldIn(t) \cup new,
         \A r \in Required : r \in Accounted(t) => r \in Accounted(v),
         \A u \in new, r \in Required : r < u => r \in Accounted(v),
         \A j \in Sockets :
           \/ v.sockets[j] = t.sockets[j]
           \/ \A r \in Required :
                r <= Listener!Position(v.sockets[j].feed) => r \in Accounted(v)
  PROVE  NoHolesIn(v) /\ \A j \in Sockets : PassedHeld(v, j)
<1>1. NoHolesIn(t) /\ \A j \in Sockets : PassedHeld(t, j)
  BY DEF ListInv
<1>2. ASSUME NEW u \in HeldIn(v), NEW r \in Required, r < u PROVE r \in Accounted(v)
  <2>1. CASE u \in new
    BY <1>2, <2>1
  <2>2. CASE u \in HeldIn(t)
    BY <1>1, <1>2, <2>2 DEF NoHolesIn
  <2>3. QED
    BY <2>1, <2>2
<1>3. ASSUME NEW j \in Sockets PROVE PassedHeld(v, j)
  <2>1. CASE v.sockets[j] = t.sockets[j]
    BY <1>1, <2>1 DEF PassedHeld
  <2>2. QED
    BY <2>1 DEF PassedHeld
<1>4. QED
  BY <1>2, <1>3 DEF NoHolesIn

\* And when nothing new is held.
LEMMA HoldsLess ==
  ASSUME NEW t, ListInv(t), NEW v, HeldIn(v) \subseteq HeldIn(t),
         \A r \in Required : r \in Accounted(t) => r \in Accounted(v),
         \A j \in Sockets : v.sockets[j] = t.sockets[j]
  PROVE  NoHolesIn(v) /\ \A j \in Sockets : PassedHeld(v, j)
<1> DEFINE new == {}
<1>1. /\ HeldIn(v) \subseteq HeldIn(t) \cup new
      /\ \A u \in new, r \in Required : r < u => r \in Accounted(v)
  OBVIOUS
<1> HIDE DEF new
<1>2. QED
  BY <1>1, KeepsHoles

\* What is in a list, and what is left of it when it is cut.
LEMMA SeenInType ==
  ASSUME NEW S, NEW a \in Seq(S)
  PROVE  SeenIn(a) \subseteq S
<1>1. DOMAIN a = 1..Len(a) /\ \A i \in 1..Len(a) : a[i] \in S
  BY LenProperties, ElementOfSeq
<1>2. QED
  BY <1>1 DEF SeenIn

LEMMA SeenInNewest ==
  ASSUME NEW S, NEW a \in Seq(S), NEW n \in Nat
  PROVE  SeenIn(Newest(a, n)) \subseteq SeenIn(a)
<1>1. /\ Len(a) \in Nat /\ DOMAIN a = 1..Len(a)
      /\ \A i \in 1..Len(a) : a[i] \in SeenIn(a)
  BY LenProperties DEF SeenIn
<1>2. a \in Seq(SeenIn(a))
  <2>1. a = [i \in 1..Len(a) |-> a[i]]
    BY <1>1, LenProperties, SeqDef
  <2>2. a \in [1..Len(a) -> SeenIn(a)]
    BY <1>1, <2>1
  <2>3. QED
    BY <1>1, <2>2, SeqDef
<1>3. Newest(a, n) \in Seq(SeenIn(a))
  BY <1>1, <1>2, NewestFacts
<1>4. QED
  BY <1>3, SeenInType

\* What need not be held is noted; nothing else changes.
LEMMA ExcuseFacts ==
  ASSUME NEW t \in Stream, NEW gone
  PROVE  LET v == Excuse(t, gone)
         IN /\ v \in Stream /\ v.sockets = t.sockets /\ v.ws = t.ws
            /\ v.events = t.events /\ v.buffer = t.buffer /\ v.arrived = t.arrived
            /\ v.paused = t.paused /\ v.lost = t.lost
            /\ v.loading = t.loading /\ v.starting = t.starting
            /\ v.skipped = t.skipped \cup (gone \cap Required)
            /\ SameList(t, v)
<1> DEFINE more == t.skipped \cup (gone \cap Required)
           v == Excuse(t, gone)
<1>1. more \in SUBSET Required /\ v = [t EXCEPT !.skipped = more]
  BY DEF Stream, Excuse
<1>2. t.skipped \subseteq more
  OBVIOUS
<1> HIDE DEF more, v
<1>3. /\ v \in Stream /\ v.sockets = t.sockets /\ v.ws = t.ws
      /\ v.events = t.events /\ v.buffer = t.buffer /\ v.arrived = t.arrived
      /\ v.paused = t.paused /\ v.lost = t.lost
      /\ v.loading = t.loading /\ v.starting = t.starting
      /\ v.skipped = more
  BY <1>1 DEF Stream
<1>4. SameList(t, v)
  BY <1>2, <1>3 DEF SameList
<1>5. QED
  BY <1>3, <1>4 DEF v, more

\* The list becomes another one, and what its cap cuts off is noted.
LEMMA SetEventsFacts ==
  ASSUME NEW t \in Stream, NEW list \in Seq(Updates)
  PROVE  LET v == SetEvents(t, list)
         IN /\ v \in Stream /\ v.sockets = t.sockets /\ v.ws = t.ws
            /\ v.events = Newest(list, MaxEvents)
            /\ v.buffer = t.buffer /\ v.arrived = t.arrived
            /\ v.paused = t.paused /\ v.lost = t.lost
            /\ v.loading = t.loading
            /\ t.skipped \subseteq v.skipped
            /\ SeenIn(v.events) \subseteq SeenIn(list)
            /\ \A r \in Required : r \in SeenIn(list) =>
                 r \in SeenIn(v.events) \cup v.skipped
<1> DEFINE kept == Newest(list, MaxEvents)
           s == Excuse(t, SeenIn(list) \ SeenIn(kept))
           v == SetEvents(t, list)
<1>1. kept \in Seq(Updates) /\ SeenIn(kept) \subseteq SeenIn(list)
  <2>1. MaxEvents \in Nat
    BY StoreConstantsOK
  <2>2. QED
    BY <2>1, NewestFacts, SeenInNewest
<1>2. /\ s \in Stream /\ s.sockets = t.sockets /\ s.ws = t.ws
      /\ s.buffer = t.buffer /\ s.arrived = t.arrived
      /\ s.paused = t.paused /\ s.lost = t.lost /\ s.loading = t.loading
      /\ s.skipped = t.skipped \cup ((SeenIn(list) \ SeenIn(kept)) \cap Required)
  BY ExcuseFacts
<1>3. v = [s EXCEPT !.events = kept]
  BY DEF SetEvents
<1>4. kept = Newest(list, MaxEvents)
  OBVIOUS
<1> HIDE DEF kept, s, v
<1>5. /\ v \in Stream /\ v.sockets = s.sockets /\ v.ws = s.ws /\ v.events = kept
      /\ v.buffer = s.buffer /\ v.arrived = s.arrived
      /\ v.paused = s.paused /\ v.lost = s.lost /\ v.loading = s.loading
      /\ v.skipped = s.skipped
  BY <1>1, <1>2, <1>3 DEF Stream
<1>6. \A r \in Required : r \in SeenIn(list) => r \in SeenIn(v.events) \cup v.skipped
  BY <1>2, <1>5
<1>7. QED
  BY <1>1, <1>2, <1>4, <1>5, <1>6 DEF v

\* addEvent
LEMMA AddEventFacts ==
  ASSUME NEW s \in Stream, NEW u \in Updates
  PROVE  LET v == AddEvent(s, u)
         IN /\ v \in Stream /\ v.sockets = s.sockets /\ v.ws = s.ws
            /\ v.buffer = s.buffer /\ v.arrived = s.arrived
            /\ v.paused = s.paused /\ v.lost = s.lost
            /\ v.events = Newest(Append(s.events, u), MaxEvents)
            /\ s.skipped \subseteq v.skipped
            /\ SeenIn(v.events) \subseteq SeenIn(s.events) \cup {u}
            /\ \A r \in Required : r \in SeenIn(s.events) \cup {u} =>
                 r \in SeenIn(v.events) \cup v.skipped
<1> DEFINE list == Append(s.events, u)
<1>1. s.events \in Seq(Updates)
  BY DEF Stream
<1>2. list \in Seq(Updates) /\ SeenIn(list) = SeenIn(s.events) \cup {u}
  BY <1>1, AppendProperties, SeenFacts
<1>3. AddEvent(s, u) = SetEvents(s, list)
  BY DEF AddEvent
<1>4. list = Append(s.events, u)
  OBVIOUS
<1> DEFINE v == AddEvent(s, u)
<1> HIDE DEF list, v
<1>5. /\ v \in Stream /\ v.sockets = s.sockets /\ v.ws = s.ws
      /\ v.events = Newest(list, MaxEvents)
      /\ v.buffer = s.buffer /\ v.arrived = s.arrived
      /\ v.paused = s.paused /\ v.lost = s.lost
      /\ s.skipped \subseteq v.skipped
      /\ SeenIn(v.events) \subseteq SeenIn(list)
      /\ \A r \in Required : r \in SeenIn(list) => r \in SeenIn(v.events) \cup v.skipped
  BY <1>2, <1>3, SetEventsFacts DEF v
<1>6. QED
  BY <1>2, <1>4, <1>5 DEF v

\* An update arrives: it is shown, or buffered while the list is paused, or
\* lost because the buffer is full.
LEMMA OnEventType ==
  ASSUME NEW s \in Stream, NEW u \in Updates
  PROVE  LET v == OnEvent(s, u)
         IN /\ v \in Stream /\ v.sockets = s.sockets /\ v.ws = s.ws
            /\ v.paused = s.paused
            /\ \/ /\ ~s.paused /\ v.buffer = s.buffer /\ v.lost = s.lost
                  /\ v.events = Newest(Append(s.events, u), MaxEvents)
                  /\ v.arrived = Newest(Append(s.arrived, u), MaxEvents)
                  /\ s.skipped \subseteq v.skipped
                  /\ SeenIn(v.events) \subseteq SeenIn(s.events) \cup {u}
                  /\ \A r \in Required : r \in SeenIn(s.events) \cup {u} =>
                       r \in SeenIn(v.events) \cup v.skipped
               \/ /\ s.paused /\ v.events = s.events /\ v.lost = s.lost
                  /\ v.buffer = Append(s.buffer, u)
                  /\ v.arrived = Append(s.arrived, u) /\ v.skipped = s.skipped
               \/ /\ s.paused /\ v.events = s.events /\ v.buffer = s.buffer
                  /\ v.arrived = s.arrived /\ v.lost
                  /\ v.skipped = s.skipped \cup ({u} \cap Required)
<1> DEFINE v == OnEvent(s, u)
<1>1. CASE ~s.paused
  <2> DEFINE w == AddEvent(s, u)
             got == Newest(Append(s.arrived, u), MaxEvents)
  <2>1. Append(s.arrived, u) \in Seq(Updates)
    BY AppendProperties DEF Stream
  <2>2. got \in Seq(Updates) /\ Remember(Append(s.arrived, u), <<>>) = got
    BY <2>1, RememberNothing, NewestFacts, StoreConstantsOK
  <2>3. v = [w EXCEPT !.arrived = got]
    BY <1>1, <2>2 DEF OnEvent
  <2>4. /\ w \in Stream /\ w.sockets = s.sockets /\ w.ws = s.ws
        /\ w.buffer = s.buffer /\ w.paused = s.paused /\ w.lost = s.lost
        /\ w.events = Newest(Append(s.events, u), MaxEvents)
        /\ s.skipped \subseteq w.skipped
        /\ SeenIn(w.events) \subseteq SeenIn(s.events) \cup {u}
        /\ \A r \in Required : r \in SeenIn(s.events) \cup {u} =>
             r \in SeenIn(w.events) \cup w.skipped
    BY AddEventFacts
  <2> HIDE DEF v, w, got
  <2>5. /\ v \in Stream /\ v.sockets = w.sockets /\ v.ws = w.ws
        /\ v.buffer = w.buffer /\ v.paused = w.paused /\ v.lost = w.lost
        /\ v.events = w.events /\ v.skipped = w.skipped /\ v.arrived = got
    BY <2>2, <2>3, <2>4 DEF Stream
  <2>6. /\ s.skipped \subseteq v.skipped
        /\ SeenIn(v.events) \subseteq SeenIn(s.events) \cup {u}
        /\ \A r \in Required : r \in SeenIn(s.events) \cup {u} =>
             r \in SeenIn(v.events) \cup v.skipped
    BY <2>4, <2>5
  <2>7. /\ v.arrived = Newest(Append(s.arrived, u), MaxEvents)
        /\ v.events = Newest(Append(s.events, u), MaxEvents)
    BY <2>4, <2>5 DEF got
  <2>8. QED
    BY <1>1, <2>4, <2>5, <2>6, <2>7 DEF v
<1>2. CASE s.paused /\ Len(s.buffer) < MaxBuffer
  <2>1. Append(s.buffer, u) \in Seq(Updates) /\ Append(s.arrived, u) \in Seq(Updates)
    BY AppendProperties DEF Stream
  <2>2. v = [s EXCEPT !.buffer = Append(s.buffer, u), !.arrived = Append(s.arrived, u)]
    BY <1>2 DEF OnEvent
  <2>3. QED
    BY <1>2, <2>1, <2>2 DEF Stream
<1>3. CASE s.paused /\ ~(Len(s.buffer) < MaxBuffer)
  <2> DEFINE w == Excuse(s, {u})
  <2>1. /\ w \in Stream /\ w.sockets = s.sockets /\ w.ws = s.ws
        /\ w.events = s.events /\ w.buffer = s.buffer /\ w.arrived = s.arrived
        /\ w.paused = s.paused /\ w.skipped = s.skipped \cup ({u} \cap Required)
    BY ExcuseFacts
  <2>2. v = [w EXCEPT !.lost = TRUE]
    BY <1>3 DEF OnEvent
  <2> HIDE DEF v, w
  <2>3. /\ v \in Stream /\ v.sockets = w.sockets /\ v.ws = w.ws
        /\ v.events = w.events /\ v.buffer = w.buffer /\ v.arrived = w.arrived
        /\ v.paused = w.paused /\ v.skipped = w.skipped /\ v.lost
    BY <2>1, <2>2 DEF Stream
  <2>4. QED
    BY <1>3, <2>1, <2>3 DEF v
<1>4. QED
  BY <1>1, <1>2, <1>3

\* The list after an update, from the list before it, whose feed has moved on.
LEMMA OnEventList ==
  ASSUME NEW t \in Stream, NEW s \in Stream, NEW u \in Updates, ListInv(t),
         s.events = t.events, s.buffer = t.buffer, s.arrived = t.arrived,
         s.paused = t.paused, s.lost = t.lost, s.skipped = t.skipped,
         \A r \in Required : r < u => r \in Accounted(t),
         \A j \in Sockets : \/ s.sockets[j] = t.sockets[j]
                            \/ Listener!Position(s.sockets[j].feed) = u
  PROVE  ListInv(OnEvent(s, u))
<1> DEFINE v == OnEvent(s, u)
<1>0a. /\ v \in Stream /\ v.sockets = s.sockets /\ v.ws = s.ws
      /\ v.paused = s.paused
      /\ \/ /\ ~s.paused /\ v.buffer = s.buffer /\ v.lost = s.lost
            /\ v.events = Newest(Append(s.events, u), MaxEvents)
            /\ v.arrived = Newest(Append(s.arrived, u), MaxEvents)
            /\ s.skipped \subseteq v.skipped
            /\ SeenIn(v.events) \subseteq SeenIn(s.events) \cup {u}
            /\ \A r \in Required : r \in SeenIn(s.events) \cup {u} =>
                 r \in SeenIn(v.events) \cup v.skipped
         \/ /\ s.paused /\ v.events = s.events /\ v.lost = s.lost
            /\ v.buffer = Append(s.buffer, u)
            /\ v.arrived = Append(s.arrived, u) /\ v.skipped = s.skipped
         \/ /\ s.paused /\ v.events = s.events /\ v.buffer = s.buffer
            /\ v.arrived = s.arrived /\ v.lost
            /\ v.skipped = s.skipped \cup ({u} \cap Required)
  BY OnEventType
<1> HIDE DEF v
<1>0. /\ v \in Stream /\ v.sockets = s.sockets /\ v.ws = s.ws
      /\ v.paused = t.paused
      /\ \/ /\ ~t.paused /\ v.buffer = t.buffer /\ v.lost = t.lost
            /\ v.events = Newest(Append(t.events, u), MaxEvents)
            /\ v.arrived = Newest(Append(t.arrived, u), MaxEvents)
            /\ t.skipped \subseteq v.skipped
            /\ SeenIn(v.events) \subseteq SeenIn(t.events) \cup {u}
            /\ \A r \in Required : r \in SeenIn(t.events) \cup {u} =>
                 r \in SeenIn(v.events) \cup v.skipped
         \/ /\ t.paused /\ v.events = t.events /\ v.lost = t.lost
            /\ v.buffer = Append(t.buffer, u)
            /\ v.arrived = Append(t.arrived, u) /\ v.skipped = t.skipped
         \/ /\ t.paused /\ v.events = t.events /\ v.buffer = t.buffer
            /\ v.arrived = t.arrived /\ v.lost
            /\ v.skipped = t.skipped \cup ({u} \cap Required)
  BY <1>0a
<1>1. /\ t.events \in Seq(Updates) /\ t.buffer \in Seq(Updates)
      /\ t.arrived \in Seq(Updates) /\ MaxEvents \in Nat /\ <<>> \in Seq(Updates)
      /\ Len(t.events) \in Nat
  BY EmptySeq, LenProperties, StoreConstantsOK DEF Stream
<1>2. HeldIn(t) \subseteq Updates
  BY <1>1, SeenFacts DEF HeldIn
<1>3. ASSUME HeldIn(v) \subseteq HeldIn(t) \cup {u},
             \A r \in Required : r \in Accounted(t) \cup {u} => r \in Accounted(v)
      PROVE  NoHolesIn(v) /\ \A j \in Sockets : PassedHeld(v, j)
  <2>1. \A r \in Required : r < u => r \in Accounted(v)
    BY <1>3
  <2>2. \A j \in Sockets :
          \/ v.sockets[j] = t.sockets[j]
          \/ \A r \in Required :
               r <= Listener!Position(v.sockets[j].feed) => r \in Accounted(v)
    <3>1. \A r \in Required : r <= u => r < u \/ r = u
      BY StoreConstantsOK
    <3>2. \A r \in Required : r <= u => r \in Accounted(v)
      BY <1>3, <2>1, <3>1
    <3>3. TAKE j \in Sockets
    <3>4. CASE Listener!Position(v.sockets[j].feed) = u
      BY <3>2, <3>4
    <3>5. QED
      BY <1>0, <3>4
  <2>3. QED
    BY <1>3, <2>1, <2>2, KeepsHoles
<1>4. CASE /\ ~t.paused /\ v.buffer = t.buffer /\ v.lost = t.lost
           /\ v.events = Newest(Append(t.events, u), MaxEvents)
           /\ v.arrived = Newest(Append(t.arrived, u), MaxEvents)
           /\ t.skipped \subseteq v.skipped
           /\ SeenIn(v.events) \subseteq SeenIn(t.events) \cup {u}
           /\ \A r \in Required : r \in SeenIn(t.events) \cup {u} =>
                r \in SeenIn(v.events) \cup v.skipped
  <2>1. t.buffer = <<>> /\ Len(t.events) <= MaxEvents
    BY <1>4 DEF ListInv
  <2>2. /\ Append(t.events, u) \in Seq(Updates) /\ Append(t.arrived, u) \in Seq(Updates)
        /\ <<u>> \in Seq(Updates) /\ Append(t.events, u) = t.events \o <<u>>
        /\ Append(t.arrived, u) = t.arrived \o <<u>>
        /\ Len(Append(t.events, u)) = Len(t.events) + 1
    <3>1. Append(t.events, u) \in Seq(Updates) /\ Append(t.arrived, u) \in Seq(Updates)
      BY <1>1, AppendProperties
    <3>2. Len(Append(t.events, u)) = Len(t.events) + 1
      BY <1>1, AppendProperties
    <3>3. <<u>> \in Seq(Updates)
      OBVIOUS
    <3>4. Append(t.events, u) = t.events \o <<u>>
      BY <1>1, AppendIsConcat
    <3>5. Append(t.arrived, u) = t.arrived \o <<u>>
      BY <1>1, AppendIsConcat
    <3>6. QED
      BY <3>1, <3>2, <3>3, <3>4, <3>5
  <2>3. ASSUME ~v.lost PROVE NewestIn(v)
    <3>1. NewestIn(t)
      BY <1>4, <2>3 DEF ListInv
    <3>2. PICK shown \in Seq(Updates) :
            t.arrived = shown \o t.buffer /\ t.events = Newest(shown, MaxEvents)
      BY <3>1, NewestSplit
    <3>3. t.arrived = shown
      BY <2>1, <3>2, ConcatEmptySeq
    <3>4. v.events = v.arrived
      <4>1. Newest(Newest(t.arrived, MaxEvents) \o <<u>>, MaxEvents)
              = Newest(t.arrived \o <<u>>, MaxEvents)
        BY <1>1, <2>2, CutBeforeAppend
      <4>2. QED
        BY <1>4, <2>2, <3>2, <3>3, <4>1
    <3>5. v.arrived \in Seq(Updates) /\ Newest(v.arrived, MaxEvents) = v.arrived
      <4>1. Newest(Append(t.arrived, u), MaxEvents) \in Seq(Updates)
        BY <1>1, <2>2, NewestFacts
      <4>2. Newest(Newest(Append(t.arrived, u), MaxEvents), MaxEvents)
              = Newest(Append(t.arrived, u), MaxEvents)
        BY <1>1, <2>2, CutTwice
      <4>3. QED
        BY <1>4, <4>1, <4>2
    <3>6. v.arrived = v.arrived \o v.buffer
      BY <1>4, <2>1, <3>5, ConcatEmptySeq
    <3>7. QED
      BY <1>0, <3>4, <3>5, <3>6, NewestSplit
  <2>4. Len(v.events) <= MaxEvents
    BY <1>1, <1>4, <2>2, CutTwice
  <2>5. /\ HeldIn(v) \subseteq HeldIn(t) \cup {u}
        /\ \A r \in Required : r \in Accounted(t) \cup {u} => r \in Accounted(v)
    <3>1. HeldIn(v) \subseteq HeldIn(t) \cup {u}
      BY <1>4 DEF HeldIn
    <3>2. ASSUME NEW r \in Required, r \in Accounted(t) \cup {u} PROVE r \in Accounted(v)
      <4>1. \/ r \in SeenIn(t.events) \cup {u} \/ r \in SeenIn(t.buffer)
            \/ r \in t.skipped
        BY <3>2 DEF Accounted, HeldIn
      <4>2. r \in SeenIn(t.events) \cup {u} => r \in SeenIn(v.events) \cup v.skipped
        BY <1>4, <3>2
      <4>3. QED
        BY <1>4, <4>1, <4>2 DEF Accounted, HeldIn
    <3>3. QED
      BY <3>1, <3>2
  <2>6. QED
    BY <1>0, <1>3, <1>4, <2>1, <2>3, <2>4, <2>5 DEF ListInv, v
<1>5. CASE /\ t.paused /\ v.events = t.events /\ v.lost = t.lost
           /\ v.buffer = Append(t.buffer, u)
           /\ v.arrived = Append(t.arrived, u) /\ v.skipped = t.skipped
  <2>1. ASSUME ~v.lost PROVE NewestIn(v)
    <3>1. NewestIn(t)
      BY <1>5, <2>1 DEF ListInv
    <3>2. PICK shown \in Seq(Updates) :
            t.arrived = shown \o t.buffer /\ t.events = Newest(shown, MaxEvents)
      BY <3>1, NewestSplit
    <3>3. v.arrived = shown \o v.buffer
      <4> DEFINE one == <<u>>
                 held == t.buffer
      <4>1. Append(t.arrived, u) = t.arrived \o one
        BY <1>1, AppendIsConcat
      <4>2. Append(t.buffer, u) = held \o one
        BY <1>1, AppendIsConcat
      <4>3. one \in Seq(Updates) /\ held \in Seq(Updates)
        BY <1>1
      <4>4. t.arrived = shown \o held
        BY <3>2
      <4> HIDE DEF one, held
      <4>5. (shown \o held) \o one = shown \o (held \o one)
        BY <4>3, ConcatAssociative
      <4>6. QED
        BY <1>5, <4>1, <4>2, <4>4, <4>5
    <3>4. QED
      BY <1>0, <1>5, <3>2, <3>3, NewestSplit
  <2>2. /\ HeldIn(v) = HeldIn(t) \cup {u}
        /\ Accounted(v) = Accounted(t) \cup {u}
    <3>1. SeenIn(v.buffer) = SeenIn(t.buffer) \cup {u}
      BY <1>1, <1>5, SeenFacts
    <3>2. QED
      BY <1>5, <3>1 DEF HeldIn, Accounted
  <2>3. QED
    BY <1>0, <1>3, <1>5, <2>1, <2>2 DEF ListInv, v
<1>6. CASE /\ t.paused /\ v.events = t.events /\ v.buffer = t.buffer
           /\ v.arrived = t.arrived /\ v.lost
           /\ v.skipped = t.skipped \cup ({u} \cap Required)
  <2>1. /\ HeldIn(v) = HeldIn(t)
        /\ \A r \in Required : r \in Accounted(t) \cup {u} => r \in Accounted(v)
    BY <1>6 DEF HeldIn, Accounted
  <2>2. NoHolesIn(v) /\ \A j \in Sockets : PassedHeld(v, j)
    BY <1>3, <2>1
  <2>3. QED
    BY <1>0, <1>6, <2>2 DEF ListInv, v
<1>7. QED
  BY <1>0, <1>4, <1>5, <1>6

LEMMA SeenInNothing == SeenIn(<<>>) = {}
BY EmptySeq DEF SeenIn

\* What the steps keep.
StreamOK(t) == t \in Stream /\ SocketInv(t) /\ ListInv(t)

LEMMA MessageStep ==
  ASSUME StreamOK(stream), NEW i \in Sockets, NEW u \in Updates, Message(i, u)
  PROVE  StreamOK(stream')
<1> DEFINE t == stream
           f == t.sockets[i].feed
           got == Append(f.received, u)
           g == [f EXCEPT !.received = got]
           k == [t.sockets[i] EXCEPT !.feed = g]
           c == [t.sockets EXCEPT ![i] = k]
           s == [t EXCEPT !.sockets = c]
<1>1. /\ t \in Stream /\ SocketInv(t) /\ ListInv(t)
      /\ Listener!MayDeliver(f, u) /\ stream' = OnEvent(s, u)
  BY DEF StreamOK, Message
<1>2. /\ t.sockets \in [Sockets -> Socket] /\ t.sockets[i] \in Socket
      /\ f.received \in Seq(Updates) /\ f.after \in Updates \cup {0}
      /\ f.status = "open"
  BY <1>1 DEF Stream, Socket, Offsets, Listener!MayDeliver
<1>3. /\ got \in Seq(Updates) /\ Len(got) = Len(f.received) + 1
      /\ got[Len(f.received) + 1] = u /\ Len(f.received) \in Nat
  BY <1>2, AppendProperties, LenProperties, SMTT(30)
<1>4. got # <<>> /\ got[Len(got)] = u
  <2>1. Len(<<>>) = 0
    BY EmptySeq
  <2>2. QED
    BY <1>3, <2>1, SMTT(30)
<1>5. Listener!Position(f) \in Updates \cup {0}
  BY <1>2, ElementOfSeq, LenProperties, EmptySeq DEF Listener!Position
<1> HIDE DEF got
<1>6. k \in Socket /\ k.state = t.sockets[i].state /\ k.feed.received = got
  BY <1>2, <1>3 DEF Socket
<1> HIDE DEF k
<1>7. c \in [Sockets -> Socket] /\ c[i] = k /\ \A j \in Sockets : j # i => c[j] = t.sockets[j]
  BY <1>2, <1>6
<1> HIDE DEF c
<1>8. /\ s \in Stream /\ s.sockets = c /\ s.ws = t.ws
      /\ s.events = t.events /\ s.buffer = t.buffer /\ s.arrived = t.arrived
      /\ s.paused = t.paused /\ s.lost = t.lost /\ s.skipped = t.skipped
  BY <1>1, <1>7 DEF Stream
<1> HIDE DEF s
<1>9. \A j \in Sockets : \/ s.sockets[j] = t.sockets[j]
                          \/ Listener!Position(s.sockets[j].feed) = u
  BY <1>4, <1>6, <1>7, <1>8 DEF Listener!Position
<1>10. ASSUME NEW r \in Required, r < u
       PROVE  r \in Accounted(t)
  <2>1. ~(Listener!Position(f) < r /\ r < u)
    BY <1>1, <1>10 DEF Listener!MayDeliver
  <2>2. r \in Int /\ Listener!Position(f) \in Int
    <3>1. Updates \cup {0} \subseteq Int /\ r \in Updates
      BY <1>10, StoreConstantsOK
    <3>2. QED
      BY <1>5, <3>1, Zenon
  <2>3. r <= Listener!Position(f)
    BY <1>10, <2>1, <2>2
  <2>4. QED
    BY <1>1, <1>2, <1>10, <2>3 DEF ListInv, PassedHeld
<1>11. ListInv(OnEvent(s, u))
  BY <1>1, <1>8, <1>9, <1>10, OnEventList
<1>12. OnEvent(s, u) \in Stream /\ SameSockets(s, OnEvent(s, u))
  BY <1>8, OnEventType DEF SameSockets
<1>13. SocketInv(s)
  BY <1>1, <1>6, <1>7, <1>8 DEF SocketInv, Alive
<1>14. QED
  BY <1>1, <1>11, <1>12, <1>13, SameSocketsKeeps DEF StreamOK

\* clearEvents.
LEMMA ClearStep ==
  ASSUME StreamOK(stream), ClearButton
  PROVE  StreamOK(stream')
<1> DEFINE t == stream
           gone == SeenIn(t.events) \cup SeenIn(t.buffer)
           s == Excuse(t, gone)
           v == ClearEvents(t)
<1>1. t \in Stream /\ SocketInv(t) /\ ListInv(t) /\ v = stream'
  BY DEF StreamOK, ClearButton
<1>2. <<>> \in Seq(Updates) /\ Len(<<>>) = 0
  BY EmptySeq
<1>3. /\ s \in Stream /\ s.sockets = t.sockets /\ s.ws = t.ws /\ s.paused = t.paused
      /\ s.skipped = t.skipped \cup (gone \cap Required)
  BY <1>1, ExcuseFacts
<1>4. v = [s EXCEPT !.events = <<>>, !.buffer = <<>>, !.arrived = <<>>, !.lost = FALSE]
  BY DEF ClearEvents
<1>5. gone = HeldIn(t)
  BY DEF HeldIn
<1> HIDE DEF v, s, gone
<1>6. /\ v \in Stream /\ v.sockets = s.sockets /\ v.ws = s.ws
      /\ v.events = <<>> /\ v.buffer = <<>> /\ v.arrived = <<>>
      /\ v.skipped = s.skipped
  BY <1>2, <1>3, <1>4 DEF Stream
<1>7. NewestIn(v)
  <2>1. <<>> \o <<>> = <<>> /\ Newest(<<>>, MaxEvents) = <<>>
    BY <1>2, ConcatEmptySeq, ShortList, StoreConstantsOK
  <2>2. QED
    BY <1>2, <1>6, <2>1, NewestSplit
<1>8. NoHolesIn(v) /\ \A j \in Sockets : PassedHeld(v, j)
  <2>1. HeldIn(v) = {}
    BY <1>6, SeenInNothing DEF HeldIn
  <2>2. \A r \in Required : r \in Accounted(t) => r \in Accounted(v)
    BY <1>3, <1>5, <1>6 DEF Accounted
  <2>3. \A j \in Sockets : v.sockets[j] = t.sockets[j]
    BY <1>3, <1>6
  <2>4. QED
    BY <1>1, <2>1, <2>2, <2>3, HoldsLess
<1>9. ListInv(v)
  BY <1>2, <1>6, <1>7, <1>8, StoreConstantsOK DEF ListInv
<1>10. QED
  BY <1>1, <1>3, <1>6, <1>9, SameSocketsKeeps DEF StreamOK, SameSockets

\* pause(), which only empties a buffer that is empty.
LEMMA PauseFacts ==
  ASSUME NEW t, StreamOK(t), ~t.paused
  PROVE  StreamOK(Pause(t))
<1> DEFINE v == Pause(t)
<1>1. t \in Stream /\ SocketInv(t) /\ ListInv(t) /\ t.buffer = <<>>
  BY DEF StreamOK, ListInv
<1>2. v = [t EXCEPT !.paused = TRUE]
  BY <1>1 DEF Pause, Stream
<1> HIDE DEF v
<1>3. /\ v \in Stream /\ v.sockets = t.sockets /\ v.ws = t.ws /\ v.paused
      /\ v.events = t.events /\ v.buffer = t.buffer /\ v.arrived = t.arrived
      /\ v.lost = t.lost /\ v.skipped = t.skipped
  BY <1>1, <1>2 DEF Stream
<1>4. NoHolesIn(v) /\ \A j \in Sockets : PassedHeld(v, j)
  <2>1. HeldIn(v) = HeldIn(t) /\ Accounted(v) = Accounted(t)
    BY <1>3 DEF HeldIn, Accounted
  <2>2. QED
    BY <1>1, <1>3, <2>1, HoldsLess
<1>5. ListInv(v)
  BY <1>1, <1>3, <1>4 DEF ListInv, NewestIn
<1>6. QED
  BY <1>1, <1>3, <1>5, SameSocketsKeeps DEF StreamOK, SameSockets, v

\* resume() moves the buffer behind the list and cuts it.
LEMMA ResumeFacts ==
  ASSUME NEW t, StreamOK(t)
  PROVE  StreamOK(Resume(t))
<1> DEFINE combined == t.events \o t.buffer
           s == SetEvents(t, combined)
           got == Newest(t.arrived, MaxEvents)
           v == Resume(t)
<1>1. /\ t \in Stream /\ SocketInv(t) /\ ListInv(t)
      /\ t.events \in Seq(Updates) /\ t.buffer \in Seq(Updates)
      /\ t.arrived \in Seq(Updates) /\ MaxEvents \in Nat
  BY StoreConstantsOK DEF StreamOK, Stream
<1>2. combined \in Seq(Updates) /\ <<>> \in Seq(Updates) /\ Len(combined) \in Nat
  <2>1. combined \in Seq(Updates)
    BY <1>1, ConcatProperties
  <2>2. QED
    BY <2>1, EmptySeq, LenProperties
<1>3. SeenIn(combined) = HeldIn(t)
  BY <1>1, SeenInConcat DEF HeldIn
<1>4. v = [s EXCEPT !.buffer = <<>>, !.paused = FALSE, !.arrived = got]
  BY <1>1, RememberNothing DEF Resume
<1> HIDE DEF combined, s, v
<1>5. /\ got \in Seq(Updates) /\ Newest(combined, MaxEvents) \in Seq(Updates)
      /\ s \in Stream /\ s.sockets = t.sockets /\ s.ws = t.ws /\ s.lost = t.lost
      /\ s.events = Newest(combined, MaxEvents)
      /\ t.skipped \subseteq s.skipped
      /\ SeenIn(s.events) \subseteq SeenIn(combined)
      /\ \A r \in Required : r \in SeenIn(combined) =>
           r \in SeenIn(s.events) \cup s.skipped
  BY <1>1, <1>2, NewestFacts, SetEventsFacts DEF s
<1> HIDE DEF got
<1>6. /\ v \in Stream /\ v.sockets = s.sockets /\ v.ws = s.ws /\ v.lost = s.lost
      /\ v.events = s.events /\ v.buffer = <<>> /\ v.arrived = got
      /\ v.skipped = s.skipped
  BY <1>2, <1>4, <1>5 DEF Stream
<1>6a. /\ v.lost = t.lost /\ v.events = Newest(combined, MaxEvents)
       /\ v.arrived = Newest(t.arrived, MaxEvents)
  BY <1>5, <1>6 DEF got
<1>7. Len(v.events) <= MaxEvents /\ Newest(v.arrived, MaxEvents) = v.arrived
  BY <1>1, <1>2, <1>6a, CutTwice
<1>8. ASSUME ~v.lost PROVE NewestIn(v)
  <2>1. NewestIn(t)
    BY <1>1, <1>6a, <1>8 DEF ListInv
  <2>2. PICK shown \in Seq(Updates) :
          t.arrived = shown \o t.buffer /\ t.events = Newest(shown, MaxEvents)
    BY <1>1, <2>1, NewestSplit
  <2>3. v.events = v.arrived
    <3> DEFINE held == t.buffer
    <3>1. held \in Seq(Updates)
      BY <1>1
    <3>2. combined = Newest(shown, MaxEvents) \o held /\ t.arrived = shown \o held
      BY <2>2 DEF combined
    <3> HIDE DEF held
    <3>3. Newest(Newest(shown, MaxEvents) \o held, MaxEvents)
            = Newest(shown \o held, MaxEvents)
      BY <1>1, <3>1, CutBeforeAppend
    <3>4. QED
      BY <1>6a, <3>2, <3>3
  <2>4. v.arrived \in Seq(Updates) /\ v.arrived = v.arrived \o v.buffer
    BY <1>5, <1>6, ConcatEmptySeq
  <2>5. QED
    BY <1>6, <1>7, <2>3, <2>4, NewestSplit
<1>9. NoHolesIn(v) /\ \A j \in Sockets : PassedHeld(v, j)
  <2>1. HeldIn(v) \subseteq HeldIn(t)
    BY <1>3, <1>5, <1>6, SeenInNothing DEF HeldIn
  <2>2. \A r \in Required : r \in Accounted(t) => r \in Accounted(v)
    BY <1>3, <1>5, <1>6 DEF Accounted, HeldIn
  <2>3. \A j \in Sockets : v.sockets[j] = t.sockets[j]
    BY <1>5, <1>6
  <2>4. QED
    BY <1>1, <2>1, <2>2, <2>3, HoldsLess
<1>10. ListInv(v)
  BY <1>6, <1>7, <1>8, <1>9 DEF ListInv
<1>11. QED
  BY <1>1, <1>5, <1>6, <1>10, SameSocketsKeeps DEF StreamOK, SameSockets, v

LEMMA PauseStep ==
  ASSUME StreamOK(stream), PauseButton
  PROVE  StreamOK(stream')
<1>1. stream' = IF stream.paused THEN Resume(stream) ELSE Pause(stream)
  BY DEF PauseButton
<1>2. QED
  BY <1>1, PauseFacts, ResumeFacts

-----------------------------------------------------------------------------
(***************************************************************************)
(* Fetched lists.                                                          *)
(***************************************************************************)

RecentUpdates(recent) == recent \in Seq(Updates) /\ Len(recent) <= MaxEvents

\* What a ledger that ends at an offset answers lies before that offset.
LEMMA FetchedFacts ==
  ASSUME NEW end \in Offsets
  PROVE  RecentUpdates(Recent(end)) /\ SeenIn(Recent(end)) \subseteq UpTo(end)
<1> DEFINE list == [n \in 1..end |-> n]
           w == Excluding(list, (1..end) \ Updates)
<1>1. end \in Nat /\ RecentLimit \in 0..MaxEvents /\ MaxEvents \in Nat
  BY StoreConstantsOK DEF Offsets
<1>2. list \in Seq(1..end)
  BY <1>1, SeqDef
<1>3. w \in Seq((1..end) \ ((1..end) \ Updates))
  <2> HIDE DEF list
  <2> QED BY <1>2, ExcludingFacts
<1>4. (1..end) \ ((1..end) \ Updates) \subseteq UpTo(end)
  BY <1>1 DEF UpTo
<1> HIDE DEF w
<1>5. w \in Seq(UpTo(end)) /\ Len(w) \in Nat
  BY <1>3, <1>4, SeqMonotonic, LenProperties
<1>6. /\ Newest(w, RecentLimit) \in Seq(UpTo(end))
      /\ Len(Newest(w, RecentLimit)) <= RecentLimit
  BY <1>1, <1>5, NewestFacts
<1>7. Recent(end) = Newest(w, RecentLimit)
  BY DEF Recent, w
<1>8. SeenIn(Recent(end)) \subseteq UpTo(end)
  BY <1>6, <1>7, SeenInType
<1>9. Recent(end) \in Seq(Updates)
  <2>1. UpTo(end) \subseteq Updates
    BY DEF UpTo
  <2>2. QED
    BY <1>6, <1>7, <2>1, SeqMonotonic
<1>10. Len(Recent(end)) <= MaxEvents
  <2>1. Len(Recent(end)) \in Nat /\ Len(Recent(end)) <= RecentLimit
    BY <1>6, <1>7, LenProperties
  <2>2. QED
    BY <1>1, <2>1
<1>11. QED
  BY <1>8, <1>9, <1>10 DEF RecentUpdates

\* A fetched list adds no hole to what is held, since what it does not reach
\* back to is noted.
LEMMA HeldAndFetched ==
  ASSUME NEW t, ListInv(t), NEW end \in Offsets, NEW v, v.sockets = t.sockets,
         HeldIn(v) \subseteq SeenIn(Recent(end)) \cup HeldIn(t),
         \A r \in Required :
           r \in Accounted(t) \cup UpTo(end) => r \in Accounted(v)
  PROVE  NoHolesIn(v) /\ \A j \in Sockets : PassedHeld(v, j)
<1>1. ASSUME NEW u \in SeenIn(Recent(end)), NEW r \in Required, r < u
      PROVE  r \in Accounted(v)
  <2>1. u \in UpTo(end)
    BY FetchedFacts
  <2>2. u \in Updates /\ u <= end /\ r \in Updates
    BY <2>1, StoreConstantsOK DEF UpTo
  <2>3. u \in Nat /\ r \in Nat /\ end \in Nat
    BY <2>2, StoreConstantsOK DEF Offsets
  <2>4. r <= end
    BY <1>1, <2>2, <2>3
  <2>5. QED
    BY <2>2, <2>4 DEF UpTo
<1>2. QED
  BY <1>1, KeepsHoles

LEMMA StartedList ==
  ASSUME NEW t, StreamOK(t), NEW end \in Offsets, t.events = <<>>, NEW v,
         v \in Stream, v.sockets = t.sockets, v.buffer = t.buffer,
         v.paused = t.paused, v.lost = t.lost, v.events = Recent(end),
         v.arrived = Recent(end) \o t.arrived, t.skipped \subseteq v.skipped,
         (UpTo(end) \ SeenIn(Recent(end))) \cap Required \subseteq v.skipped
  PROVE  ListInv(v)
<1> DEFINE recent == Recent(end)
<1>1. /\ t \in Stream /\ ListInv(t) /\ t.buffer \in Seq(Updates)
      /\ MaxEvents \in Nat \ {0} /\ recent \in Seq(Updates) /\ Len(recent) <= MaxEvents
  BY StoreConstantsOK, FetchedFacts DEF StreamOK, Stream, RecentUpdates
<1>2. ASSUME ~v.lost PROVE NewestIn(v)
  <2> HIDE DEF recent
  <2>1. NewestIn(t)
    BY <1>1, <1>2 DEF ListInv
  <2>2. PICK shown \in Seq(Updates) :
          t.arrived = shown \o t.buffer /\ t.events = Newest(shown, MaxEvents)
    BY <1>1, <2>1, NewestSplit
  <2>3. shown = <<>>
    <3>1. /\ Len(Newest(shown, MaxEvents)) =
             IF Len(shown) <= MaxEvents THEN Len(shown) ELSE MaxEvents
          /\ Len(shown) \in Nat
      BY <1>1, NewestFacts, LenProperties
    <3>2. Len(Newest(shown, MaxEvents)) = 0
      BY <2>2, EmptySeq
    <3>3. Len(shown) = 0
      BY <1>1, <3>1, <3>2
    <3>4. QED
      BY <3>3, EmptySeq
  <2>4. t.arrived = t.buffer
    BY <1>1, <2>2, <2>3, ConcatEmptySeq
  <2>5. v.arrived = recent \o v.buffer /\ v.events = recent
    BY <2>4 DEF recent
  <2>6. v.events = Newest(recent, MaxEvents)
    BY <1>1, <2>5, ShortList
  <2>7. QED
    BY <1>1, <2>5, <2>6, NewestSplit
<1>3. NoHolesIn(v) /\ \A j \in Sockets : PassedHeld(v, j)
  <2>1. HeldIn(v) = SeenIn(recent) \cup HeldIn(t)
    BY SeenInNothing DEF HeldIn
  <2>2. \A r \in Required : r \in Accounted(t) \cup UpTo(end) => r \in Accounted(v)
    BY <2>1 DEF Accounted
  <2>3. QED
    BY <1>1, <2>1, <2>2, HeldAndFetched
<1>4. QED
  BY <1>1, <1>2, <1>3 DEF ListInv

\* startCollection, once its fetch has ended.
LEMMA StartedStep ==
  ASSUME StreamOK(stream), NEW end \in Offsets, Started(end)
  PROVE  StreamOK(stream')
<1> DEFINE t == stream
           recent == Recent(end)
           s == [t EXCEPT !.starting = t.starting - 1, !.busy = FALSE]
           f == WithFetched(s, end)
           w == [f EXCEPT !.events = recent, !.arrived = recent \o t.arrived]
           v == IF t.events # <<>> THEN s ELSE w
<1>1. /\ t \in Stream /\ SocketInv(t) /\ ListInv(t) /\ t.starting > 0
      /\ HasFreeSocket(t) /\ stream' = ConnectWebSocket(v)
  BY DEF StreamOK, Started, StartFetched
<1>2. /\ t.starting - 1 \in Nat /\ recent \in Seq(Updates)
      /\ recent \o t.arrived \in Seq(Updates)
  <2>1. t.starting \in Nat /\ t.arrived \in Seq(Updates) /\ recent \in Seq(Updates)
    BY <1>1, FetchedFacts DEF Stream, RecentUpdates
  <2>2. t.starting - 1 \in Nat
    BY <1>1, <2>1
  <2> HIDE DEF recent
  <2>3. recent \o t.arrived \in Seq(Updates)
    BY <2>1, ConcatProperties
  <2>4. QED
    BY <2>1, <2>2, <2>3
<1>3. /\ s \in Stream /\ s.sockets = t.sockets /\ s.ws = t.ws
      /\ s.events = t.events /\ s.buffer = t.buffer /\ s.arrived = t.arrived
      /\ s.paused = t.paused /\ s.lost = t.lost /\ s.skipped = t.skipped
  BY <1>1, <1>2 DEF Stream
<1> HIDE DEF s
<1>4. /\ f \in Stream /\ f.sockets = s.sockets /\ f.ws = s.ws
      /\ f.buffer = s.buffer /\ f.paused = s.paused /\ f.lost = s.lost
      /\ f.skipped = s.skipped \cup ((UpTo(end) \ SeenIn(recent)) \cap Required)
  BY <1>3, ExcuseFacts DEF WithFetched
<1>5. recent = Recent(end)
  OBVIOUS
<1> HIDE DEF f, recent
<1>6. /\ w \in Stream /\ w.sockets = f.sockets /\ w.ws = f.ws
      /\ w.events = recent /\ w.buffer = f.buffer /\ w.arrived = recent \o t.arrived
      /\ w.paused = f.paused /\ w.lost = f.lost /\ w.skipped = f.skipped
  BY <1>2, <1>4 DEF Stream
<1> HIDE DEF w
<1>7. ListInv(s)
  BY <1>1, <1>3, SameListKeeps DEF SameList
<1>8. t.events = <<>> => ListInv(w)
  <2>1. /\ w.sockets = t.sockets /\ w.buffer = t.buffer /\ w.paused = t.paused
        /\ w.lost = t.lost /\ w.events = Recent(end)
        /\ w.arrived = Recent(end) \o t.arrived /\ t.skipped \subseteq w.skipped
        /\ (UpTo(end) \ SeenIn(Recent(end))) \cap Required \subseteq w.skipped
    BY <1>3, <1>4, <1>5, <1>6
  <2>2. QED
    BY <1>6, <2>1, StartedList
<1>9. v \in Stream /\ ListInv(v) /\ SocketInv(v) /\ HasFreeSocket(v)
  <2>1. v \in Stream /\ SameSockets(t, v) /\ ListInv(v)
    BY <1>3, <1>4, <1>6, <1>7, <1>8 DEF SameSockets
  <2>2. QED
    BY <1>1, <2>1, SameSocketsKeeps
<1> HIDE DEF v
<1>10. QED
  BY <1>1, <1>9, ConnectWebSocketFacts, SameListKeeps DEF StreamOK

\* loadRecent, once its fetch has ended.
LEMMA LoadedStep ==
  ASSUME StreamOK(stream), NEW end \in Offsets, Loaded(end)
  PROVE  StreamOK(stream')
<1> DEFINE t == stream
           recent == Recent(end)
           added == Excluding(recent, SeenIn(t.events))
           older == added \o t.arrived
           combined == added \o t.events
           s == WithFetched(t, end)
           w == SetEvents(s, combined)
           got == Remember(older, t.buffer)
           v == RecentFetched(t, end)
<1>1. /\ t \in Stream /\ SocketInv(t) /\ ListInv(t) /\ t.loading > 0
      /\ stream' = v /\ MaxEvents \in Nat
      /\ t.events \in Seq(Updates) /\ t.buffer \in Seq(Updates)
      /\ t.arrived \in Seq(Updates) /\ recent \in Seq(Updates)
  BY StoreConstantsOK, FetchedFacts DEF StreamOK, Loaded, Stream, RecentUpdates
<1>1a. /\ s \in Stream /\ s.sockets = t.sockets /\ s.ws = t.ws
       /\ s.buffer = t.buffer /\ s.paused = t.paused /\ s.lost = t.lost
       /\ s.loading = t.loading
       /\ s.skipped = t.skipped \cup ((UpTo(end) \ SeenIn(recent)) \cap Required)
  BY <1>1, ExcuseFacts DEF WithFetched
<1> HIDE DEF recent
<1>2. added \in Seq(Updates) /\ SeenIn(added) = SeenIn(recent) \ SeenIn(t.events)
  <2> DEFINE out == SeenIn(t.events)
  <2> HIDE DEF out
  <2>1. /\ Excluding(recent, out) \in Seq(Updates \ out)
        /\ SeenIn(Excluding(recent, out)) = SeenIn(recent) \ out
    BY <1>1, ExcludingFacts
  <2>2. Excluding(recent, out) \in Seq(Updates)
    BY <2>1, SeqMonotonic
  <2>3. QED
    BY <2>1, <2>2 DEF out
<1>3. v = [w EXCEPT !.loading = t.loading - 1, !.busy = FALSE, !.arrived = got]
  BY DEF RecentFetched, recent
<1> HIDE DEF added, s, v
<1>4. /\ combined \in Seq(Updates) /\ older \in Seq(Updates) /\ Len(combined) \in Nat
      /\ SeenIn(combined) = SeenIn(recent) \cup SeenIn(t.events)
  BY <1>1, <1>2, ConcatProperties, LenProperties, SeenInConcat
<1>5. t.loading - 1 \in Nat
  <2>1. t.loading \in Nat
    BY <1>1 DEF Stream
  <2>2. QED
    BY <1>1, <2>1
<1>6. got \in Seq(Updates)
  BY <1>1, <1>4, RememberFacts
<1> HIDE DEF combined, older
<1>6a. /\ w \in Stream /\ w.sockets = s.sockets /\ w.ws = s.ws
       /\ w.events = Newest(combined, MaxEvents) /\ w.buffer = s.buffer
       /\ w.paused = s.paused /\ w.lost = s.lost
       /\ s.skipped \subseteq w.skipped
       /\ SeenIn(w.events) \subseteq SeenIn(combined)
       /\ \A r \in Required : r \in SeenIn(combined) =>
            r \in SeenIn(w.events) \cup w.skipped
  BY <1>1a, <1>4, SetEventsFacts
<1> HIDE DEF w, got
<1>6b. /\ v \in Stream /\ v.sockets = w.sockets /\ v.ws = w.ws
       /\ v.events = w.events /\ v.buffer = w.buffer /\ v.arrived = got
       /\ v.paused = w.paused /\ v.lost = w.lost /\ v.skipped = w.skipped
  BY <1>3, <1>5, <1>6, <1>6a DEF Stream
<1>7. /\ v.sockets = t.sockets /\ v.ws = t.ws
      /\ v.events = Newest(combined, MaxEvents) /\ v.buffer = t.buffer
      /\ v.arrived = Remember(older, t.buffer)
      /\ v.paused = t.paused /\ v.lost = t.lost
  BY <1>1a, <1>6a, <1>6b DEF got
<1>8. Len(v.events) <= MaxEvents
  BY <1>1, <1>4, <1>7, CutTwice
<1>9. ASSUME ~v.lost PROVE NewestIn(v)
  <2> DEFINE held == t.buffer
  <2>1. NewestIn(t)
    BY <1>1, <1>7, <1>9 DEF ListInv
  <2>2. PICK shown \in Seq(Updates) :
          t.arrived = shown \o held /\ t.events = Newest(shown, MaxEvents)
    BY <1>1, <2>1, NewestSplit
  <2> DEFINE all == added \o shown
  <2>3. held \in Seq(Updates) /\ all \in Seq(Updates)
    BY <1>1, <1>2, ConcatProperties
  <2>4. older = added \o (shown \o held)
    BY <2>2 DEF older
  <2>5. v.arrived = Remember(older, held) /\ v.buffer = held
    BY <1>7
  <2> HIDE DEF held
  <2>6. older = all \o held
    BY <1>2, <2>3, <2>4, ConcatAssociative
  <2> HIDE DEF all
  <2>7. v.arrived = Newest(all, MaxEvents) \o v.buffer
    <3>1. Remember(older, held) = Newest(all, MaxEvents) \o held
      BY <1>4, <2>3, <2>6, RememberFacts
    <3>2. QED
      BY <2>5, <3>1
  <2>8. v.events = Newest(all, MaxEvents)
    <3>1. Newest(added \o Newest(shown, MaxEvents), MaxEvents) = Newest(added \o shown, MaxEvents)
      BY <1>1, <1>2, CutBeforePrepend
    <3>2. QED
      BY <1>7, <2>2, <3>1 DEF combined, all
  <2>9. /\ Newest(all, MaxEvents) \in Seq(Updates)
        /\ Newest(Newest(all, MaxEvents), MaxEvents) = Newest(all, MaxEvents)
    BY <1>1, <2>3, NewestFacts, CutTwice
  <2>10. QED
    BY <1>6b, <2>7, <2>8, <2>9, NewestSplit
<1>10. NoHolesIn(v) /\ \A j \in Sockets : PassedHeld(v, j)
  <2>1. HeldIn(v) \subseteq SeenIn(recent) \cup HeldIn(t)
    BY <1>4, <1>6a, <1>6b, <1>7 DEF HeldIn
  <2>2. ASSUME NEW r \in Required, r \in Accounted(t) \cup UpTo(end)
        PROVE  r \in Accounted(v)
    <3>1. \/ r \in SeenIn(combined) \/ r \in SeenIn(t.buffer) \/ r \in s.skipped
      BY <1>1a, <1>4, <2>2 DEF Accounted, HeldIn
    <3>2. r \in SeenIn(combined) => r \in SeenIn(v.events) \cup v.skipped
      BY <1>6a, <1>6b, <2>2
    <3>3. s.skipped \subseteq v.skipped
      BY <1>6a, <1>6b
    <3>4. QED
      BY <1>7, <3>1, <3>2, <3>3 DEF Accounted, HeldIn
  <2>3. QED
    BY <1>1, <1>7, <2>1, <2>2, HeldAndFetched DEF recent
<1>11. ListInv(v)
  BY <1>1, <1>7, <1>8, <1>9, <1>10 DEF ListInv
<1>12. QED
  BY <1>1, <1>6b, <1>7, <1>11, SameSocketsKeeps DEF StreamOK, SameSockets

-----------------------------------------------------------------------------
(***************************************************************************)
(* Sockets that open, break and close, and timers.                         *)
(***************************************************************************)

\* A socket gets into another state without becoming the second one alive.
LEMMA SocketChange ==
  ASSUME NEW t, StreamOK(t), NEW i \in Sockets, NEW k \in Socket, NEW v,
         v = [t EXCEPT !.sockets[i] = k],
         i # NoSocket /\ k.state \in {"connecting", "open"} => Alive(t, i),
         k.feed.status = "open" =>
           \A r \in Required : r <= Listener!Position(k.feed) => r \in t.skipped
  PROVE  v \in Stream /\ SocketInv(v) /\ ListInv(v)
<1> DEFINE c == [t.sockets EXCEPT ![i] = k]
<1>1. t \in Stream /\ SocketInv(t) /\ ListInv(t)
  BY DEF StreamOK
<1>2. c \in [Sockets -> Socket] /\ c[i] = k /\ \A j \in Sockets : j # i => c[j] = t.sockets[j]
  BY <1>1 DEF Stream
<1>3. v = [t EXCEPT !.sockets = c]
  OBVIOUS
<1> HIDE DEF c
<1>4. /\ v \in Stream /\ v.sockets = c /\ v.ws = t.ws
      /\ v.events = t.events /\ v.buffer = t.buffer /\ v.arrived = t.arrived
      /\ v.paused = t.paused /\ v.lost = t.lost /\ v.skipped = t.skipped
  BY <1>1, <1>2, <1>3 DEF Stream
<1>5. \A j \in Sockets : v.sockets[j].feed.status = "open" =>
        \/ v.sockets[j].feed = t.sockets[j].feed
        \/ \A r \in Required :
             r <= Listener!Position(v.sockets[j].feed) => r \in v.skipped
  <2> SUFFICES ASSUME NEW j \in Sockets, v.sockets[j].feed.status = "open"
               PROVE  \/ v.sockets[j].feed = t.sockets[j].feed
                      \/ \A r \in Required :
                           r <= Listener!Position(v.sockets[j].feed) => r \in v.skipped
    OBVIOUS
  <2>1. CASE j = i
    BY <1>2, <1>4, <2>1
  <2>2. CASE j # i
    BY <1>2, <1>4, <2>2
  <2>3. QED
    BY <2>1, <2>2
<1>6. SameList(t, v)
  BY <1>4, <1>5 DEF SameList
<1>7. SocketInv(v)
  BY <1>1, <1>2, <1>4 DEF SocketInv, Alive
<1>8. QED
  BY <1>1, <1>4, <1>6, <1>7, SameListKeeps

\* A feed has passed nothing but what lies behind its start.
LEMMA OpenStep ==
  ASSUME StreamOK(stream), NEW i \in Sockets, NEW accepted, NEW offset \in Offsets,
         OpenEvent(i, accepted, offset)
  PROVE  StreamOK(stream')
<1> DEFINE t == stream
           e == Excuse(t, UpTo(offset))
           st == IF accepted THEN "open" ELSE "ended"
           f == [status |-> st, after |-> offset, received |-> <<>>]
           k == [state |-> "open", feed |-> f]
           d == [e EXCEPT !.sockets[i] = k]
           v == [d EXCEPT !.status = "connected", !.attempts = 0]
<1>1. t.sockets[i].state = "connecting" /\ stream' = v
  BY DEF OpenEvent, OnOpen
<1>2. st \in {"open", "ended"} /\ <<>> \in Seq(Updates) /\ offset \in Updates \cup {0}
  BY EmptySeq DEF Offsets
<1> HIDE DEF st
<1>3. k \in Socket /\ k.state = "open" /\ Listener!Position(k.feed) = offset
  BY <1>2 DEF Socket, Offsets, Listener!Position
<1>4. i # NoSocket => Alive(t, i)
  BY <1>1 DEF Alive
<1> HIDE DEF k
<1>5. /\ e \in Stream /\ e.sockets = t.sockets /\ e.ws = t.ws /\ SameList(t, e)
      /\ e.skipped = t.skipped \cup (UpTo(offset) \cap Required)
  BY ExcuseFacts DEF StreamOK
<1>6. \A r \in Required : r <= offset => r \in e.skipped
  BY <1>5, StoreConstantsOK DEF UpTo
<1> HIDE DEF e
<1>7. StreamOK(e) /\ (i # NoSocket => Alive(e, i))
  BY <1>4, <1>5, SameSocketsKeeps, SameListKeeps DEF StreamOK, SameSockets, Alive
<1>8. d \in Stream /\ SocketInv(d) /\ ListInv(d)
  BY <1>3, <1>6, <1>7, SocketChange
<1> HIDE DEF d
<1>9. /\ v \in Stream /\ SameSockets(d, v)
      /\ v.events = d.events /\ v.buffer = d.buffer /\ v.arrived = d.arrived
      /\ v.paused = d.paused /\ v.lost = d.lost /\ v.skipped = d.skipped
  <2>1. 0 \in 0..MaxAttempts
    BY StoreConstantsOK
  <2>2. QED
    BY <1>8, <2>1 DEF Stream, SameSockets
<1> HIDE DEF v
<1>10. QED
  BY <1>1, <1>8, <1>9, SameSocketsKeeps, SameListKeeps DEF StreamOK, SameList, SameSockets

LEMMA ServerClosesStep ==
  ASSUME StreamOK(stream), NEW i \in Sockets, ServerCloses(i)
  PROVE  StreamOK(stream')
BY SocketFacts, SocketChange DEF ServerCloses, StreamOK

LEMMA DropsStep ==
  ASSUME StreamOK(stream), NEW i \in Sockets, Drops(i)
  PROVE  StreamOK(stream')
BY SocketFacts, SocketChange DEF Drops, StreamOK

\* The "close" handler gives the store another timer, or gives up.
LEMMA OnCloseFacts ==
  ASSUME NEW d \in Stream, SocketInv(d), ListInv(d)
  PROVE  StreamOK(OnClose(d))
<1> DEFINE v == OnClose(d)
           more == d.orphans + (IF d.timer THEN 1 ELSE 0)
<1>1. more \in Nat /\ (d.attempts # MaxAttempts => d.attempts + 1 \in 0..MaxAttempts)
  <2>1. d.orphans \in Nat /\ d.attempts \in 0..MaxAttempts /\ MaxAttempts \in Nat
    BY StoreConstantsOK DEF Stream
  <2>2. QED
    BY <2>1
<1>2. v = IF d.attempts = MaxAttempts THEN [d EXCEPT !.status = "disconnected"]
          ELSE [d EXCEPT !.status = "disconnected", !.attempts = d.attempts + 1,
                         !.timer = TRUE, !.orphans = more]
  <2>1. d = [d EXCEPT !.status = d.status]
    BY DEF Stream
  <2>2. QED
    BY <2>1 DEF OnClose, Stream
<1> HIDE DEF v, more
<1>3. /\ v \in Stream /\ v.sockets = d.sockets /\ v.ws = d.ws
      /\ v.events = d.events /\ v.buffer = d.buffer /\ v.arrived = d.arrived
      /\ v.paused = d.paused /\ v.lost = d.lost /\ v.skipped = d.skipped
  <2>1. CASE d.attempts = MaxAttempts
    BY <1>2, <2>1 DEF Stream
  <2>2. CASE d.attempts # MaxAttempts
    BY <1>1, <1>2, <2>2 DEF Stream
  <2>3. QED
    BY <2>1, <2>2
<1>4. QED
  BY <1>3, SameSocketsKeeps, SameListKeeps DEF StreamOK, SameList, SameSockets, v

LEMMA CloseStep ==
  ASSUME StreamOK(stream), NEW i \in Sockets, CloseEvent(i)
  PROVE  StreamOK(stream')
<1> DEFINE t == stream
           churn == t.churned \/ (t.ws # i /\ Alive(t, t.ws))
           w == [t EXCEPT !.churned = churn]
           d == [w EXCEPT !.sockets[i] = ClosedSocket]
<1>1. stream' = OnClose([t EXCEPT !.sockets[i] = ClosedSocket, !.churned = churn])
  BY DEF CloseEvent
<1>2. churn \in BOOLEAN /\ t \in Stream
  BY DEF StreamOK
<1> HIDE DEF churn
<1>3. [t EXCEPT !.sockets[i] = ClosedSocket, !.churned = churn] = d
  BY <1>2 DEF Stream
<1>4. /\ w \in Stream /\ w.sockets = t.sockets /\ w.ws = t.ws
      /\ w.events = t.events /\ w.buffer = t.buffer /\ w.arrived = t.arrived
      /\ w.paused = t.paused /\ w.lost = t.lost /\ w.skipped = t.skipped
  BY <1>2 DEF Stream
<1> HIDE DEF w
<1>5. StreamOK(w)
  BY <1>4, SameSocketsKeeps, SameListKeeps DEF StreamOK, SameList, SameSockets
<1>6. d \in Stream /\ SocketInv(d) /\ ListInv(d)
  BY <1>5, SocketFacts, SocketChange
<1> HIDE DEF d
<1>7. QED
  BY <1>1, <1>3, <1>6, OnCloseFacts

\* Timers and buttons that open a socket.
LEMMA Reconnected ==
  ASSUME NEW t, StreamOK(t), HasFreeSocket(t)
  PROVE  StreamOK(ConnectWebSocket(t))
BY ConnectWebSocketFacts, SameListKeeps DEF StreamOK

LEMMA TimerStep ==
  ASSUME StreamOK(stream), TimerFires
  PROVE  StreamOK(stream')
BY Reconnected DEF TimerFires

LEMMA OrphanStep ==
  ASSUME StreamOK(stream), OrphanFires
  PROVE  StreamOK(stream')
<1> DEFINE t == stream
           s == [t EXCEPT !.orphans = t.orphans - 1]
<1>1. t \in Stream /\ HasFreeSocket(t) /\ stream' = ConnectWebSocket(s)
  BY DEF StreamOK, OrphanFires
<1>2. t.orphans - 1 \in Nat
  <2>1. t.orphans > 0 /\ t.orphans \in Nat
    BY <1>1 DEF OrphanFires, Stream
  <2>2. QED
    BY <2>1
<1>3. /\ s \in Stream /\ s.sockets = t.sockets /\ s.ws = t.ws
      /\ s.events = t.events /\ s.buffer = t.buffer /\ s.arrived = t.arrived
      /\ s.paused = t.paused /\ s.lost = t.lost /\ s.skipped = t.skipped
  BY <1>1, <1>2 DEF Stream
<1> HIDE DEF s
<1>4. StreamOK(s) /\ HasFreeSocket(s)
  BY <1>1, <1>3, SameSocketsKeeps, SameListKeeps DEF StreamOK, SameList, SameSockets
<1>5. QED
  BY <1>1, <1>4, Reconnected

LEMMA ReconnectStep ==
  ASSUME StreamOK(stream), ReconnectButton
  PROVE  StreamOK(stream')
<1> DEFINE t == stream
           s == [t EXCEPT !.attempts = 0]
<1>1. t \in Stream /\ HasFreeSocket(t) /\ stream' = ConnectWebSocket(s)
  BY DEF StreamOK, ReconnectButton
<1>2. 0 \in 0..MaxAttempts
  BY StoreConstantsOK
<1>3. /\ s \in Stream /\ s.sockets = t.sockets /\ s.ws = t.ws
      /\ s.events = t.events /\ s.buffer = t.buffer /\ s.arrived = t.arrived
      /\ s.paused = t.paused /\ s.lost = t.lost /\ s.skipped = t.skipped
  BY <1>1, <1>2 DEF Stream
<1> HIDE DEF s
<1>4. StreamOK(s) /\ HasFreeSocket(s)
  BY <1>1, <1>3, SameSocketsKeeps, SameListKeeps DEF StreamOK, SameList, SameSockets
<1>5. QED
  BY <1>1, <1>4, Reconnected

LEMMA LoadStep ==
  ASSUME StreamOK(stream), LoadButton
  PROVE  StreamOK(stream')
<1> DEFINE t == stream
           v == [t EXCEPT !.loading = t.loading + 1, !.busy = TRUE]
<1>1. t \in Stream /\ stream' = v
  BY DEF StreamOK, LoadButton
<1>2. t.loading + 1 \in Nat
  BY <1>1 DEF Stream
<1>3. /\ v \in Stream /\ v.sockets = t.sockets /\ v.ws = t.ws
      /\ v.events = t.events /\ v.buffer = t.buffer /\ v.arrived = t.arrived
      /\ v.paused = t.paused /\ v.lost = t.lost /\ v.skipped = t.skipped
  BY <1>1, <1>2 DEF Stream
<1> HIDE DEF v
<1>4. QED
  BY <1>1, <1>3, SameSocketsKeeps, SameListKeeps DEF StreamOK, SameList, SameSockets

LEMMA EmptyStreamOK == StreamOK(EmptyStream)
<1> DEFINE t == EmptyStream
<1>1. 0 \in 0..MaxAttempts /\ <<>> \in Seq(Updates) /\ Len(<<>>) = 0
  BY EmptySeq, StoreConstantsOK
<1>2. [i \in Sockets |-> ClosedSocket] \in [Sockets -> Socket]
  BY SocketFacts
<1>3. /\ t \in Stream /\ t.sockets = [i \in Sockets |-> ClosedSocket]
      /\ t.events = <<>> /\ t.buffer = <<>> /\ t.arrived = <<>>
  BY <1>1, <1>2 DEF EmptyStream, Stream
<1> HIDE DEF t
<1>4. SocketInv(t)
  BY <1>3, SocketFacts DEF SocketInv, Alive
<1>5. NewestIn(t)
  <2>1. <<>> \o <<>> = <<>> /\ Newest(<<>>, MaxEvents) = <<>>
    BY <1>1, ConcatEmptySeq, ShortList, StoreConstantsOK
  <2>2. QED
    BY <1>1, <1>3, <2>1, NewestSplit
<1>6. HeldIn(t) = {}
  BY <1>3, SeenInNothing DEF HeldIn
<1>7. \A i \in Sockets : PassedHeld(t, i)
  BY <1>3, SocketFacts DEF PassedHeld
<1>8. ListInv(t)
  BY <1>1, <1>3, <1>5, <1>6, <1>7, StoreConstantsOK DEF ListInv, NoHolesIn
<1>9. QED
  BY <1>3, <1>4, <1>8 DEF StreamOK, t

-----------------------------------------------------------------------------
(***************************************************************************)
(* The browser: every step runs functions of the two stores that keep      *)
(* their invariants.                                                       *)
(***************************************************************************)

BrowserInv ==
  ConnectionTypeOK /\ ConnectionInv /\ StreamOK(stream) /\ info \in BootstrapInfo

LEMMA BrowserInitially ==
  ASSUME BrowserInit(TRUE)
  PROVE  BrowserInv
BY ConnectionInitially, EmptyStreamOK DEF BrowserInit, BrowserInv, BootstrapInfo

\* The offset a feed starts at, and the one a fetched list ends at.
LEMMA OffsetFacts ==
  ASSUME info \in BootstrapInfo
  PROVE  info.offset \in Offsets /\ Ends \subseteq Offsets
<1>1. info.offset \in Offsets
  <2>1. NoInfo.offset = 0 /\ 0 \in Offsets
    BY DEF NoInfo, Offsets
  <2>2. \A x \in [offset : Offsets, parties : {TRUE}] : x.offset \in Offsets
    OBVIOUS
  <2>3. QED
    BY <2>1, <2>2 DEF BootstrapInfo
<1>2. Ends \subseteq Offsets
  BY DEF Ends, Offsets
<1>3. QED
  BY <1>1, <1>2

\* The effect of App.tsx keeps the stream's invariants.
LEMMA ManageStep ==
  ASSUME StreamOK(stream), Manage
  PROVE  StreamOK(stream')
<1>1. stream' = Managed(stream, app.status, app'.status)
  BY DEF Manage
<1>2. \A old, new : StreamOK(Managed(stream, old, new))
  BY ManagedFacts DEF StreamOK
<1>3. QED
  BY <1>1, <1>2

LEMMA ConnectingStep ==
  ASSUME BrowserInv, Connecting
  PROVE  BrowserInv'
<1>1. ConnectionTypeOK' /\ ConnectionInv'
  BY ButtonsStep, PageTimerStep DEF BrowserInv, Connecting
<1>2. StreamOK(stream')
  BY ManageStep DEF BrowserInv, Connecting
<1>3. QED
  BY <1>1, <1>2 DEF BrowserInv, Connecting, SameInfo

LEMMA AnsweringStep ==
  ASSUME BrowserInv, NEW n \in Flows, Answering(n)
  PROVE  BrowserInv'
<1>1. ConnectionTypeOK' /\ ConnectionInv'
  BY AnswerStep DEF BrowserInv, Answering
<1>2. StreamOK(stream')
  BY ManageStep DEF BrowserInv, Answering
<1>3. QED
  BY <1>1, <1>2 DEF BrowserInv, Answering, SameInfo

LEMMA ServingStep ==
  ASSUME BrowserInv, NEW n \in Flows, Serving(n)
  PROVE  BrowserInv'
<1>1. ConnectionTypeOK' /\ ConnectionInv'
  <2>1. Gateway(n) \/ Unsubscribing(n)
    BY DEF Serving, Bootstraps, Refreshes, AnswersAlone, Unsubscribes, Gateway
  <2>2. QED
    BY <2>1, ServedStep DEF BrowserInv
<1>2. StreamOK(EndFeeds(stream))
  BY EndFeedsFacts DEF BrowserInv, StreamOK
<1>3. stream' = stream \/ stream' = EndFeeds(stream)
  BY DEF Serving, Unsubscribes
<1>4. info' \in BootstrapInfo
  BY DEF Serving, Bootstraps, Refreshes, AnswersAlone, Unsubscribes, SameInfo,
         BrowserInv, BootstrapInfo
<1>5. QED
  BY <1>1, <1>2, <1>3, <1>4 DEF BrowserInv

LEMMA DisturbingStep ==
  ASSUME BrowserInv, Disturbing
  PROVE  BrowserInv'
<1>1. ConnectionTypeOK' /\ ConnectionInv'
  BY SessionLostStep, SandboxDeletedStep, RequestLostStep DEF BrowserInv, Disturbing
<1>2. info' \in BootstrapInfo
  BY DEF Disturbing, SameInfo, BrowserInv, BootstrapInfo
<1>3. QED
  BY <1>1, <1>2 DEF BrowserInv, Disturbing

LEMMA ReloadPageStep ==
  ASSUME BrowserInv, ReloadPage
  PROVE  BrowserInv'
<1>1. ConnectionTypeOK' /\ ConnectionInv'
  BY ReloadStep DEF BrowserInv, ReloadPage
<1>2. QED
  BY <1>1, EmptyStreamOK DEF BrowserInv, ReloadPage, SameInfo

LEMMA EventsPageStep ==
  ASSUME BrowserInv, EventsPage
  PROVE  BrowserInv'
<1>1. ConnectionTypeOK' /\ ConnectionInv'
  BY MoveStep DEF BrowserInv, EventsPage
<1>2. StreamOK(stream')
  BY ReconnectStep, LoadStep, PauseStep, ClearStep DEF BrowserInv, EventsPage
<1>3. QED
  BY <1>1, <1>2 DEF BrowserInv, EventsPage, SameInfo

LEMMA SocketDropsStep ==
  ASSUME BrowserInv, SocketDrops
  PROVE  BrowserInv'
<1>1. ConnectionTypeOK' /\ ConnectionInv'
  BY MoveStep DEF BrowserInv, SocketDrops
<1>2. StreamOK(stream')
  BY DropsStep DEF BrowserInv, SocketDrops
<1>3. QED
  BY <1>1, <1>2 DEF BrowserInv, SocketDrops, SameInfo

LEMMA UnmanagedStep ==
  ASSUME BrowserInv, Unmanaged, StreamOK(stream')
  PROVE  BrowserInv'
<1>1. ConnectionTypeOK' /\ ConnectionInv'
  BY UnchangedStep DEF BrowserInv, Unmanaged
<1>2. QED
  BY <1>1 DEF BrowserInv, Unmanaged, SameInfo

LEMMA SocketStep ==
  ASSUME BrowserInv, NEW i \in Sockets,
         Opens(i) \/ Receives(i) \/ LosesServer(i) \/ Closes(i)
  PROVE  BrowserInv'
<1>1. StreamOK(stream)
  BY DEF BrowserInv
<1>2. CASE Opens(i)
  BY <1>1, <1>2, OpenStep, OffsetFacts, UnmanagedStep DEF Opens, BrowserInv
<1>3. CASE Receives(i)
  BY <1>1, <1>3, MessageStep, UnmanagedStep DEF Receives
<1>4. CASE LosesServer(i)
  BY <1>1, <1>4, ServerClosesStep, UnmanagedStep DEF LosesServer
<1>5. CASE Closes(i)
  BY <1>1, <1>5, CloseStep, UnmanagedStep DEF Closes
<1>6. QED
  BY <1>2, <1>3, <1>4, <1>5

LEMMA LateStep ==
  ASSUME BrowserInv, Timer \/ Orphan \/ Starts \/ Loads
  PROVE  BrowserInv'
<1>1. StreamOK(stream)
  BY DEF BrowserInv
<1>2. CASE Timer
  BY <1>1, <1>2, TimerStep, UnmanagedStep DEF Timer
<1>3. CASE Orphan
  BY <1>1, <1>3, OrphanStep, UnmanagedStep DEF Orphan
<1>4. CASE Starts
  BY <1>1, <1>4, StartedStep, OffsetFacts, UnmanagedStep DEF Starts, BrowserInv
<1>5. CASE Loads
  BY <1>1, <1>5, LoadedStep, OffsetFacts, UnmanagedStep DEF Loads, BrowserInv
<1>6. QED
  BY <1>2, <1>3, <1>4, <1>5

LEMMA BrowserStep ==
  ASSUME BrowserInv, [BrowserNext]_browserVars
  PROVE  BrowserInv'
<1>1. CASE Connecting
  BY <1>1, ConnectingStep
<1>2. CASE ReloadPage
  BY <1>2, ReloadPageStep
<1>3. CASE EventsPage
  BY <1>3, EventsPageStep
<1>4. CASE Disturbing
  BY <1>4, DisturbingStep
<1>5. CASE SocketDrops
  BY <1>5, SocketDropsStep
<1>6. CASE \E n \in Flows : Answering(n) \/ Serving(n)
  BY <1>6, AnsweringStep, ServingStep
<1>7. CASE \E i \in Sockets : Opens(i) \/ Receives(i) \/ LosesServer(i) \/ Closes(i)
  BY <1>7, SocketStep
<1>8. CASE Timer \/ Orphan \/ Starts \/ Loads
  BY <1>8, LateStep
<1>9. CASE UNCHANGED browserVars
  BY <1>9, UnmanagedStep DEF browserVars, Unmanaged, SameInfo, BrowserInv
<1>10. QED
  BY <1>1, <1>2, <1>3, <1>4, <1>5, <1>6, <1>7, <1>8, <1>9 DEF BrowserNext

LEMMA BrowserAlways == BrowserSpec => []BrowserInv
<1>1. BrowserInit(TRUE) => BrowserInv
  BY BrowserInitially
<1>2. BrowserInv /\ [BrowserNext]_browserVars => BrowserInv'
  BY BrowserStep
<1>3. QED
  BY <1>1, <1>2, PTL DEF BrowserSpec

\* The stores' variables keep their types: the counters of timers and of
\* reconnection attempts, the sockets, the lists of updates and the requests.
THEOREM BrowserTypeCorrect == BrowserSpec => []BrowserTypeOK
<1>1. BrowserInv => BrowserTypeOK
  BY DEF BrowserInv, StreamOK, BrowserTypeOK
<1>2. QED
  BY <1>1, BrowserAlways, PTL

\* At any time when no request is under way, and as long as requests neither
\* overlapped nor got lost, the browser shows "connected" for the session the
\* gateway holds, with its configuration saved for a reload, and
\* "disconnected" only when the gateway holds none.
THEOREM ShownTheorem == BrowserSpec => []ShownIsConnected
<1>1. BrowserInv => ShownIsConnected
  BY InvShown DEF BrowserInv
<1>2. QED
  BY <1>1, BrowserAlways, PTL

\* connectWebSocket, though it is run by timers without a handle, by fetches
\* that answer late and by the user, never leaves two sockets alive.
THEOREM OneSocketTheorem == BrowserSpec => []OneSocket
<1>1. BrowserInv => OneSocket
  BY DEF BrowserInv, StreamOK, SocketInv, OneSocket
<1>2. QED
  BY <1>1, BrowserAlways, PTL

\* The list and the pause buffer hold the newest updates in the order of
\* arrival, and between them lack only what a feed's start or a fetched list
\* lay behind, or what was cleared, cut off or lost, for lists, buffers and
\* ledgers of any length and wherever the start of feeds is moved.
THEOREM ListTheorem == BrowserSpec => []ListFaithful
<1>1. BrowserInv => ListFaithful
  <2>1. BrowserInv => ListInv(stream)
    BY DEF BrowserInv, StreamOK
  <2>2. ListInv(stream) => ListFaithful
    BY DEF ListInv, NewestIn, NoHolesIn, HeldIn, Accounted, ListFaithful, NewestShown, NoHoles
  <2>3. QED
    BY <2>1, <2>2
<1>2. QED
  BY <1>1, BrowserAlways, PTL

-----------------------------------------------------------------------------
(***************************************************************************)
(* The pages of contracts.                                                 *)
(***************************************************************************)

\* A list that grows at its end leaves the snapshots before it as they are.
LEMMA SnapshotSame ==
  ASSUME NEW o, acs'[o] = acs[o]
  PROVE  \A f : Snapshot(o, f)' = Snapshot(o, f)
BY DEF Snapshot

LEMMA DueSame ==
  ASSUME NEW o, acs'[o] = acs[o]
  PROVE  \A p : Due(p, o)' = Due(p, o)
BY SnapshotSame DEF Due


LEMMA PartSame ==
  ASSUME NEW p, NEW r, DOMAIN acs \subseteq DOMAIN acs',
         \A o \in DOMAIN acs : acs'[o] = acs[o], PartOf(p, r)
  PROVE  PartOf(p, r)'
<1>1. CASE r.isPruned
  BY <1>1 DEF PartOf
<1>2. CASE ~r.isPruned
  <2>1. r.at \in DOMAIN acs /\ acs'[r.at] = acs[r.at]
    BY <1>2 DEF PartOf
  <2>2. Due(p, r.at)' = Due(p, r.at)
    BY <2>1, DueSame
  <2>3. QED
    BY <1>2, <2>1, <2>2 DEF PartOf
<1>3. QED
  BY <1>1, <1>2

LEMMA NextPart ==
  ASSUME NEW p \in PageQueries, NEW r, PartOf(p, r)
  PROVE  r.next \in Nat /\ (r.next # 0 => r.next = p.token + PageSize)
BY PagesConstantsOK DEF PartOf, PageQueries

\* The parts of the invariant that a step may disturb.
Kept ==
  /\ \A k \in DOMAIN snapshots :
       k.offset \in DOMAIN acs /\ snapshots[k] = Snapshot(k.offset, k.filter)
  /\ \A p \in DOMAIN page.results : p \in PageQueries /\ PartOf(p, page.results[p])

\* While the ledger rests, so do its snapshots and answers.
LEMMA LedgerRests ==
  ASSUME PagesInv, UNCHANGED acs
  PROVE  /\ \A o, f : Snapshot(o, f)' = Snapshot(o, f)
         /\ \A p, r : PartOf(p, r)' <=> PartOf(p, r)
<1>1. \A o : acs'[o] = acs[o]
  OBVIOUS
<1>2. \A o, f : Snapshot(o, f)' = Snapshot(o, f)
  BY <1>1, SnapshotSame
<1>3. \A p, o : Due(p, o)' = Due(p, o)
  BY <1>1, DueSame
<1>4. QED
  BY <1>2, <1>3 DEF PartOf

LEMMA CommitStep ==
  ASSUME PagesInv, Commit
  PROVE  PagesInv'
<1> DEFINE now == IF acs = <<>> THEN <<>> ELSE acs[Len(acs)]
<1>1. PICK next : acs' = Append(acs, next) /\ next \in Seq(Active)
  <2>1. now \in Seq(Active)
    <3>1. acs \in Seq(Seq(Active))
      BY DEF PagesInv, PagesShape
    <3>2. acs # <<>> => Len(acs) \in DOMAIN acs
      BY <3>1, EmptySeq, LenProperties
    <3>3. QED
      BY <3>1, <3>2, ElementOfSeq, LenProperties
  <2>2. \/ \E s \in Sorts : acs' = Append(acs, Append(now, [id |-> Len(acs) + 1, sort |-> s]))
        \/ \E i \in DOMAIN now :
             acs' = Append(acs, SubSeq(now, 1, i - 1) \o SubSeq(now, i + 1, Len(now)))
    BY DEF Commit
  <2> HIDE DEF now
  <2>3. CASE \E s \in Sorts :
               acs' = Append(acs, Append(now, [id |-> Len(acs) + 1, sort |-> s]))
    <3>1. PICK s \in Sorts : acs' = Append(acs, Append(now, [id |-> Len(acs) + 1, sort |-> s]))
      BY <2>3
    <3> DEFINE c == [id |-> Len(acs) + 1, sort |-> s]
    <3>2. Len(acs) \in Nat /\ Len(acs) < MaxOffset
      BY LenProperties DEF PagesInv, PagesShape, Commit
    <3>3. c \in Active
      BY <3>2, PagesConstantsOK DEF Active
    <3> HIDE DEF c
    <3>4. Append(now, c) \in Seq(Active)
      BY <2>1, <3>3, AppendProperties
    <3>5. acs' = Append(acs, Append(now, c))
      BY <3>1 DEF c
    <3>6. QED
      BY <3>4, <3>5
  <2>4. CASE \E i \in DOMAIN now :
               acs' = Append(acs, SubSeq(now, 1, i - 1) \o SubSeq(now, i + 1, Len(now)))
    <3>1. PICK i \in DOMAIN now :
            acs' = Append(acs, SubSeq(now, 1, i - 1) \o SubSeq(now, i + 1, Len(now)))
      BY <2>4
    <3>2. DOMAIN now = 1..Len(now) /\ Len(now) \in Nat
      BY <2>1, LenProperties
    <3>3. SubSeq(now, 1, i - 1) \in Seq(Active) /\ SubSeq(now, i + 1, Len(now)) \in Seq(Active)
      BY <2>1, <3>1, <3>2, SubSeqProperties
    <3>4. SubSeq(now, 1, i - 1) \o SubSeq(now, i + 1, Len(now)) \in Seq(Active)
      BY <3>3, ConcatProperties
    <3>5. QED
      BY <3>1, <3>4
  <2>5. QED
    BY <2>2, <2>3, <2>4
<1> HIDE DEF now
<1>2. acs \in Seq(Seq(Active)) /\ Len(acs) < MaxOffset
  BY DEF PagesInv, PagesShape, Commit
<1>3. /\ acs' \in Seq(Seq(Active)) /\ Len(acs') = Len(acs) + 1
      /\ \A o \in 1..Len(acs) : acs'[o] = acs[o]
  BY <1>1, <1>2, AppendProperties
<1>4. DOMAIN acs = 1..Len(acs) /\ DOMAIN acs' = 1..Len(acs') /\ Len(acs) \in Nat
  BY <1>2, <1>3, LenProperties
<1>5. DOMAIN acs \subseteq DOMAIN acs' /\ \A o \in DOMAIN acs : acs'[o] = acs[o]
  BY <1>3, <1>4
<1>6. \A o \in DOMAIN acs : \A f : Snapshot(o, f)' = Snapshot(o, f)
  BY <1>5, SnapshotSame
<1>7. \A p, r : PartOf(p, r) => PartOf(p, r)'
  BY <1>5, PartSame
<1>8. UNCHANGED <<snapshots, requests, page>>
  BY DEF Commit
<1>9. Len(acs') <= MaxOffset
  BY <1>2, <1>3, <1>4, PagesConstantsOK
<1>10. PagesShape'
  BY <1>3, <1>8, <1>9 DEF PagesInv, PagesShape
<1>11. QED
  BY <1>5, <1>6, <1>7, <1>8, <1>10 DEF PagesInv, TurnedTo

\* An answer for a query goes into the cache of the page.
LEMMA PageAnsweredStep ==
  ASSUME PagesInv, UNCHANGED acs, NEW r \in requests, NEW reply, PartOf(r.params, reply),
         PageAnswered(r, reply),
         \A k \in DOMAIN snapshots' :
           k.offset \in DOMAIN acs /\ snapshots'[k] = Snapshot(k.offset, k.filter)
  PROVE  PagesInv'
<1> DEFINE results == [p \in DOMAIN page.results \cup {r.params} |->
                         IF p = r.params THEN reply ELSE page.results[p]]
           shows == IF page.params = r.params THEN reply ELSE page.shown
<1>1. /\ requests' = requests \ {r}
      /\ page' = [page EXCEPT !.results = results, !.shown = shows]
  BY DEF PageAnswered
<1>2. /\ r.params \in PageQueries
      /\ reply.next \in Nat
  BY NextPart DEF PagesInv, PagesShape
<1>3. shows.next \in Nat
  BY <1>2 DEF PagesInv, PagesShape
<1>4. \A p \in DOMAIN results : p \in PageQueries /\ PartOf(p, results[p])
  BY <1>2 DEF PagesInv
<1> HIDE DEF results, shows
<1>5. /\ page'.params = page.params /\ page'.tokens = page.tokens
      /\ page'.results = results /\ page'.shown = shows /\ page'.open = page.open
      /\ page'.clicks = page.clicks /\ page'.hurried = page.hurried
      /\ page' = [params |-> page'.params, tokens |-> page'.tokens,
                  results |-> page'.results, shown |-> page'.shown, open |-> page'.open,
                  clicks |-> page'.clicks, hurried |-> page'.hurried]
  BY <1>1 DEF PagesInv, PagesShape
<1>6. /\ \A o, f : Snapshot(o, f)' = Snapshot(o, f)
      /\ \A p, s : PartOf(p, s)' <=> PartOf(p, s)
  BY LedgerRests
<1>7. PagesShape'
  BY <1>1, <1>3, <1>5 DEF PagesInv, PagesShape
<1>8. QED
  BY <1>1, <1>4, <1>5, <1>6, <1>7 DEF PagesInv, TurnedTo

\* A request that goes on, or is answered for nothing.
LEMMA AsideStep ==
  ASSUME PagesInv, UNCHANGED <<acs, snapshots>>,
         requests' \subseteq
           [params : PageQueries, step : {"began", "looking", "fetching"}, at : Nat],
         \A r \in requests' : r.step # "began" => r.at > 0 /\ r.params.offset \in {Live, r.at},
         NEW shows, shows.next \in Nat, page' = [page EXCEPT !.shown = shows]
  PROVE  PagesInv'
<1>1. /\ page'.params = page.params /\ page'.tokens = page.tokens
      /\ page'.results = page.results /\ page'.shown = shows /\ page'.open = page.open
      /\ page'.clicks = page.clicks /\ page'.hurried = page.hurried
      /\ page' = [params |-> page'.params, tokens |-> page'.tokens,
                  results |-> page'.results, shown |-> page'.shown, open |-> page'.open,
                  clicks |-> page'.clicks, hurried |-> page'.hurried]
  BY DEF PagesInv, PagesShape
<1>2. /\ \A o, f : Snapshot(o, f)' = Snapshot(o, f)
      /\ \A p, s : PartOf(p, s)' <=> PartOf(p, s)
  BY LedgerRests
<1>3. PagesShape'
  BY <1>1 DEF PagesInv, PagesShape
<1>4. QED
  BY <1>1, <1>2, <1>3 DEF PagesInv, TurnedTo

LEMMA SamePage ==
  ASSUME PagesInv
  PROVE  page = [page EXCEPT !.shown = page.shown] /\ page.shown.next \in Nat
BY DEF PagesInv, PagesShape

LEMMA AdvanceStep ==
  ASSUME PagesInv, NEW r \in requests, NEW step \in {"looking", "fetching"}, NEW at \in Nat \ {0},
         r.params.offset \in {Live, at}, Advance(r, step, at),
         UNCHANGED <<acs, snapshots, page>>
  PROVE  PagesInv'
<1> DEFINE q == [r EXCEPT !.step = step, !.at = at]
<1>1. r \in [params : PageQueries, step : {"began", "looking", "fetching"}, at : Nat]
  BY DEF PagesInv, PagesShape
<1>2. /\ q \in [params : PageQueries, step : {"began", "looking", "fetching"}, at : Nat]
      /\ q.params = r.params /\ q.at = at
  BY <1>1
<1>3. requests' = (requests \ {r}) \cup {q}
  BY DEF Advance
<1> HIDE DEF q
<1>4. /\ requests' \subseteq
           [params : PageQueries, step : {"began", "looking", "fetching"}, at : Nat]
      /\ \A s \in requests' : s.step # "began" => s.at > 0 /\ s.params.offset \in {Live, s.at}
  BY <1>2, <1>3 DEF PagesInv, PagesShape
<1>5. page' = [page EXCEPT !.shown = page.shown]
  BY SamePage
<1>6. QED
  BY <1>4, <1>5, SamePage, AsideStep

LEMMA PageServedStep ==
  ASSUME PagesInv, Served
  PROVE  PagesInv'
<1>1. PICK r \in requests :
        LedgerEnd(r) \/ GivenOffset(r) \/ Hit(r) \/ Miss(r) \/ Fetched(r) \/ RequestFails(r)
  BY DEF Served
<1>2. /\ r \in [params : PageQueries, step : {"began", "looking", "fetching"}, at : Nat]
      /\ r.params.offset \in Nat /\ r.params.token \in Nat /\ r.params.filter \in Filters
      /\ r.step # "began" => r.at > 0 /\ r.params.offset \in {Live, r.at}
  BY DEF PagesInv, PagesShape, PageQueries
<1>3. acs \in Seq(Seq(Active)) /\ DOMAIN acs = 1..Len(acs) /\ Len(acs) \in Nat
  BY LenProperties DEF PagesInv, PagesShape
<1>4. CASE LedgerEnd(r)
  <2>1. Len(acs) # 0
    BY <1>3, <1>4, EmptySeq DEF LedgerEnd
  <2>2. Advance(r, "looking", Len(acs)) /\ UNCHANGED <<acs, snapshots, page>>
        /\ r.params.offset \in {Live, Len(acs)}
    BY <1>4 DEF LedgerEnd
  <2>3. QED
    BY <1>3, <2>1, <2>2, AdvanceStep
<1>5. CASE GivenOffset(r)
  <2>1. r.params.offset # Live /\ UNCHANGED <<acs, snapshots>>
    BY <1>5 DEF GivenOffset
  <2>2. CASE r.params.offset <= PrunedUpTo
    <3> DEFINE reply == PageReply(r.params.offset, <<>>, 0, TRUE)
    <3>1. PageAnswered(r, reply)
      BY <1>5, <2>2 DEF GivenOffset
    <3>2. SubSeq(<<>>, 1, 0) = <<>> /\ Len(<<>>) = 0
      OBVIOUS
    <3>3. PageSize \in Nat /\ PageSize > 0
      BY PagesConstantsOK
    <3>4. Paginated(<<>>, 0) = [items |-> <<>>, next |-> 0]
      BY <3>2, <3>3 DEF Paginated
    <3>5. reply.isPruned /\ reply.items = <<>> /\ reply.next = 0
      BY <3>4 DEF PageReply
    <3> HIDE DEF reply
    <3>6. PartOf(r.params, reply)
      BY <1>2, <2>1, <2>2, <3>5, PagesConstantsOK DEF PartOf, Live
    <3>7. \A k \in DOMAIN snapshots' :
            k.offset \in DOMAIN acs /\ snapshots'[k] = Snapshot(k.offset, k.filter)
      BY <2>1 DEF PagesInv
    <3>8. QED
      BY <2>1, <3>1, <3>6, <3>7, PageAnsweredStep
  <2>3. CASE ~(r.params.offset <= PrunedUpTo)
    <3>1. Advance(r, "looking", r.params.offset) /\ UNCHANGED <<acs, snapshots, page>>
      BY <1>5, <2>1, <2>3 DEF GivenOffset
    <3>2. r.params.offset \in Nat \ {0}
      BY <1>2, <2>1 DEF Live
    <3>3. QED
      BY <3>1, <3>2, AdvanceStep
  <2>4. QED
    BY <2>2, <2>3
<1>6. CASE Miss(r)
  <2>1. /\ r.step = "looking" /\ Advance(r, "fetching", r.at)
        /\ UNCHANGED <<acs, snapshots, page>>
    BY <1>6 DEF Miss
  <2>2. r.at \in Nat \ {0} /\ r.params.offset \in {Live, r.at}
    BY <1>2, <2>1
  <2>3. QED
    BY <2>1, <2>2, AdvanceStep
<1>7. ASSUME r.step # "began", r.at \in DOMAIN acs
      PROVE  PartOf(r.params, PageReply(r.at, Snapshot(r.at, r.params.filter),
                                        r.params.token, FALSE))
  BY <1>2, <1>7 DEF PartOf, PageReply, Paginated, Due
<1>8. CASE Hit(r)
  <2> DEFINE key == SnapshotKey(r.at, r.params.filter)
  <2>1. r.step = "looking" /\ UNCHANGED <<acs, snapshots>> /\ key \in DOMAIN snapshots
    BY <1>8 DEF Hit
  <2>2. key.offset = r.at /\ key.filter = r.params.filter
    BY DEF SnapshotKey
  <2>3. PageAnswered(r, PageReply(r.at, snapshots[key], r.params.token, FALSE))
    BY <1>8 DEF Hit
  <2> HIDE DEF key
  <2>4. r.at \in DOMAIN acs /\ snapshots[key] = Snapshot(r.at, r.params.filter)
    BY <2>1, <2>2 DEF PagesInv
  <2>5. \A k \in DOMAIN snapshots' :
          k.offset \in DOMAIN acs /\ snapshots'[k] = Snapshot(k.offset, k.filter)
    BY <2>1 DEF PagesInv
  <2>6. PartOf(r.params, PageReply(r.at, snapshots[key], r.params.token, FALSE))
    BY <1>7, <2>1, <2>4
  <2>7. QED
    BY <2>1, <2>3, <2>5, <2>6, PageAnsweredStep
<1>9. CASE Fetched(r)
  <2> DEFINE list == Snapshot(r.at, r.params.filter)
             key == SnapshotKey(r.at, r.params.filter)
  <2>1. /\ r.step = "fetching" /\ r.at <= Len(acs) /\ UNCHANGED acs
        /\ PageAnswered(r, PageReply(r.at, list, r.params.token, FALSE))
        /\ \/ snapshots' = [k \in DOMAIN snapshots \cup {key} |->
                              IF k = key THEN list ELSE snapshots[k]]
           \/ UNCHANGED snapshots
    BY <1>9 DEF Fetched
  <2>2. key.offset = r.at /\ key.filter = r.params.filter
    BY DEF SnapshotKey
  <2>3. r.at \in DOMAIN acs
    BY <1>2, <1>3, <2>1
  <2>4. PartOf(r.params, PageReply(r.at, list, r.params.token, FALSE))
    BY <1>7, <2>1, <2>3
  <2>5. list = Snapshot(key.offset, key.filter)
    BY <2>2
  <2> HIDE DEF key, list
  <2>6. \A k \in DOMAIN snapshots' :
          k.offset \in DOMAIN acs /\ snapshots'[k] = Snapshot(k.offset, k.filter)
    BY <2>1, <2>2, <2>3, <2>5 DEF PagesInv
  <2>7. QED
    BY <2>1, <2>4, <2>6, PageAnsweredStep
<1>10. CASE RequestFails(r)
  <2> DEFINE shows == IF page.params = r.params /\ r.params \notin DOMAIN page.results
                      THEN None ELSE page.shown
  <2>1. /\ requests' = requests \ {r} /\ UNCHANGED <<acs, snapshots>>
        /\ page' = [page EXCEPT !.shown = shows]
    BY <1>10 DEF RequestFails
  <2>2. shows.next \in Nat
    BY SamePage DEF None
  <2> HIDE DEF shows
  <2>3. /\ requests' \subseteq
             [params : PageQueries, step : {"began", "looking", "fetching"}, at : Nat]
        /\ \A s \in requests' : s.step # "began" => s.at > 0 /\ s.params.offset \in {Live, s.at}
    BY <2>1 DEF PagesInv, PagesShape
  <2>4. QED
    BY <2>1, <2>2, <2>3, AsideStep
<1>11. QED
  BY <1>1, <1>4, <1>5, <1>6, <1>8, <1>9, <1>10

LEMMA ExpireStep ==
  ASSUME PagesInv, Expire
  PROVE  PagesInv'
<1>1. PICK key \in DOMAIN snapshots :
        snapshots' = [k \in DOMAIN snapshots \ {key} |-> snapshots[k]]
  BY DEF Expire
<1>2. UNCHANGED <<acs, requests, page>>
  BY DEF Expire
<1>3. /\ \A o, f : Snapshot(o, f)' = Snapshot(o, f)
      /\ \A p, s : PartOf(p, s)' <=> PartOf(p, s)
  BY <1>2, LedgerRests
<1>4. PagesShape'
  BY <1>2 DEF PagesInv, PagesShape
<1>5. QED
  BY <1>1, <1>2, <1>3, <1>4 DEF PagesInv, TurnedTo

\* The page asks with other parameters, after it has kept its tokens.
LEMMA QueryStep ==
  ASSUME PagesInv, NEW params \in PageQueries, NEW p, Query(p, params),
         NEW tokens \in Seq(Nat), NEW clicks, NEW hurried,
         p = [params |-> page.params, tokens |-> tokens, results |-> page.results,
              shown |-> page.shown, open |-> page.open, clicks |-> clicks,
              hurried |-> hurried],
         \/ hurried
         \/ /\ params.token = PageSize * Len(tokens)
            /\ \A k \in DOMAIN tokens : tokens[k] = PageSize * (k - 1)
  PROVE  PagesInv'
<1> DEFINE shows == IF params \in DOMAIN page.results THEN page.results[params] ELSE page.shown
<1>1. /\ UNCHANGED <<acs, snapshots>>
      /\ page' = [p EXCEPT !.params = params, !.open = TRUE, !.shown = shows]
      /\ requests' = requests \/ requests' = requests \cup {[params |-> params, step |-> "began", at |-> 0]}
  BY DEF Query
<1>2. shows.next \in Nat
  BY NextPart DEF PagesInv, PagesShape
<1> HIDE DEF shows
<1>3. /\ page'.params = params /\ page'.tokens = tokens
      /\ page'.results = page.results /\ page'.shown = shows /\ page'.open = TRUE
      /\ page'.clicks = clicks /\ page'.hurried = hurried
      /\ page' = [params |-> page'.params, tokens |-> page'.tokens,
                  results |-> page'.results, shown |-> page'.shown, open |-> page'.open,
                  clicks |-> page'.clicks, hurried |-> page'.hurried]
  BY <1>1
<1>4. /\ \A o, f : Snapshot(o, f)' = Snapshot(o, f)
      /\ \A q, s : PartOf(q, s)' <=> PartOf(q, s)
  BY <1>1, LedgerRests
<1>5. /\ requests' \subseteq
           [params : PageQueries, step : {"began", "looking", "fetching"}, at : Nat]
      /\ \A s \in requests' : s.step # "began" => s.at > 0 /\ s.params.offset \in {Live, s.at}
  BY <1>1 DEF PagesInv, PagesShape
<1>6. PagesShape'
  BY <1>1, <1>2, <1>3, <1>5 DEF PagesInv, PagesShape
<1>7. page'.hurried \/ TurnedTo'
  BY <1>3 DEF TurnedTo
<1>8. QED
  BY <1>1, <1>3, <1>4, <1>5, <1>6, <1>7 DEF PagesInv

\* What the page keeps when it only counts a click and moves its tokens.
LEMMA ClickedPage ==
  ASSUME PagesInv, NEW tokens, NEW hurried,
         NEW p, p = [Clicked EXCEPT !.tokens = tokens, !.hurried = hurried]
  PROVE  p = [params |-> page.params, tokens |-> tokens, results |-> page.results,
              shown |-> page.shown, open |-> page.open, clicks |-> page.clicks + 1,
              hurried |-> hurried]
BY DEF PagesInv, PagesShape, Clicked

LEMMA ClickedFields ==
  ASSUME PagesInv
  PROVE  /\ Clicked.tokens = page.tokens /\ Clicked.hurried = page.hurried
         /\ \A t : [Clicked EXCEPT !.tokens = t]
                     = [Clicked EXCEPT !.tokens = t, !.hurried = page.hurried]
         /\ Clicked = [Clicked EXCEPT !.tokens = page.tokens, !.hurried = page.hurried]
BY DEF PagesInv, PagesShape, Clicked

LEMMA OpenPageStep ==
  ASSUME PagesInv, OpenPage
  PROVE  PagesInv'
<1>1. ~page.open /\ Query(page, First)
  BY DEF OpenPage
<1>2. First \in PageQueries /\ First.token = 0
  BY PagesConstantsOK DEF First, PageQueries, Live
<1>3. page.tokens \in Seq(Nat) /\ page.tokens = <<>>
  BY <1>1 DEF PagesInv, PagesShape
<1>4. page = [params |-> page.params, tokens |-> page.tokens, results |-> page.results,
              shown |-> page.shown, open |-> page.open, clicks |-> page.clicks,
              hurried |-> page.hurried]
  BY DEF PagesInv, PagesShape
<1>5. /\ First.token = PageSize * Len(page.tokens)
      /\ \A k \in DOMAIN page.tokens : page.tokens[k] = PageSize * (k - 1)
  BY <1>2, <1>3, PagesConstantsOK
<1>6. QED
  BY <1>1, <1>2, <1>3, <1>4, <1>5, QueryStep

LEMMA NextPageStep ==
  ASSUME PagesInv, NextPage
  PROVE  PagesInv'
<1> DEFINE tokens == Append(page.tokens, page.params.token)
           hurried == page.hurried \/ Placeholder
           params == [page.params EXCEPT !.token = page.shown.next]
           p == [Clicked EXCEPT !.tokens = tokens, !.hurried = hurried]
<1>1. Query(p, params) /\ page.shown.next # 0
  <2>1. /\ Query([Clicked EXCEPT !.tokens = Append(Clicked.tokens, page.params.token),
                                 !.hurried = Clicked.hurried \/ Placeholder], params)
        /\ page.shown.next # 0
    BY DEF NextPage
  <2>2. QED
    BY <2>1, ClickedFields
<1>2. /\ page.params \in PageQueries /\ page.tokens \in Seq(Nat) /\ page.shown.next \in Nat
      /\ page.params.token \in Nat
  BY DEF PagesInv, PagesShape, PageQueries
<1>3. /\ tokens \in Seq(Nat) /\ Len(tokens) = Len(page.tokens) + 1
      /\ tokens[Len(tokens)] = page.params.token
      /\ \A k \in 1..Len(page.tokens) : tokens[k] = page.tokens[k]
      /\ DOMAIN tokens = 1..Len(tokens) /\ DOMAIN page.tokens = 1..Len(page.tokens)
      /\ Len(page.tokens) \in Nat
  BY <1>2, AppendProperties, LenProperties
<1>4. params \in PageQueries /\ params.token = page.shown.next
  BY <1>2 DEF PageQueries
<1>5. p = [params |-> page.params, tokens |-> tokens, results |-> page.results,
           shown |-> page.shown, open |-> page.open, clicks |-> page.clicks + 1,
           hurried |-> hurried]
  BY ClickedPage
<1> HIDE DEF tokens, params, p
<1>6. ASSUME ~hurried
      PROVE  /\ params.token = PageSize * Len(tokens)
             /\ \A k \in DOMAIN tokens : tokens[k] = PageSize * (k - 1)
  <2>1. /\ page.params.token = PageSize * Len(page.tokens)
        /\ \A k \in DOMAIN page.tokens : page.tokens[k] = PageSize * (k - 1)
    BY <1>6 DEF PagesInv, TurnedTo
  <2>2. /\ page.params \in DOMAIN page.results
        /\ page.shown = page.results[page.params]
    BY <1>6 DEF Placeholder
  <2>3. page.shown.next = page.params.token + PageSize
    BY <1>1, <1>2, <2>2, NextPart DEF PagesInv
  <2>4. PageSize \in Nat
    BY PagesConstantsOK
  <2>5. params.token = PageSize * Len(tokens)
    <3>1. \A n \in Nat : PageSize * n + PageSize = PageSize * (n + 1)
      BY <2>4
    <3>2. QED
      BY <1>3, <1>4, <2>1, <2>3, <3>1
  <2>6. \A k \in DOMAIN tokens : tokens[k] = PageSize * (k - 1)
    <3> TAKE k \in DOMAIN tokens
    <3>1. CASE k = Len(tokens)
      <4>1. k - 1 = Len(page.tokens)
        BY <1>3, <3>1
      <4>2. QED
        BY <1>3, <2>1, <3>1, <4>1
    <3>2. CASE k # Len(tokens)
      BY <1>3, <2>1, <3>2, SMTT(30)
    <3>3. QED
      BY <3>1, <3>2
  <2>7. QED
    BY <2>5, <2>6
<1> HIDE DEF hurried
<1>7. QED
  BY <1>1, <1>3, <1>4, <1>5, <1>6, QueryStep

LEMMA PrevPageStep ==
  ASSUME PagesInv, PrevPage
  PROVE  PagesInv'
<1> DEFINE last == Len(page.tokens)
           tokens == SubSeq(page.tokens, 1, last - 1)
           params == [page.params EXCEPT !.token = page.tokens[last]]
           p == [Clicked EXCEPT !.tokens = tokens, !.hurried = page.hurried]
<1>1. Query(p, params) /\ page.tokens # <<>>
  <2>1. /\ Query([Clicked EXCEPT !.tokens = SubSeq(Clicked.tokens, 1, last - 1)], params)
        /\ page.tokens # <<>>
    BY DEF PrevPage
  <2>2. QED
    BY <2>1, ClickedFields
<1>2. page.params \in PageQueries /\ page.tokens \in Seq(Nat)
  BY DEF PagesInv, PagesShape
<1>3. /\ last \in Nat \ {0} /\ DOMAIN page.tokens = 1..last
      /\ page.tokens[last] \in Nat
  <2>1. last \in Nat /\ DOMAIN page.tokens = 1..last /\ last # 0
    BY <1>1, <1>2, EmptySeq, LenProperties
  <2>2. QED
    BY <1>2, <2>1, ElementOfSeq
<1>4. /\ tokens \in Seq(Nat) /\ Len(tokens) = last - 1 /\ DOMAIN tokens = 1..(last - 1)
      /\ \A k \in 1..(last - 1) : tokens[k] = page.tokens[k]
  <2>1. 1 \in 1..(last + 1) /\ last - 1 \in (1 - 1)..last
    BY <1>3
  <2>2. tokens \in Seq(Nat) /\ Len(tokens) = last - 1
        /\ \A k \in 1..(last - 1) : tokens[k] = page.tokens[k]
    BY <1>2, <1>3, <2>1, SubSeqProperties
  <2>3. QED
    BY <2>2, LenProperties
<1>5. params \in PageQueries /\ params.token = page.tokens[last]
  BY <1>2, <1>3 DEF PageQueries
<1>6. p = [params |-> page.params, tokens |-> tokens, results |-> page.results,
           shown |-> page.shown, open |-> page.open, clicks |-> page.clicks + 1,
           hurried |-> page.hurried]
  BY ClickedPage
<1> HIDE DEF tokens, params, p
<1>7. ASSUME ~page.hurried
      PROVE  /\ params.token = PageSize * Len(tokens)
             /\ \A k \in DOMAIN tokens : tokens[k] = PageSize * (k - 1)
  <2>1. \A k \in 1..last : page.tokens[k] = PageSize * (k - 1)
    BY <1>3, <1>7 DEF PagesInv, TurnedTo
  <2>2. last \in 1..last /\ PageSize \in Nat
    BY <1>3, PagesConstantsOK
  <2>3. params.token = PageSize * (last - 1)
    BY <1>5, <2>1, <2>2
  <2> HIDE DEF last
  <2>4. params.token = PageSize * Len(tokens)
    BY <1>4, <2>3
  <2>5. \A k \in DOMAIN tokens : tokens[k] = PageSize * (k - 1)
    <3> TAKE k \in DOMAIN tokens
    <3>1. k \in 1..(last - 1) /\ k \in 1..last
      BY <1>3, <1>4
    <3>2. QED
      BY <1>4, <2>1, <3>1
  <2>6. QED
    BY <2>4, <2>5
<1> HIDE DEF last
<1>8. QED
  BY <1>1, <1>4, <1>5, <1>6, <1>7, QueryStep

LEMMA SetFilterStep ==
  ASSUME PagesInv, SetFilter
  PROVE  PagesInv'
<1>1. PICK f \in FiltersOffered :
        Query([Clicked EXCEPT !.tokens = <<>>],
              [page.params EXCEPT !.filter = f, !.token = 0])
  BY DEF SetFilter
<1> DEFINE params == [page.params EXCEPT !.filter = f, !.token = 0]
           tokens == <<>>
           p == [Clicked EXCEPT !.tokens = tokens, !.hurried = page.hurried]
<1>2. Query(p, params)
  BY <1>1, ClickedFields
<1>3. params \in PageQueries /\ params.token = 0
  BY DEF PagesInv, PagesShape, PageQueries, FiltersOffered
<1>4. p = [params |-> page.params, tokens |-> tokens, results |-> page.results,
           shown |-> page.shown, open |-> page.open, clicks |-> page.clicks + 1,
           hurried |-> page.hurried]
  BY ClickedPage
<1>5. tokens \in Seq(Nat) /\ Len(tokens) = 0 /\ DOMAIN tokens = {}
  OBVIOUS
<1> HIDE DEF tokens, params, p
<1>6. /\ params.token = PageSize * Len(tokens)
      /\ \A k \in DOMAIN tokens : tokens[k] = PageSize * (k - 1)
  BY <1>3, <1>5, PagesConstantsOK
<1>7. QED
  BY <1>2, <1>3, <1>4, <1>5, <1>6, QueryStep

LEMMA SetOffsetStep ==
  ASSUME PagesInv, SetOffset
  PROVE  PagesInv'
<1>1. PICK o \in OffsetsOffered : Query(Clicked, [page.params EXCEPT !.offset = o])
  BY DEF SetOffset
<1> DEFINE params == [page.params EXCEPT !.offset = o]
           p == [Clicked EXCEPT !.tokens = page.tokens, !.hurried = page.hurried]
<1>2. Query(p, params)
  BY <1>1, ClickedFields
<1>3. params \in PageQueries /\ params.token = page.params.token
  <2>1. o \in Nat
    BY PagesConstantsOK DEF OffsetsOffered
  <2>2. page.params \in PageQueries
    BY DEF PagesInv, PagesShape
  <2>3. QED
    BY <2>1, <2>2 DEF PageQueries
<1>4. p = [params |-> page.params, tokens |-> page.tokens, results |-> page.results,
           shown |-> page.shown, open |-> page.open, clicks |-> page.clicks + 1,
           hurried |-> page.hurried]
  BY ClickedPage
<1>5. page.tokens \in Seq(Nat)
  BY DEF PagesInv, PagesShape
<1> HIDE DEF params, p
<1>6. \/ page.hurried
      \/ /\ params.token = PageSize * Len(page.tokens)
         /\ \A k \in DOMAIN page.tokens : page.tokens[k] = PageSize * (k - 1)
  BY <1>3 DEF PagesInv, TurnedTo
<1>7. QED
  BY <1>2, <1>3, <1>4, <1>5, <1>6, QueryStep

LEMMA PagesInitially == PagesInit => PagesInv
<1> SUFFICES ASSUME PagesInit PROVE PagesInv
  OBVIOUS
<1>1. First \in PageQueries /\ First.token = 0
  BY PagesConstantsOK DEF First, PageQueries, Live
<1>2. /\ acs \in Seq(Seq(Active)) /\ Len(acs) = 0 /\ page.tokens \in Seq(Nat)
      /\ Len(page.tokens) = 0 /\ DOMAIN page.tokens = {} /\ DOMAIN page.results = {}
      /\ DOMAIN snapshots = {}
  BY DEF PagesInit
<1>3. PagesShape
  BY <1>1, <1>2, PagesConstantsOK DEF PagesInit, PagesShape, None
<1>4. TurnedTo
  BY <1>1, <1>2, PagesConstantsOK DEF PagesInit, TurnedTo
<1>5. QED
  BY <1>2, <1>3, <1>4 DEF PagesInit, PagesInv

LEMMA PagesAlways == PagesSpec => []PagesInv
<1>1. PagesInv /\ [PagesNext]_pagesVars => PagesInv'
  <2> SUFFICES ASSUME PagesInv, [PagesNext]_pagesVars PROVE PagesInv'
    OBVIOUS
  <2>1. CASE UNCHANGED pagesVars
    <3>1. UNCHANGED <<acs, snapshots, requests, page>>
      BY <2>1 DEF pagesVars
    <3>2. /\ \A o, f : Snapshot(o, f)' = Snapshot(o, f)
          /\ \A p, s : PartOf(p, s)' <=> PartOf(p, s)
      BY <3>1, LedgerRests
    <3>3. PagesShape'
      BY <3>1 DEF PagesInv, PagesShape
    <3>4. QED
      BY <3>1, <3>2, <3>3 DEF PagesInv, TurnedTo
  <2>2. QED
    BY <2>1, CommitStep, PageServedStep, ExpireStep, OpenPageStep, NextPageStep,
       PrevPageStep, SetFilterStep, SetOffsetStep DEF PagesNext
<1>2. QED
  BY <1>1, PagesInitially, PTL DEF PagesSpec

\* Pages at one offset cut the list the ledger has there, and turning pages
\* leads from part to part: for every ledger, page size and number of clicks.
THEOREM PagesTheorem == PagesSpec => []PagesPartition
<1>1. PagesInv => PagesPartition
  BY DEF PagesInv, PagesPartition, PartOf, TurnedTo
<1>2. QED
  BY <1>1, PagesAlways, PTL

-----------------------------------------------------------------------------
(***************************************************************************)
(* Replies made from a stream.  What was heard by the n-th message, what   *)
(* should be listed and what makes a reply good are taken from the module  *)
(* with their variables as parameters, to compare them across a step.      *)
(***************************************************************************)

Was(b, id, type, n) == \E i \in 1..n : b[i] = [type |-> type, id |-> id]

Halves == {"unassigned", "assigned"}

DueStatus(b, id, n) == IF Was(b, id, "assigned", n) THEN "assigned" ELSE "in_flight"

DueList(q, b, n) ==
  IF q.kind = "reassignments"
  THEN {[id |-> r, status |-> DueStatus(b, r, n)] :
          r \in {w \in q.wanted : \E t \in Halves : Was(b, w, t, n)}}
  ELSE {[id |-> i, status |-> "wanted"] : i \in {j \in 1..n : b[j].type = "wanted"}}

GoodReply(q, b, reply, failed, clock) ==
  reply.ok =>
    /\ reply.list.length = Cardinality(reply.list.items)
    /\ reply.list.items = DueList(q, b, reply.upTo)
    /\ \/ reply.list.items = DueList(q, b, Len(b))
       \/ q.kind \in Bounded \cup {"offset"} /\ reply.list.length >= q.limit
       \/ failed \/ clock = "fired"

PairedBy(entries, q, b, n) ==
  /\ \A e \in entries :
       /\ e.id \in q.wanted /\ (e.unassigned \/ e.assigned)
       /\ e.unassigned <=> Was(b, e.id, "unassigned", n)
       /\ e.assigned <=> Was(b, e.id, "assigned", n)
  /\ \A w \in q.wanted, t \in Halves : Was(b, w, t, n) => \E e \in entries : e.id = w

LEMMA DueIsDue ==
  /\ \A n : ShouldList(n) = DueList(query, backlog, n)
  /\ ShouldList(given)' = DueList(query', backlog', given')
  /\ RepliesFaithful <=>
       (Settled => GoodReply(query, backlog, replies[1], faulted, timer))
  /\ RepliesFaithful' <=>
       (Settled' => GoodReply(query', backlog', replies'[1], faulted', timer'))
  /\ PairedInv <=> /\ IsFiniteSet(paired) /\ (~Settled => collected = EmptyList)
                   /\ PairedBy(paired, query, backlog, given)
  /\ PairedInv' <=> /\ IsFiniteSet(paired') /\ (~Settled' => collected' = EmptyList)
                    /\ PairedBy(paired', query', backlog', given')
<1>1. \A n : ShouldList(n) = DueList(query, backlog, n)
  BY DEF ShouldList, DueList, TrueStatus, DueStatus, Happened, Was, Halves
<1>2. ShouldList(given)' = DueList(query', backlog', given')
  BY DEF ShouldList, DueList, TrueStatus, DueStatus, Happened, Was, Halves
<1>3. RepliesFaithful <=>
        (Settled => GoodReply(query, backlog, replies[1], faulted, timer))
  BY <1>1 DEF RepliesFaithful, GoodReply
<1>4. RepliesFaithful' <=>
        (Settled' => GoodReply(query', backlog', replies'[1], faulted', timer'))
  <2>1. /\ ShouldList(replies[1].upTo)' = DueList(query', backlog', replies'[1].upTo)
        /\ ShouldList(Len(backlog))' = DueList(query', backlog', Len(backlog'))
    BY DEF ShouldList, DueList, TrueStatus, DueStatus, Happened, Was, Halves
  <2>2. QED
    BY <2>1 DEF RepliesFaithful, GoodReply
<1>5. PairedInv <=> /\ IsFiniteSet(paired) /\ (~Settled => collected = EmptyList)
                    /\ PairedBy(paired, query, backlog, given)
  BY DEF PairedInv, PairedBy, Happened, Was, Halves
<1>6. PairedInv' <=> /\ IsFiniteSet(paired') /\ (~Settled' => collected' = EmptyList)
                     /\ PairedBy(paired', query', backlog', given')
  BY DEF PairedInv, PairedBy, Happened, Was, Halves
<1>7. QED
  BY <1>1, <1>2, <1>3, <1>4, <1>5, <1>6

Entries == [id : Reassigned, unassigned : BOOLEAN, assigned : BOOLEAN]

\* A reassignment has one entry.
LEMMA OneEntry ==
  ASSUME NEW entries \in SUBSET Entries, NEW q, NEW b, NEW n, PairedBy(entries, q, b, n)
  PROVE  \A e, f \in entries : e.id = f.id => e = f
<1> SUFFICES ASSUME NEW e \in entries, NEW f \in entries, e.id = f.id PROVE e = f
  OBVIOUS
<1>1. e.unassigned = f.unassigned /\ e.assigned = f.assigned
  <2>1. (e.unassigned <=> f.unassigned) /\ (e.assigned <=> f.assigned)
    BY DEF PairedBy
  <2>2. e.unassigned \in BOOLEAN /\ f.unassigned \in BOOLEAN
        /\ e.assigned \in BOOLEAN /\ f.assigned \in BOOLEAN
    BY DEF Entries
  <2>3. QED
    BY <2>1, <2>2
<1>2. e \in Entries /\ f \in Entries
  OBVIOUS
<1>3. QED
  BY <1>1, <1>2 DEF Entries

\* The list made from the map has every entry once, in its true state.
LEMMA ListedOnce ==
  ASSUME NEW entries \in SUBSET Entries, IsFiniteSet(entries),
         NEW q, NEW b, NEW n, q.kind = "reassignments", PairedBy(entries, q, b, n)
  PROVE  /\ ListOf(entries) = DueList(q, b, n)
         /\ Cardinality(ListOf(entries)) = Cardinality(entries)
         /\ ListOf(entries) \subseteq [id : Reassigned, status : {"in_flight", "assigned"}]
<1>1. \A e \in entries : /\ e.id \in Reassigned
                         /\ Status(e) = DueStatus(b, e.id, n)
                         /\ \E t \in Halves : Was(b, e.id, t, n)
  BY DEF PairedBy, Entries, Status, DueStatus, Halves
<1>2. \A e, f \in entries : e.id = f.id => e = f
  BY OneEntry
<1>3. ListOf(entries) = DueList(q, b, n)
  <2>1. \A x \in ListOf(entries) : x \in DueList(q, b, n)
    BY <1>1 DEF ListOf, DueList, PairedBy
  <2>2. ASSUME NEW x \in DueList(q, b, n) PROVE x \in ListOf(entries)
    <3>1. PICK w \in q.wanted : /\ x = [id |-> w, status |-> DueStatus(b, w, n)]
                                /\ \E t \in Halves : Was(b, w, t, n)
      BY DEF DueList
    <3>2. PICK e \in entries : e.id = w
      BY <3>1 DEF PairedBy
    <3>3. QED
      BY <1>1, <3>1, <3>2 DEF ListOf
  <2>3. QED
    BY <2>1, <2>2
<1>4. Cardinality(ListOf(entries)) = Cardinality(entries)
  <2> DEFINE row == [e \in entries |-> [id |-> e.id, status |-> Status(e)]]
  <2>1. row \in Bijection(entries, ListOf(entries))
    <3>1. row \in [entries -> ListOf(entries)]
      BY DEF ListOf
    <3>2. ASSUME NEW e \in entries, NEW f \in entries, row[e] = row[f] PROVE e = f
      BY <1>2, <3>2
    <3>3. \A x \in ListOf(entries) : \E e \in entries : row[e] = x
      BY DEF ListOf
    <3>4. QED
      BY <3>1, <3>2, <3>3, Fun_IsBij
  <2>2. ExistsBijection(entries, ListOf(entries))
    BY <2>1 DEF ExistsBijection
  <2>3. QED
    BY <2>2, FS_Bijection
<1>5. QED
  BY <1>1, <1>3, <1>4 DEF ListOf, Status

\* What the next message adds.
LEMMA WasNext ==
  ASSUME NEW b, NEW n \in Nat, NEW id, NEW type
  PROVE  Was(b, id, type, n + 1) <=>
           Was(b, id, type, n) \/ b[n + 1] = [type |-> type, id |-> id]
BY DEF Was

LEMMA DueNext ==
  ASSUME NEW q, NEW b, NEW n \in Nat, q.kind # "reassignments"
  PROVE  DueList(q, b, n + 1) =
           DueList(q, b, n) \cup
             (IF b[n + 1].type = "wanted" THEN {[id |-> n + 1, status |-> "wanted"]} ELSE {})
BY DEF DueList

LEMMA PairedSame ==
  ASSUME NEW entries, NEW q, NEW b, NEW n \in Nat, PairedBy(entries, q, b, n),
         \A id : \A t \in Halves : b[n + 1] # [type |-> t, id |-> id]
  PROVE  PairedBy(entries, q, b, n + 1)
<1>1. \A id : \A t \in Halves : Was(b, id, t, n + 1) <=> Was(b, id, t, n)
  <2> SUFFICES ASSUME NEW id, NEW t \in Halves
               PROVE  Was(b, id, t, n + 1) <=> Was(b, id, t, n)
    OBVIOUS
  <2>1. Was(b, id, t, n + 1) <=>
          Was(b, id, t, n) \/ b[n + 1] = [type |-> t, id |-> id]
    BY WasNext
  <2>2. QED
    BY <2>1
<1>2. QED
  BY <1>1 DEF PairedBy, Halves

\* The parts of the invariant are kept when a step keeps each of them.
LEMMA Assemble ==
  ASSUME RepliesInv, Asked, UNCHANGED <<query, backlog>>,
         given' \in 0..Len(backlog),
         call' \in {"open", "cancelled", "closed"}, timer' \in {"off", "armed", "fired"},
         faulted' \in BOOLEAN, paired' \in SUBSET Entries,
         replies' \in Seq([ok : BOOLEAN, list : ReplyLists, upTo : Nat]),
         collected' \in ReplyLists,
         query.kind = "reassignments" =>
           /\ IsFiniteSet(paired') /\ PairedBy(paired', query, backlog, given')
           /\ replies' = <<>> => collected' = EmptyList,
         query.kind # "reassignments" =>
           /\ IsFiniteSet(collected'.items)
           /\ collected'.length = Cardinality(collected'.items)
           /\ query.kind \in {"timeline", "completions"} \/ replies' = <<>> =>
                collected'.items = DueList(query, backlog, given'),
         CancelledInv',
         replies' # <<>> => GoodReply(query, backlog, replies'[1], faulted', timer')
  PROVE  RepliesInv'
<1>1. ReplyLists' = ReplyLists /\ Item' = Item
  BY DEF ReplyLists, Item
<1>2. RepliesTypeOK'
  BY <1>1 DEF RepliesInv, RepliesTypeOK, Entries, ReplyLists
<1>3. RepliesShape'
  BY <1>1 DEF RepliesInv, RepliesShape, Asked
<1>4. query.kind = "reassignments" => PairedInv'
  BY DueIsDue DEF Settled
<1>5. query.kind # "reassignments" => CollectedInv'
  BY DueIsDue DEF CollectedInv, Settled
<1>6. RepliesFaithful'
  BY DueIsDue DEF Settled
<1>7. QED
  BY <1>2, <1>3, <1>4, <1>5, <1>6 DEF RepliesInv

\* Settling a request: with what was collected by the message it settles at,
\* and because the stream is over, faulted or late or the limit is reached.
LEMMA SettleStep ==
  ASSUME RepliesInv, Asked, UNCHANGED <<query, backlog, paired>>, Settle,
         given' \in 0..Len(backlog), faulted => faulted', timer = "fired" => timer' = "fired",
         query.kind = "reassignments" => PairedBy(paired, query, backlog, given'),
         query.kind # "reassignments" =>
           DueList(query, backlog, given') = DueList(query, backlog, given),
         \/ given' = Len(backlog) \/ faulted' \/ timer' = "fired"
         \/ query.kind = "reassignments" /\ Cardinality(paired) >= query.limit
         \/ query.kind = "timeline" /\ collected.length >= query.limit
  PROVE  /\ replies' \in Seq([ok : BOOLEAN, list : ReplyLists, upTo : Nat])
         /\ replies' # <<>> /\ collected' \in ReplyLists
         /\ query.kind # "reassignments" => collected' = collected
         /\ GoodReply(query, backlog, replies'[1], faulted', timer')
<1> DEFINE OneReply == [ok : BOOLEAN, list : ReplyLists, upTo : Nat]
<1>1. replies \in Seq(OneReply) /\ collected \in ReplyLists
  BY DEF RepliesInv, RepliesShape
<1>2. Len(backlog) \in Nat
  BY LenProperties DEF RepliesInv, RepliesShape
<1>3. replies # <<>> => GoodReply(query, backlog, replies[1], faulted', timer')
  <2>1. replies # <<>> => GoodReply(query, backlog, replies[1], faulted, timer)
    BY DueIsDue DEF RepliesInv, Settled
  <2>2. QED
    BY <2>1 DEF GoodReply
<1>4. CASE query.kind = "reassignments"
  <2> DEFINE list == Finalized(collected)
             reply == Reply(list, given')
  <2>1. collected' = list /\ replies' = Append(replies, reply)
    BY <1>4 DEF Settle
  <2>2. paired \in SUBSET Entries /\ IsFiniteSet(paired) /\ (replies = <<>> => collected = EmptyList)
    BY <1>4 DEF RepliesInv, RepliesTypeOK, Entries, PairedInv, Settled
  <2>3. /\ ListOf(paired) = DueList(query, backlog, given')
        /\ Cardinality(ListOf(paired)) = Cardinality(paired)
        /\ ListOf(paired) \subseteq Item
    BY <1>4, <2>2, ListedOnce DEF Item
  <2>4. list = [items |-> collected.items \cup ListOf(paired),
                length |-> collected.length + Cardinality(paired)]
    BY DEF Finalized
  <2>5. Cardinality(paired) \in Nat
    BY <2>2, FS_CardinalityType
  <2>6. list \in ReplyLists
    BY <1>1, <2>3, <2>4, <2>5 DEF ReplyLists
  <2>7. replies = <<>> =>
          list.items = ListOf(paired) /\ list.length = Cardinality(paired)
    BY <2>2, <2>4, <2>5 DEF EmptyList
  <2> HIDE DEF list
  <2>8. reply = [ok |-> TRUE, list |-> list, upTo |-> given']
    BY DEF Reply
  <2>9. reply \in OneReply
    BY <1>2, <2>6, <2>8
  <2>10. replies = <<>> => GoodReply(query, backlog, reply, faulted', timer')
    BY <1>4, <2>3, <2>7, <2>8 DEF GoodReply, Bounded
  <2> HIDE DEF reply, OneReply
  <2>11. /\ replies' \in Seq(OneReply) /\ replies' # <<>>
         /\ replies # <<>> => replies'[1] = replies[1]
         /\ replies = <<>> => replies'[1] = reply
    <3>1. /\ replies' \in Seq(OneReply) /\ Len(replies') = Len(replies) + 1
          /\ replies'[Len(replies) + 1] = reply
          /\ \A i \in 1..Len(replies) : replies'[i] = replies[i]
          /\ Len(replies) \in Nat
      BY <1>1, <2>1, <2>9, AppendProperties, LenProperties
    <3>2. replies # <<>> => Len(replies) >= 1
      BY <1>1, EmptySeq, <3>1
    <3>3. replies = <<>> => Len(replies) = 0
      OBVIOUS
    <3>4. replies' # <<>>
      BY <3>1, EmptySeq
    <3>5. QED
      BY <3>1, <3>2, <3>3, <3>4
  <2>12. QED
    BY <1>3, <1>4, <2>1, <2>6, <2>10, <2>11 DEF OneReply
<1>5. CASE query.kind # "reassignments"
  <2> DEFINE reply == Reply(collected, given')
  <2>1. collected' = collected /\ replies' = IF Settled THEN replies ELSE <<reply>>
    BY <1>5 DEF Settle
  <2>2. reply = [ok |-> TRUE, list |-> collected, upTo |-> given']
    BY DEF Reply
  <2>3. replies = <<>> => /\ collected.length = Cardinality(collected.items)
                          /\ collected.items = DueList(query, backlog, given')
    BY <1>5, DueIsDue DEF RepliesInv, CollectedInv, Settled
  <2>4. replies = <<>> => GoodReply(query, backlog, reply, faulted', timer')
    BY <1>5, <2>2, <2>3 DEF GoodReply, Bounded
  <2>5. reply \in OneReply
    BY <1>1, <1>2, <2>2
  <2> HIDE DEF reply, OneReply
  <2>6. <<reply>> \in Seq(OneReply) /\ <<reply>> # <<>> /\ <<reply>>[1] = reply
    BY <2>5
  <2>7. QED
    BY <1>1, <1>3, <1>5, <2>1, <2>4, <2>6 DEF Settled, OneReply
<1>6. QED
  BY <1>4, <1>5

LEMMA RejectStep ==
  ASSUME RepliesInv, Asked, Reject, given' \in 0..Len(backlog),
         faulted => faulted', timer = "fired" => timer' = "fired"
  PROVE  /\ replies' \in Seq([ok : BOOLEAN, list : ReplyLists, upTo : Nat])
         /\ replies' # <<>> /\ collected' = collected /\ collected \in ReplyLists
         /\ GoodReply(query, backlog, replies'[1], faulted', timer')
<1> DEFINE OneReply == [ok : BOOLEAN, list : ReplyLists, upTo : Nat]
           reply == Rejection(given')
<1>1. replies \in Seq(OneReply) /\ collected \in ReplyLists
  BY DEF RepliesInv, RepliesShape
<1>2. Len(backlog) \in Nat
  BY LenProperties DEF RepliesInv, RepliesShape
<1>3. replies # <<>> => GoodReply(query, backlog, replies[1], faulted', timer')
  <2>1. replies # <<>> => GoodReply(query, backlog, replies[1], faulted, timer)
    BY DueIsDue DEF RepliesInv, Settled
  <2>2. QED
    BY <2>1 DEF GoodReply
<1>4. reply \in OneReply /\ ~reply.ok
  BY <1>2 DEF Rejection, EmptyList, ReplyLists
<1>5. GoodReply(query, backlog, reply, faulted', timer')
  BY <1>4 DEF GoodReply
<1>6. replies' = (IF Settled THEN replies ELSE <<reply>>) /\ collected' = collected
  BY DEF Reject
<1> HIDE DEF reply, OneReply
<1>7. <<reply>> \in Seq(OneReply) /\ <<reply>> # <<>> /\ <<reply>>[1] = reply
  BY <1>4
<1>8. QED
  BY <1>1, <1>3, <1>5, <1>6, <1>7 DEF Settled, OneReply

LEMMA ScriptFacts ==
  ASSUME NEW kind \in Kinds, NEW s \in Scripts(kind)
  PROVE  s \in Seq(Heard) /\ Len(s) <= MaxMessages
<1>1. PICK n \in 0..MaxMessages : s \in [1..n -> Messages(kind)]
  BY DEF Scripts
<1>2. n \in Nat /\ n <= MaxMessages
  BY <1>1, RepliesConstantsOK
<1>3. Messages(kind) \subseteq Heard
  <2>1. [type |-> "other"] \in Plain
    BY DEF Plain
  <2>2. QED
    BY <2>1 DEF Messages, Heard
<1>4. s \in [1..n -> Heard]
  BY <1>1, <1>3
<1>5. s \in Seq(Heard)
  BY <1>2, <1>4, SeqDef
<1>6. Len(s) = n
  <2>1. Len(s) \in Nat /\ 1..Len(s) = 1..n
    BY <1>4, <1>5, LenProperties
  <2>2. QED
    BY <1>2, <2>1
<1>7. QED
  BY <1>2, <1>5, <1>6

LEMMA AskStep ==
  ASSUME RepliesInv, NEW kind \in Kinds, Ask(kind)
  PROVE  RepliesInv'
<1>1. /\ ~Asked /\ query'.kind = kind /\ call' = "open" /\ backlog' \in Scripts(kind)
      /\ timer' = SafetyTimeout(kind)
      /\ UNCHANGED <<given, paired, collected, replies, faulted>>
      /\ query' \in [kind : Kinds \cup {"none"}, limit : 1..MaxLimit, wanted : SUBSET Reassigned]
  BY DEF Ask
<1>2. given = 0 /\ paired = {} /\ collected = EmptyList /\ replies = <<>>
  BY <1>1 DEF RepliesInv, RepliesShape
<1>3. backlog' \in Seq(Heard) /\ Len(backlog') <= MaxMessages /\ Len(backlog') \in Nat
  BY <1>1, ScriptFacts, LenProperties
<1>4. timer' \in {"off", "armed", "fired"} /\ faulted \in BOOLEAN
  BY <1>1 DEF SafetyTimeout, RepliesInv, RepliesTypeOK
<1>5. kind # "none"
  BY DEF Kinds
<1>6. collected' \in ReplyLists' /\ collected'.items = {} /\ collected'.length = 0
  BY <1>1, <1>2 DEF ReplyLists, EmptyList
<1>7. RepliesTypeOK'
  BY <1>1, <1>2, <1>3, <1>4, <1>6 DEF RepliesTypeOK
<1>8. <<>> \in Seq([ok : BOOLEAN, list : ReplyLists', upTo : Nat])
  OBVIOUS
<1>9. RepliesShape'
  BY <1>1, <1>2, <1>3, <1>5, <1>6, <1>8 DEF RepliesShape, Asked
<1>10. \A id, t : ~Was(backlog', id, t, 0)
  BY DEF Was
<1>11. kind = "reassignments" => PairedInv'
  <2>1. PairedBy({}, query', backlog', 0)
    BY <1>10 DEF PairedBy
  <2>2. IsFiniteSet({})
    BY FS_EmptySet
  <2>3. QED
    BY <1>1, <1>2, <2>1, <2>2, DueIsDue
<1>12. kind # "reassignments" => CollectedInv'
  <2>1. kind # "reassignments" => DueList(query', backlog', 0) = {}
    BY <1>1 DEF DueList
  <2>2. IsFiniteSet({}) /\ Cardinality({}) = 0
    BY FS_EmptySet
  <2>3. QED
    BY <1>1, <1>2, <1>6, <2>1, <2>2, DueIsDue DEF CollectedInv
<1>13. CancelledInv' /\ RepliesFaithful'
  BY <1>1, <1>2 DEF CancelledInv, RepliesFaithful, Settled
<1>14. QED
  BY <1>1, <1>7, <1>9, <1>11, <1>12, <1>13 DEF RepliesInv

\* What the invariant gives a step of a request that was asked.
LEMMA RepliesFacts ==
  ASSUME RepliesInv
  PROVE  /\ Len(backlog) \in Nat /\ Len(backlog) <= MaxMessages /\ given \in 0..Len(backlog)
         /\ given < Len(backlog) => NextMessage \in Heard
         /\ paired \in SUBSET Entries /\ faulted \in BOOLEAN
         /\ timer \in {"off", "armed", "fired"}
         /\ call \in {"none", "open", "cancelled", "closed"} /\ (call # "none" => Asked)
         /\ replies \in Seq([ok : BOOLEAN, list : ReplyLists, upTo : Nat])
         /\ collected \in ReplyLists
         /\ query.kind = "reassignments" =>
              /\ IsFiniteSet(paired) /\ PairedBy(paired, query, backlog, given)
              /\ replies = <<>> => collected = EmptyList
         /\ query.kind # "reassignments" =>
              /\ IsFiniteSet(collected.items)
              /\ collected.length = Cardinality(collected.items)
              /\ query.kind \in {"timeline", "completions"} \/ replies = <<>> =>
                   collected.items = DueList(query, backlog, given)
         /\ replies # <<>> => GoodReply(query, backlog, replies[1], faulted, timer)
<1>1. Len(backlog) \in Nat /\ Len(backlog) <= MaxMessages /\ given \in 0..Len(backlog)
  BY LenProperties DEF RepliesInv, RepliesShape, RepliesTypeOK
<1>2. given < Len(backlog) => NextMessage \in Heard
  <2>1. given < Len(backlog) => given + 1 \in 1..Len(backlog)
    BY <1>1
  <2>2. QED
    BY <2>1, ElementOfSeq DEF RepliesInv, RepliesShape, NextMessage
<1>3. PairedInv => /\ IsFiniteSet(paired) /\ PairedBy(paired, query, backlog, given)
                   /\ replies = <<>> => collected = EmptyList
  BY DueIsDue DEF Settled
<1>4. CollectedInv =>
        /\ IsFiniteSet(collected.items) /\ collected.length = Cardinality(collected.items)
        /\ query.kind \in {"timeline", "completions"} \/ replies = <<>> =>
             collected.items = DueList(query, backlog, given)
  BY DueIsDue DEF Settled, CollectedInv
<1>5. replies # <<>> => GoodReply(query, backlog, replies[1], faulted, timer)
  BY DueIsDue DEF RepliesInv, Settled
<1>6. QED
  BY <1>1, <1>2, <1>3, <1>4, <1>5
     DEF RepliesInv, RepliesShape, RepliesTypeOK, Entries

\* onError settles the lists that have a timer and rejects the others.
LEMMA FailedStep ==
  ASSUME RepliesInv, Asked, UNCHANGED <<query, backlog, paired>>, Failed,
         given' \in 0..Len(backlog), faulted => faulted', timer = "fired" => timer' = "fired",
         query.kind = "reassignments" => PairedBy(paired, query, backlog, given'),
         query.kind # "reassignments" =>
           DueList(query, backlog, given') = DueList(query, backlog, given),
         \/ given' = Len(backlog) \/ faulted' \/ timer' = "fired"
         \/ query.kind = "reassignments" /\ Cardinality(paired) >= query.limit
         \/ query.kind = "timeline" /\ collected.length >= query.limit
         \/ query.kind \notin {"reassignments", "timeline"}
  PROVE  /\ replies' \in Seq([ok : BOOLEAN, list : ReplyLists, upTo : Nat])
         /\ replies' # <<>> /\ collected' \in ReplyLists
         /\ query.kind # "reassignments" => collected' = collected
         /\ GoodReply(query, backlog, replies'[1], faulted', timer')
<1>1. CASE query.kind \in {"reassignments", "timeline"}
  <2>1. Settle
    BY <1>1 DEF Failed
  <2>2. QED
    BY <1>1, <2>1, SettleStep
<1>2. CASE query.kind \notin {"reassignments", "timeline"}
  <2>1. Reject
    BY <1>2 DEF Failed
  <2>2. QED
    BY <1>2, <2>1, RejectStep
<1>3. QED
  BY <1>1, <1>2

\* The entry of a reassignment has the halves that were heard of.
LEMMA EntryFacts ==
  ASSUME paired \in SUBSET Entries, NEW n \in Nat, PairedBy(paired, query, backlog, n),
         NEW id \in query.wanted, id \in Reassigned
  PROVE  /\ Entry(id) \in Entries /\ Entry(id).id = id
         /\ Entry(id).unassigned <=> Was(backlog, id, "unassigned", n)
         /\ Entry(id).assigned <=> Was(backlog, id, "assigned", n)
<1>1. CASE \E e \in paired : e.id = id
  <2>1. Entry(id) \in paired /\ Entry(id).id = id
    <3>1. Entry(id) = CHOOSE e \in paired : e.id = id
      BY <1>1 DEF Entry
    <3>2. QED
      BY <1>1, <3>1
  <2>2. \A e \in paired : e.id = id => /\ e.unassigned <=> Was(backlog, id, "unassigned", n)
                                       /\ e.assigned <=> Was(backlog, id, "assigned", n)
    BY DEF PairedBy
  <2>3. QED
    BY <2>1, <2>2
<1>2. CASE ~\E e \in paired : e.id = id
  <2>1. \A t \in Halves : ~Was(backlog, id, t, n)
    BY <1>2 DEF PairedBy
  <2>2. Entry(id) = [id |-> id, unassigned |-> FALSE, assigned |-> FALSE]
    BY <1>2 DEF Entry
  <2>3. QED
    BY <2>1, <2>2 DEF Halves, Entries
<1>3. QED
  BY <1>1, <1>2

\* The map after one more event of a reassignment.
LEMMA PairedNext ==
  ASSUME paired \in SUBSET Entries, IsFiniteSet(paired), NEW n \in Nat,
         PairedBy(paired, query, backlog, n), NEW m \in Moves, backlog[n + 1] = m
  PROVE  /\ Paired(m) \in SUBSET Entries /\ IsFiniteSet(Paired(m))
         /\ PairedBy(Paired(m), query, backlog, n + 1)
         /\ Cardinality(Paired(m)) >= Cardinality(paired)
         /\ m.id \notin query.wanted => Paired(m) = paired
<1> DEFINE others == {e \in paired : e.id # m.id}
<1>1. /\ m.id \in Reassigned /\ m.type \in Halves
      /\ m = [type |-> m.type, id |-> m.id]
  BY DEF Moves, Halves
<1>2. \A id : \A t \in Halves :
        Was(backlog, id, t, n + 1) <=>
          Was(backlog, id, t, n) \/ (t = m.type /\ id = m.id)
  <2> SUFFICES ASSUME NEW id, NEW t \in Halves
               PROVE  Was(backlog, id, t, n + 1) <=>
                        Was(backlog, id, t, n) \/ (t = m.type /\ id = m.id)
    OBVIOUS
  <2>1. Was(backlog, id, t, n + 1) <=>
          Was(backlog, id, t, n) \/ backlog[n + 1] = [type |-> t, id |-> id]
    BY DEF Was
  <2>2. m = [type |-> t, id |-> id] <=> (t = m.type /\ id = m.id)
    BY <1>1
  <2>3. QED
    BY <2>1, <2>2
<1>3. /\ IsFiniteSet(others) /\ Cardinality(others) \in Nat /\ Cardinality(paired) \in Nat
      /\ others \in SUBSET Entries
  <2>1. others \in SUBSET paired
    OBVIOUS
  <2>2. QED
    BY <2>1, FS_Subset, FS_CardinalityType
<1>4. CASE m.id \notin query.wanted
  <2>1. others = paired
    BY <1>4 DEF PairedBy
  <2>2. Paired(m) = paired
    BY <1>4, <2>1 DEF Paired
  <2>3. PairedBy(paired, query, backlog, n + 1)
    <3>1. \A id \in query.wanted : \A t \in Halves :
            Was(backlog, id, t, n + 1) <=> Was(backlog, id, t, n)
      BY <1>2, <1>4
    <3>2. QED
      BY <3>1 DEF PairedBy, Halves
  <2>4. QED
    BY <1>3, <2>2, <2>3
<1>5. CASE m.id \in query.wanted
  <2> DEFINE old == Entry(m.id)
             new == Moved(m)
  <2>1. /\ old \in Entries /\ old.id = m.id
        /\ old.unassigned <=> Was(backlog, m.id, "unassigned", n)
        /\ old.assigned <=> Was(backlog, m.id, "assigned", n)
    BY <1>1, <1>5, EntryFacts
  <2>2. new = [old EXCEPT !.unassigned = old.unassigned \/ m.type = "unassigned",
                          !.assigned = old.assigned \/ m.type = "assigned"]
    BY DEF Moved
  <2>3. Paired(m) = others \cup {new}
    BY <1>5 DEF Paired
  <2> HIDE DEF old, new
  <2>4. /\ new \in Entries /\ new.id = m.id
        /\ new.unassigned <=> old.unassigned \/ m.type = "unassigned"
        /\ new.assigned <=> old.assigned \/ m.type = "assigned"
    BY <2>1, <2>2 DEF Entries
  <2>5. /\ new.unassigned \/ new.assigned
        /\ new.unassigned <=> Was(backlog, new.id, "unassigned", n + 1)
        /\ new.assigned <=> Was(backlog, new.id, "assigned", n + 1)
    BY <1>1, <1>2, <2>1, <2>4 DEF Halves
  <2>6. \A e \in others :
          /\ e.id \in query.wanted /\ (e.unassigned \/ e.assigned)
          /\ e.unassigned <=> Was(backlog, e.id, "unassigned", n + 1)
          /\ e.assigned <=> Was(backlog, e.id, "assigned", n + 1)
    BY <1>2 DEF PairedBy, Halves
  <2>7. \A w \in query.wanted, t \in Halves :
          Was(backlog, w, t, n + 1) => \E e \in others \cup {new} : e.id = w
    <3> SUFFICES ASSUME NEW w \in query.wanted, NEW t \in Halves,
                        Was(backlog, w, t, n + 1)
                 PROVE  \E e \in others \cup {new} : e.id = w
      OBVIOUS
    <3>1. CASE w = m.id
      BY <2>4, <3>1
    <3>2. CASE w # m.id
      <4>1. PICK e \in paired : e.id = w
        BY <1>2, <3>2 DEF PairedBy
      <4>2. e \in others
        BY <3>2, <4>1
      <4>3. QED
        BY <4>1, <4>2
    <3>3. QED
      BY <3>1, <3>2
  <2>8. PairedBy(others \cup {new}, query, backlog, n + 1)
    BY <1>5, <2>4, <2>5, <2>6, <2>7 DEF PairedBy
  <2>9. new \notin others
    BY <2>4
  <2>10. /\ IsFiniteSet(others \cup {new})
         /\ Cardinality(others \cup {new}) = Cardinality(others) + 1
    BY <1>3, <2>9, FS_AddElement
  <2>11. Cardinality(others) + 1 >= Cardinality(paired)
    <3>1. CASE \E e \in paired : e.id = m.id
      <4>1. PICK e \in paired : e.id = m.id
        BY <3>1
      <4>2. \A f \in paired : f.id = m.id => f = e
        BY <4>1, OneEntry
      <4>3. others = paired \ {e}
        BY <4>1, <4>2
      <4>4. Cardinality(paired \ {e}) = Cardinality(paired) - 1
        BY <4>1, FS_RemoveElement
      <4> HIDE DEF others
      <4>5. QED
        BY <1>3, <4>3, <4>4
    <3>2. CASE ~\E e \in paired : e.id = m.id
      <4>1. others = paired
        BY <3>2
      <4>2. QED
        BY <1>3, <4>1
    <3>3. QED
      BY <3>1, <3>2
  <2>12. others \cup {new} \in SUBSET Entries
    BY <1>3, <2>4
  <2>13. QED
    BY <1>5, <2>3, <2>8, <2>10, <2>11, <2>12
<1>6. QED
  BY <1>4, <1>5

LEMMA ArrivesStep ==
  ASSUME RepliesInv, MessageArrives
  PROVE  RepliesInv'
<1> DEFINE m == NextMessage
           OneReply == [ok : BOOLEAN, list : ReplyLists, upTo : Nat]
<1>1. /\ call \in {"open", "cancelled"} /\ given < Len(backlog) /\ given' = given + 1
      /\ UNCHANGED <<query, backlog>>
      /\ m = backlog[given + 1]
  BY DEF MessageArrives, NextMessage
<1>2. /\ Len(backlog) \in Nat /\ given \in Nat /\ given' \in 0..Len(backlog)
      /\ m \in Heard /\ paired \in SUBSET Entries /\ faulted \in BOOLEAN
      /\ timer \in {"off", "armed", "fired"} /\ Asked
      /\ replies \in Seq(OneReply) /\ collected \in ReplyLists
      /\ replies # <<>> => GoodReply(query, backlog, replies[1], faulted, timer)
  BY <1>1, RepliesFacts
<1>3. /\ m \in Moves => m.type \in Halves
      /\ m \notin Moves => m.type \notin Halves
  BY <1>2 DEF Heard, Plain, Broken, Moves, Halves
<1>4. ASSUME query.kind = "reassignments"
      PROVE  /\ IsFiniteSet(paired) /\ PairedBy(paired, query, backlog, given)
             /\ replies = <<>> => collected = EmptyList
  BY <1>4, RepliesFacts
<1>5. ASSUME query.kind # "reassignments"
      PROVE  /\ IsFiniteSet(collected.items)
             /\ collected.length = Cardinality(collected.items)
             /\ query.kind \in {"timeline", "completions"} \/ replies = <<>> =>
                  collected.items = DueList(query, backlog, given)
             /\ DueList(query, backlog, given + 1) =
                  DueList(query, backlog, given) \cup
                    (IF m.type = "wanted" THEN {[id |-> given + 1, status |-> "wanted"]}
                     ELSE {})
  BY <1>1, <1>2, <1>5, RepliesFacts, DueNext
<1>6. m \notin Moves /\ query.kind = "reassignments" =>
        PairedBy(paired, query, backlog, given + 1)
  <2> SUFFICES ASSUME m \notin Moves, query.kind = "reassignments"
               PROVE  PairedBy(paired, query, backlog, given + 1)
    OBVIOUS
  <2>1. \A id : \A t \in Halves : m # [type |-> t, id |-> id]
    BY <1>3
  <2> HIDE DEF m
  <2>2. \A id : \A t \in Halves : backlog[given + 1] # [type |-> t, id |-> id]
    BY <1>1, <2>1
  <2>3. QED
    BY <1>2, <1>4, <2>2, PairedSame
<1> HIDE DEF m, OneReply
<1>7. CASE Reassignment
  <2>1. /\ query.kind = "reassignments" /\ m \in Moves /\ paired' = Paired(m)
        /\ call' = IF m.id \in query.wanted /\ Cardinality(paired') >= query.limit
                   THEN Cancelled(call) ELSE call
        /\ UNCHANGED <<collected, replies, timer, faulted>>
    BY <1>7 DEF Reassignment, m
  <2>2. /\ paired' \in SUBSET Entries /\ IsFiniteSet(paired')
        /\ PairedBy(paired', query, backlog, given')
        /\ Cardinality(paired') >= Cardinality(paired)
    BY <1>1, <1>2, <1>4, <2>1, PairedNext
  <2>3. call' \in {"open", "cancelled", "closed"}
    BY <1>1, <2>1 DEF Cancelled
  <2>4. CancelledInv'
    <3>1. Cardinality(paired) \in Nat /\ Cardinality(paired') \in Nat /\ query.limit \in Nat
      BY <1>4, <2>1, <2>2, FS_CardinalityType, RepliesConstantsOK
         DEF RepliesInv, RepliesTypeOK
    <3>2. call = "cancelled" => timer = "fired" \/ Cardinality(paired) >= query.limit
      BY <2>1 DEF RepliesInv, CancelledInv
    <3>3. call' = "cancelled" => call = "cancelled" \/ Cardinality(paired') >= query.limit
      BY <2>1
    <3>4. call' = "cancelled" => timer' = "fired" \/ Cardinality(paired') >= query'.limit
      BY <1>1, <2>1, <2>2, <3>1, <3>2, <3>3
    <3>5. QED
      BY <1>1, <2>1, <3>4 DEF CancelledInv
  <2>5. QED
    BY <1>1, <1>2, <1>4, <2>1, <2>2, <2>3, <2>4, Assemble DEF OneReply
<1>8. CASE m.type = "wanted" /\ (Collecting \/ Resolving)
  <2> DEFINE row == [id |-> given + 1, status |-> "wanted"]
             longer == [items |-> collected.items \cup {row},
                        length |-> collected.length + 1]
  <2>1. Collect = longer
    BY DEF Collect
  <2>2. m \notin Moves
    BY <1>3, <1>8 DEF Halves
  <2>3. query.kind # "reassignments" /\ UNCHANGED <<paired, timer, faulted>>
    BY <1>8 DEF Collecting, Resolving
  <2>4. collected.items = DueList(query, backlog, given) =>
          /\ longer \in ReplyLists /\ IsFiniteSet(longer.items)
          /\ longer.length = Cardinality(longer.items)
          /\ longer.items = DueList(query, backlog, given')
    <3> SUFFICES ASSUME collected.items = DueList(query, backlog, given)
                 PROVE  /\ longer \in ReplyLists /\ IsFiniteSet(longer.items)
                        /\ longer.length = Cardinality(longer.items)
                        /\ longer.items = DueList(query, backlog, given')
      OBVIOUS
    <3>1. row \notin collected.items
      <4>1. \A x \in collected.items : x.id \in 1..given
        BY <2>3 DEF DueList
      <4>2. row.id = given + 1 /\ given + 1 \notin 1..given
        BY <1>2
      <4> HIDE DEF row
      <4>3. QED
        BY <4>1, <4>2
    <3>2. /\ IsFiniteSet(collected.items \cup {row})
          /\ Cardinality(collected.items \cup {row}) = Cardinality(collected.items) + 1
      BY <1>5, <2>3, <3>1, FS_AddElement
    <3>3. row \in Item
      <4>1. given + 1 \in 1..MaxMessages
        BY <1>1, <1>2, RepliesFacts, RepliesConstantsOK
      <4>2. QED
        BY <2>3, <4>1 DEF Item
    <3>4. longer \in ReplyLists
      BY <1>2, <3>3 DEF ReplyLists
    <3>5. longer.items = DueList(query, backlog, given')
      BY <1>1, <1>5, <1>8, <2>3
    <3>6. QED
      BY <1>5, <2>3, <3>2, <3>4, <3>5
  <2>5. query.limit \in Nat /\ collected.length \in Nat
    BY <1>2, RepliesConstantsOK DEF RepliesInv, RepliesTypeOK, ReplyLists
  <2>6. CASE Collecting
    <3> HIDE DEF longer
    <3>1. /\ query.kind \in {"timeline", "completions"} /\ collected' = longer
          /\ call' = IF query.kind = "timeline" /\ longer.length >= query.limit
                     THEN Cancelled(call) ELSE call
          /\ UNCHANGED replies
      BY <2>1, <2>6 DEF Collecting
    <3>2. call' \in {"open", "cancelled", "closed"}
      BY <1>1, <3>1 DEF Cancelled
    <3>3. /\ longer \in ReplyLists /\ IsFiniteSet(longer.items)
          /\ longer.length = Cardinality(longer.items)
          /\ longer.items = DueList(query, backlog, given')
      BY <1>5, <2>3, <2>4, <3>1
    <3>4. CancelledInv'
      <4>1. call = "cancelled" =>
              IF query.kind = "timeline" THEN timer = "fired" \/ collected.length >= query.limit
              ELSE timer = "fired" \/ replies # <<>>
        BY <3>1 DEF RepliesInv, CancelledInv, Settled
      <4>2. longer.length = collected.length + 1
        BY DEF longer
      <4>3. call' = "cancelled" =>
              IF query.kind = "timeline" THEN timer = "fired" \/ longer.length >= query.limit
              ELSE timer = "fired" \/ replies # <<>>
        BY <2>5, <3>1, <4>1, <4>2
      <4>4. QED
        BY <1>1, <2>3, <3>1, <4>3 DEF CancelledInv, Settled
    <3>5. QED
      BY <1>1, <1>2, <2>3, <3>1, <3>2, <3>3, <3>4, Assemble DEF OneReply
  <2>7. CASE Resolving
    <3> HIDE DEF longer
    <3>1. /\ query.kind \in {"recent", "offset"}
          /\ IF replies # <<>> THEN UNCHANGED <<collected, call, replies>>
             ELSE /\ collected' = longer
                  /\ IF longer.length >= query.limit
                     THEN /\ call' = Cancelled(call)
                          /\ replies' = <<Reply(longer, given')>>
                     ELSE UNCHANGED <<call, replies>>
      BY <2>1, <2>7 DEF Resolving, Settled
    <3>2. call' \in {"open", "cancelled", "closed"}
      BY <1>1, <3>1 DEF Cancelled
    <3>3. replies = <<>> => /\ longer \in ReplyLists /\ IsFiniteSet(longer.items)
                            /\ longer.length = Cardinality(longer.items)
                            /\ longer.items = DueList(query, backlog, given')
      BY <1>5, <2>3, <2>4
    <3>4. CancelledInv'
      <4>1. call = "cancelled" => timer = "fired" \/ replies # <<>>
        BY <3>1 DEF RepliesInv, CancelledInv, Settled
      <4>2. call' = "cancelled" => timer = "fired" \/ replies' # <<>>
        BY <3>1, <4>1
      <4>3. QED
        BY <1>1, <2>3, <3>1, <4>2 DEF CancelledInv, Settled
    <3>5. /\ IsFiniteSet(collected'.items) /\ collected' \in ReplyLists
          /\ collected'.length = Cardinality(collected'.items)
          /\ replies' = <<>> => collected'.items = DueList(query, backlog, given')
      BY <1>2, <1>5, <2>3, <3>1, <3>3
    <3>6. /\ replies' \in Seq(OneReply)
          /\ replies' # <<>> => GoodReply(query, backlog, replies'[1], faulted', timer')
      <4>1. CASE UNCHANGED replies
        BY <1>2, <2>3, <4>1
      <4>2. CASE replies = <<>> /\ longer.length >= query.limit
        <5> DEFINE reply == Reply(longer, given')
        <5>1. reply = [ok |-> TRUE, list |-> longer, upTo |-> given']
          BY DEF Reply
        <5>2. reply \in OneReply
          BY <1>2, <3>3, <4>2, <5>1 DEF OneReply
        <5>3. GoodReply(query, backlog, reply, faulted', timer')
          BY <3>1, <3>3, <4>2, <5>1 DEF GoodReply, Bounded
        <5>4. replies' = <<reply>>
          BY <3>1, <4>2
        <5> HIDE DEF reply
        <5>5. QED
          BY <5>2, <5>3, <5>4
      <4>3. QED
        BY <3>1, <4>1, <4>2
    <3>7. QED
      BY <1>1, <1>2, <2>3, <3>1, <3>2, <3>4, <3>5, <3>6, Assemble DEF OneReply
  <2>8. QED
    BY <1>8, <2>6, <2>7
<1>9. CASE Ignoring
  <2>1. m.type = "other" /\ UNCHANGED <<paired, collected, call, replies, timer, faulted>>
    BY <1>9 DEF Ignoring, m
  <2>2. m \notin Moves
    BY <1>3, <2>1 DEF Halves
  <2>3. CancelledInv'
    BY <1>1, <2>1 DEF RepliesInv, CancelledInv, Settled
  <2>4. query.kind # "reassignments" =>
          DueList(query, backlog, given + 1) = DueList(query, backlog, given)
    BY <1>5, <2>1
  <2>5. QED
    BY <1>1, <1>2, <1>4, <1>5, <1>6, <2>1, <2>2, <2>3, <2>4, Assemble DEF OneReply
<1>10. CASE MappingFails
  <2>1. m = Broken /\ Failed /\ faulted' = TRUE /\ UNCHANGED <<paired, call, timer>>
    BY <1>10 DEF MappingFails, m
  <2>2. m \notin Moves /\ m.type # "wanted"
    BY <1>3, <2>1 DEF Broken, Halves
  <2>3. query.kind # "reassignments" =>
          DueList(query, backlog, given') = DueList(query, backlog, given)
    BY <1>1, <1>5, <2>2
  <2>4. /\ replies' \in Seq(OneReply) /\ replies' # <<>> /\ collected' \in ReplyLists
        /\ query.kind # "reassignments" => collected' = collected
        /\ GoodReply(query, backlog, replies'[1], faulted', timer')
    BY <1>1, <1>2, <1>6, <2>1, <2>2, <2>3, FailedStep DEF OneReply
  <2>5. CancelledInv'
    BY <1>1, <2>1, <2>4 DEF RepliesInv, CancelledInv, Settled
  <2>6. QED
    BY <1>1, <1>2, <1>4, <1>5, <1>6, <2>1, <2>2, <2>3, <2>4, <2>5, Assemble DEF OneReply
<1>11. QED
  BY <1>7, <1>8, <1>9, <1>10 DEF MessageArrives, m

LEMMA EndsStep ==
  ASSUME RepliesInv, CallEnds \/ CallFails \/ TimeoutFires
  PROVE  RepliesInv'
<1> DEFINE OneReply == [ok : BOOLEAN, list : ReplyLists, upTo : Nat]
<1>1. /\ Len(backlog) \in Nat /\ given \in 0..Len(backlog)
      /\ paired \in SUBSET Entries /\ faulted \in BOOLEAN
      /\ timer \in {"off", "armed", "fired"}
      /\ call \in {"none", "open", "cancelled", "closed"} /\ (call # "none" => Asked)
      /\ query.kind = "reassignments" =>
           IsFiniteSet(paired) /\ PairedBy(paired, query, backlog, given)
      /\ query.kind # "reassignments" =>
           /\ IsFiniteSet(collected.items)
           /\ collected.length = Cardinality(collected.items)
           /\ query.kind \in {"timeline", "completions"} \/ replies = <<>> =>
                collected.items = DueList(query, backlog, given)
      /\ replies # <<>> => GoodReply(query, backlog, replies[1], faulted, timer)
  BY RepliesFacts
<1>2. UNCHANGED <<query, backlog, paired, given>>
  BY DEF CallEnds, CallFails, TimeoutFires
<1>3. Asked /\ call' \in {"open", "cancelled", "closed"}
  <2>1. timer = "armed" => call # "none"
    BY DEF RepliesInv, RepliesShape
  <2>2. QED
    BY <1>1, <2>1 DEF CallEnds, CallFails, TimeoutFires, Cancelled
<1>4. /\ replies' \in Seq(OneReply) /\ replies' # <<>> /\ collected' \in ReplyLists
      /\ query.kind # "reassignments" => collected' = collected
      /\ GoodReply(query, backlog, replies'[1], faulted', timer')
      /\ faulted' \in BOOLEAN /\ timer' \in {"off", "armed", "fired"}
      /\ CancelledInv'
  <2>1. CASE CallEnds
    <3>1. /\ given' = Len(backlog) /\ Settle /\ faulted' = faulted /\ call' = "closed"
          /\ timer' \in {"off", "armed", "fired"} /\ (timer = "fired" => timer' = "fired")
      BY <1>1, <2>1 DEF CallEnds, ClearTimer
    <3>2. QED
      BY <1>1, <1>2, <1>3, <3>1, SettleStep DEF OneReply, CancelledInv
  <2>2. CASE CallFails
    <3>1. /\ Failed /\ faulted' = (faulted \/ call = "open") /\ call' = "closed"
          /\ call \in {"open", "cancelled"}
          /\ timer' \in {"off", "armed", "fired"} /\ (timer = "fired" => timer' = "fired")
      BY <1>1, <2>2 DEF CallFails, ClearTimer
    <3>2. \/ faulted' \/ timer' = "fired"
          \/ query.kind = "reassignments" /\ Cardinality(paired) >= query.limit
          \/ query.kind = "timeline" /\ collected.length >= query.limit
          \/ query.kind \notin {"reassignments", "timeline"}
      BY <3>1 DEF RepliesInv, CancelledInv
    <3>3. QED
      BY <1>1, <1>2, <1>3, <3>1, <3>2, FailedStep DEF OneReply, CancelledInv
  <2>3. CASE TimeoutFires
    <3>1. Settle /\ faulted' = faulted /\ timer' = "fired"
      BY <2>3 DEF TimeoutFires
    <3>2. /\ replies' \in Seq(OneReply) /\ replies' # <<>> /\ collected' \in ReplyLists
          /\ query.kind # "reassignments" => collected' = collected
          /\ GoodReply(query, backlog, replies'[1], faulted', timer')
      BY <1>1, <1>2, <1>3, <3>1, SettleStep DEF OneReply
    <3>3. CancelledInv'
      BY <3>1 DEF CancelledInv
    <3>4. QED
      BY <1>1, <3>1, <3>2, <3>3
  <2>4. QED
    BY <2>1, <2>2, <2>3
<1>5. QED
  BY <1>1, <1>2, <1>3, <1>4, Assemble DEF OneReply

LEMMA RepliesInitially == RepliesInit => RepliesInv
<1> SUFFICES ASSUME RepliesInit PROVE RepliesInv
  OBVIOUS
<1>1. /\ query = [kind |-> "none", limit |-> 1, wanted |-> {}]
      /\ call = "none" /\ backlog = <<>> /\ given = 0 /\ paired = {}
      /\ collected = [items |-> {}, length |-> 0]
      /\ replies = <<>> /\ timer = "off" /\ faulted = FALSE
  BY DEF RepliesInit, NoQuery, EmptyList
<1>2. Len(backlog) = 0 /\ backlog \in Seq(Heard)
      /\ replies \in Seq([ok : BOOLEAN, list : ReplyLists, upTo : Nat])
  BY <1>1
<1>3. RepliesTypeOK
  <2>1. query \in [kind : Kinds \cup {"none"}, limit : 1..MaxLimit,
                   wanted : SUBSET Reassigned]
    BY <1>1, RepliesConstantsOK
  <2>2. collected.items = {} /\ collected.length = 0
    BY <1>1
  <2>3. given \in 0..Len(backlog)
    BY <1>1, <1>2
  <2>4. /\ call \in {"none", "open", "cancelled", "closed"}
        /\ timer \in {"off", "armed", "fired"} /\ faulted \in BOOLEAN
        /\ paired \subseteq [id : Reassigned, unassigned : BOOLEAN, assigned : BOOLEAN]
    BY <1>1
  <2>5. QED
    BY <2>1, <2>2, <2>3, <2>4 DEF RepliesTypeOK
<1>4. RepliesShape
  BY <1>1, <1>2, RepliesConstantsOK DEF RepliesShape, Asked, ReplyLists, EmptyList
<1>5. ShouldList(given) = {}
  BY <1>1 DEF ShouldList
<1>6. CollectedInv
  <2>1. IsFiniteSet({}) /\ Cardinality({}) = 0
    BY FS_EmptySet
  <2>2. QED
    BY <1>1, <1>5, <2>1 DEF CollectedInv
<1>7. CancelledInv /\ RepliesFaithful
  BY <1>1 DEF CancelledInv, RepliesFaithful, Settled
<1>8. QED
  BY <1>1, <1>3, <1>4, <1>6, <1>7 DEF RepliesInv

LEMMA RepliesAlways == RepliesSpec => []RepliesInv
<1>1. RepliesInv /\ [RepliesNext]_repliesVars => RepliesInv'
  <2> SUFFICES ASSUME RepliesInv, [RepliesNext]_repliesVars PROVE RepliesInv'
    OBVIOUS
  <2>1. CASE UNCHANGED repliesVars
    <3>1. UNCHANGED <<query, call, backlog, given, paired, collected, replies, timer,
                      faulted>>
      BY <2>1 DEF repliesVars
    <3>2. ReplyLists' = ReplyLists /\ Item' = Item
      BY <3>1 DEF ReplyLists, Item
    <3>3. RepliesTypeOK' /\ RepliesShape' /\ CancelledInv'
      BY <3>1, <3>2
         DEF RepliesInv, RepliesTypeOK, RepliesShape, CancelledInv, Asked, Settled
    <3>4. (PairedInv => PairedInv') /\ (RepliesFaithful => RepliesFaithful')
      BY <3>1, DueIsDue DEF Settled
    <3>5. CollectedInv => CollectedInv'
      BY <3>1, DueIsDue DEF CollectedInv, Settled
    <3>6. QED
      BY <3>1, <3>3, <3>4, <3>5 DEF RepliesInv
  <2>2. QED
    BY <2>1, AskStep, ArrivesStep, EndsStep DEF RepliesNext
<1>2. QED
  BY <1>1, RepliesInitially, PTL DEF RepliesSpec

\* The first reply to a request is made of what the ledger has, for every
\* set of reassignments, every stream and every limit.
THEOREM RepliesTheorem == RepliesSpec => [](RepliesTypeOK /\ RepliesFaithful)
<1>1. RepliesInv => RepliesTypeOK /\ RepliesFaithful
  BY DEF RepliesInv
<1>2. QED
  BY <1>1, RepliesAlways, PTL

\* Both parts together: what the application's run checks.
THEOREM AnswersTheorem == RepliesSpec /\ PagesSpec => []AnswersFaithful
<1>1. RepliesFaithful /\ PagesPartition => AnswersFaithful
  BY DEF AnswersFaithful
<1>2. QED
  BY <1>1, RepliesTheorem, PagesTheorem, PTL

-----------------------------------------------------------------------------
(***************************************************************************)
(* The chain of contracts and the lifecycle of one contract                *)
(* (ContractHistory, ContractPanel).                                       *)
(***************************************************************************)

Elems(s) == {s[i] : i \in DOMAIN s}

LEMMA ListedElems == Listed = Elems(chain.updates) /\ Queue = Elems(chain.queue)
                     /\ Listed' = Elems(chain'.updates) /\ Queue' = Elems(chain'.queue)
BY DEF Listed, Queue, Elems

LEMMA ElemsTail ==
  ASSUME NEW S, NEW s \in Seq(S), s # <<>>
  PROVE  /\ Tail(s) \in Seq(S) /\ Head(s) \in S
         /\ Elems(s) = Elems(Tail(s)) \cup {Head(s)}
<1>1. /\ Len(s) \in Nat /\ DOMAIN s = 1..Len(s) /\ Len(s) # 0 /\ Head(s) = s[1]
  BY LenProperties, EmptySeq
<1>2. /\ Tail(s) \in Seq(S) /\ Head(s) \in S /\ Len(Tail(s)) = Len(s) - 1
      /\ \A i \in 1..Len(Tail(s)) : Tail(s)[i] = s[i + 1]
  BY HeadTailProperties
<1>3. DOMAIN Tail(s) = 1..(Len(s) - 1)
  BY <1>2, LenProperties
<1> DEFINE t == Tail(s)
           h == Head(s)
<1>4. /\ DOMAIN t = 1..(Len(s) - 1) /\ \A i \in 1..(Len(s) - 1) : t[i] = s[i + 1]
      /\ h = s[1]
  BY <1>1, <1>2, <1>3
<1> HIDE DEF t, h
<1>5. \A i \in DOMAIN s : s[i] \in Elems(t) \cup {h}
  <2> SUFFICES ASSUME NEW i \in DOMAIN s PROVE s[i] \in Elems(t) \cup {h}
    OBVIOUS
  <2>1. CASE i = 1
    BY <1>4, <2>1
  <2>2. CASE i # 1
    <3>1. i - 1 \in DOMAIN t /\ t[i - 1] = s[i]
      BY <1>1, <1>4, <2>2
    <3>2. QED
      BY <3>1 DEF Elems
  <2>3. QED
    BY <2>1, <2>2
<1>6. \A i \in DOMAIN t : t[i] \in Elems(s)
  <2> SUFFICES ASSUME NEW i \in DOMAIN t PROVE t[i] \in Elems(s)
    OBVIOUS
  <2>1. i + 1 \in DOMAIN s /\ t[i] = s[i + 1]
    BY <1>1, <1>4
  <2>2. QED
    BY <2>1 DEF Elems
<1>7. h \in Elems(s)
  BY <1>1, <1>4 DEF Elems
<1>8. Elems(s) = Elems(t) \cup {h}
  BY <1>5, <1>6, <1>7 DEF Elems
<1>9. QED
  BY <1>2, <1>8 DEF t, h

LEMMA ElemsConcat ==
  ASSUME NEW S, NEW s \in Seq(S), NEW t \in Seq(S)
  PROVE  s \o t \in Seq(S) /\ Elems(s \o t) = Elems(s) \cup Elems(t)
<1>1. /\ Len(s) \in Nat /\ Len(t) \in Nat /\ DOMAIN s = 1..Len(s) /\ DOMAIN t = 1..Len(t)
  BY LenProperties
<1> DEFINE c == s \o t
<1>2. /\ c \in Seq(S) /\ DOMAIN c = 1..(Len(s) + Len(t))
      /\ \A i \in 1..(Len(s) + Len(t)) :
           c[i] = IF i <= Len(s) THEN s[i] ELSE t[i - Len(s)]
  BY ConcatProperties, LenProperties
<1> HIDE DEF c
<1>3. \A i \in DOMAIN c : c[i] \in Elems(s) \cup Elems(t)
  <2> SUFFICES ASSUME NEW i \in DOMAIN c PROVE c[i] \in Elems(s) \cup Elems(t)
    OBVIOUS
  <2>1. CASE i <= Len(s)
    <3>1. i \in DOMAIN s /\ c[i] = s[i]
      BY <1>1, <1>2, <2>1
    <3>2. QED
      BY <3>1 DEF Elems
  <2>2. CASE ~(i <= Len(s))
    <3>1. i - Len(s) \in DOMAIN t /\ c[i] = t[i - Len(s)]
      BY <1>1, <1>2, <2>2
    <3>2. QED
      BY <3>1 DEF Elems
  <2>3. QED
    BY <2>1, <2>2
<1>4. \A i \in DOMAIN s : s[i] \in Elems(c)
  <2> SUFFICES ASSUME NEW i \in DOMAIN s PROVE s[i] \in Elems(c)
    OBVIOUS
  <2>1. i \in DOMAIN c /\ c[i] = s[i]
    BY <1>1, <1>2
  <2>2. QED
    BY <2>1 DEF Elems
<1>5. \A i \in DOMAIN t : t[i] \in Elems(c)
  <2> SUFFICES ASSUME NEW i \in DOMAIN t PROVE t[i] \in Elems(c)
    OBVIOUS
  <2>1. Len(s) + i \in DOMAIN c /\ c[Len(s) + i] = t[i]
    BY <1>1, <1>2
  <2>2. QED
    BY <2>1 DEF Elems
<1>6. Elems(c) = Elems(s) \cup Elems(t)
  BY <1>3, <1>4, <1>5 DEF Elems
<1>7. QED
  BY <1>2, <1>6 DEF c

LEMMA OrdersFacts ==
  ASSUME NEW S, IsFiniteSet(S), NEW q \in Orders(S)
  PROVE  /\ q \in Seq(S) /\ Len(q) = Cardinality(S) /\ Elems(q) = S
         /\ DOMAIN q = 1..Cardinality(S)
<1>1. Cardinality(S) \in Nat
  BY FS_CardinalityType
<1>2. q \in [1..Cardinality(S) -> S] /\ \A c \in S : \E i \in DOMAIN q : q[i] = c
  BY DEF Orders
<1>3. q \in Seq(S)
  BY <1>1, <1>2, SeqDef
<1>4. Len(q) = Cardinality(S)
  <2>1. Len(q) \in Nat /\ DOMAIN q = 1..Len(q) /\ DOMAIN q = 1..Cardinality(S)
    BY <1>2, <1>3, LenProperties
  <2>2. QED
    BY <1>1, <2>1
<1>5. Elems(q) = S
  BY <1>2 DEF Elems
<1>6. QED
  BY <1>2, <1>3, <1>4, <1>5

\* A list in which no element is twice is as long as the set of its elements.
LEMMA DistinctLength ==
  ASSUME NEW S, NEW s \in Seq(S), \A i, j \in DOMAIN s : i # j => s[i] # s[j]
  PROVE  IsFiniteSet(Elems(s)) /\ Cardinality(Elems(s)) = Len(s)
<1>1. Len(s) \in Nat /\ DOMAIN s = 1..Len(s) /\ s \in [1..Len(s) -> S]
  BY LenProperties
<1>2. IsFiniteSet(1..Len(s)) /\ Cardinality(1..Len(s)) = Len(s)
  <2>1. 1 \in Int /\ Len(s) \in Int
    BY <1>1
  <2>2. /\ IsFiniteSet(1..Len(s))
        /\ Cardinality(1..Len(s)) = IF 1 > Len(s) THEN 0 ELSE Len(s) - 1 + 1
    BY <2>1, FS_Interval
  <2>3. QED
    BY <1>1, <2>2
<1>3. s \in Bijection(1..Len(s), Elems(s))
  BY <1>1 DEF Bijection, Injection, Surjection, IsInjective, Elems
<1>4. QED
  BY <1>2, <1>3, FS_Bijection DEF ExistsBijection

-----------------------------------------------------------------------------
(***************************************************************************)
(* The chain.                                                              *)
(***************************************************************************)

LEMMA ReachedIs ==
  /\ \A c : c \in Reached <=> c = 1 \/ \E t \in Listed : c \in ledger[t].creates
  /\ \A c : c \in Reached' <=> c = 1 \/ \E t \in Listed' : c \in ledger'[t].creates
BY DEF Reached

\* What the invariant gives a step of the loop.
LEMMA ChainFacts ==
  ASSUME ChainInv
  PROVE  /\ Len(ledger) \in Nat /\ DOMAIN ledger = 1..Len(ledger)
         /\ Len(chain.updates) \in Nat /\ DOMAIN chain.updates = 1..Len(chain.updates)
         /\ Listed \subseteq DOMAIN ledger
         /\ \A t \in DOMAIN ledger : ledger[t] \in Tx
         /\ chain.began \in Nat /\ chain.began <= Len(ledger)
         /\ chain.max \in Nat
<1>1. ledger \in Seq(Tx) /\ chain.updates \in Seq(DOMAIN ledger)
  BY DEF ChainInv, LedgerInv, ChainShape
<1>2. /\ Len(ledger) \in Nat /\ DOMAIN ledger = 1..Len(ledger)
      /\ \A t \in DOMAIN ledger : ledger[t] \in Tx
  BY <1>1, LenProperties, ElementOfSeq
<1>3. /\ Len(chain.updates) \in Nat /\ DOMAIN chain.updates = 1..Len(chain.updates)
      /\ \A i \in DOMAIN chain.updates : chain.updates[i] \in DOMAIN ledger
  BY <1>1, LenProperties, ElementOfSeq
<1>4. Listed \subseteq DOMAIN ledger
  BY <1>3 DEF Listed
<1>5. chain.began \in Nat /\ chain.began <= Len(ledger) /\ chain.max \in Nat
  BY <1>2 DEF ChainInv, ChainShape
<1>6. QED
  BY <1>2, <1>3, <1>4, <1>5

\* The steps of the request do not write the ledger.
LEMMA HistoryRests ==
  ASSUME UNCHANGED ledger
  PROVE  LedgerInv <=> LedgerInv'
BY DEF LedgerInv, Exercised

LEMMA ChainAskStep ==
  ASSUME ChainInv, ChainAsk
  PROVE  ChainInv'
<1>1. PICK max \in 1..MaxTxs, named \in BOOLEAN :
        chain' = [chain EXCEPT !.step = "looking", !.max = max, !.named = named,
                               !.queue = <<1>>, !.began = Len(ledger)]
  BY DEF ChainAsk
<1>2. UNCHANGED ledger /\ chain.step = "idle"
  BY DEF ChainAsk
<1>3. chain' = [step |-> "looking", max |-> max, named |-> named, queue |-> <<1>>,
               visited |-> {}, fetching |-> chain.fetching, updates |-> <<>>,
               flows |-> chain.flows, began |-> Len(ledger)]
  BY <1>1, <1>2 DEF ChainInv, ChainShape
<1>4. Len(ledger) \in Nat /\ max \in Nat
  BY ChainFacts, ChainConstantsOK
<1>5. <<1>> \in Seq(Contracts) /\ <<>> \in Seq(DOMAIN ledger) /\ Len(<<>>) = 0
      /\ DOMAIN <<1>> = {1} /\ <<1>>[1] = 1 /\ DOMAIN <<>> = {}
  BY ChainConstantsOK
<1>6. ChainShape'
  BY <1>2, <1>3, <1>4, <1>5 DEF ChainShape
<1>7. Listed' = {} /\ Queue' = {1}
  BY <1>3, <1>5 DEF Listed, Queue
<1>8. Reached' = {1}
  BY <1>7, ReachedIs
<1>9. ChainLoop'
  BY <1>3, <1>4, <1>5, <1>7, <1>8 DEF ChainLoop
<1>10. ChainFollowed'
  BY <1>3 DEF ChainFollowed
<1>11. QED
  BY <1>2, <1>6, <1>9, <1>10, HistoryRests DEF ChainInv

LEMMA SkipStep ==
  ASSUME ChainInv, Skip
  PROVE  ChainInv'
<1> DEFINE rest == Tail(chain.queue)
<1>1. /\ UNCHANGED ledger /\ chain.step = "looking" /\ chain.queue # <<>>
      /\ Head(chain.queue) \in chain.visited
      /\ chain' = [chain EXCEPT !.queue = rest]
  BY DEF Skip, Looking, Contract
<1>2. /\ rest \in Seq(Contracts)
      /\ Elems(chain.queue) = Elems(rest) \cup {Head(chain.queue)}
  BY <1>1, ElemsTail DEF ChainInv, ChainShape
<1> HIDE DEF rest
<1>3. chain' = [step |-> "looking", max |-> chain.max, named |-> chain.named,
               queue |-> rest, visited |-> chain.visited, fetching |-> chain.fetching,
               updates |-> chain.updates, flows |-> chain.flows, began |-> chain.began]
  BY <1>1 DEF ChainInv, ChainShape
<1>4. ChainShape'
  BY <1>1, <1>2, <1>3 DEF ChainInv, ChainShape
<1>5. Listed' = Listed /\ Queue' \cup chain'.visited = Queue \cup chain.visited
  BY <1>1, <1>2, <1>3, ListedElems
<1>6. Reached' = Reached
  BY <1>1, <1>5, ReachedIs
<1>7. ChainLoop
  BY <1>1 DEF ChainInv
<1>8. ChainLoop'
  BY <1>1, <1>3, <1>5, <1>6, <1>7 DEF ChainLoop
<1>9. ChainFollowed'
  BY <1>3 DEF ChainFollowed
<1>10. QED
  BY <1>1, <1>4, <1>8, <1>9, HistoryRests DEF ChainInv

LEMMA ArchiverFacts ==
  ASSUME NEW c
  PROVE  /\ c \in Archived => /\ Archiver(c) \in DOMAIN ledger
                              /\ c \in ledger[Archiver(c)].consumes
         /\ c \notin Archived => Archiver(c) = 0
         /\ c \in Archived <=> \E t \in DOMAIN ledger : c \in ledger[t].consumes
BY DEF Archived, Archiver

LEMMA LookStep ==
  ASSUME ChainInv, Look
  PROVE  ChainInv'
<1> DEFINE rest == Tail(chain.queue)
           c == Head(chain.queue)
           t == IF chain.named THEN Archiver(c) ELSE 0
           step == IF t = 0 THEN "looking" ELSE "fetching"
           visited == chain.visited \cup {c}
<1>1. /\ UNCHANGED ledger /\ chain.step = "looking" /\ chain.queue # <<>>
      /\ Len(chain.updates) < chain.max
      /\ chain' = [chain EXCEPT !.queue = rest, !.visited = visited, !.fetching = t,
                                !.step = step]
  BY DEF Look, Looking, Contract
<1>2. /\ rest \in Seq(Contracts) /\ c \in Contracts
      /\ Elems(chain.queue) = Elems(rest) \cup {c}
  BY <1>1, ElemsTail DEF ChainInv, ChainShape
<1>3. t # 0 => chain.named /\ t \in DOMAIN ledger /\ c \in ledger[t].consumes
  BY ArchiverFacts
<1>4. \A u \in DOMAIN ledger : chain.named /\ c \in ledger[u].consumes => t = u
  <2> SUFFICES ASSUME NEW u \in DOMAIN ledger, chain.named, c \in ledger[u].consumes
               PROVE  t = u
    OBVIOUS
  <2>1. t \in DOMAIN ledger /\ c \in ledger[t].consumes
    BY ArchiverFacts
  <2> HIDE DEF t, c
  <2>2. QED
    BY <2>1 DEF ChainInv, LedgerInv
<1>5. step \in {"looking", "fetching"} /\ (step = "fetching" <=> t # 0)
  OBVIOUS
<1>6. visited = chain.visited \cup {c}
  OBVIOUS
<1> HIDE DEF rest, c, t, step, visited
<1>7. chain' = [step |-> step, max |-> chain.max, named |-> chain.named,
               queue |-> rest, visited |-> visited, fetching |-> t,
               updates |-> chain.updates, flows |-> chain.flows, began |-> chain.began]
  BY <1>1 DEF ChainInv, ChainShape
<1>8. ChainShape'
  BY <1>1, <1>2, <1>5, <1>7 DEF ChainInv, ChainShape
<1>9. Listed' = Listed /\ Queue' \cup visited = Queue \cup chain.visited
  BY <1>1, <1>2, <1>6, <1>7, ListedElems
<1>10. Reached' = Reached
  BY <1>1, <1>9, ReachedIs
<1>11. ChainLoop
  BY <1>1 DEF ChainInv
<1>12. 0 \notin DOMAIN ledger
  BY ChainFacts
<1>13. chain.named => \A u \in 1..chain.began :
         ledger[u].consumes \cap visited # {} => u \in Listed \/ t = u
  <2> SUFFICES ASSUME chain.named, NEW u \in 1..chain.began,
                      ledger[u].consumes \cap visited # {}
               PROVE  u \in Listed \/ t = u
    OBVIOUS
  <2>1. u \in DOMAIN ledger
    BY ChainFacts
  <2>2. CASE c \in ledger[u].consumes
    BY <1>4, <2>1, <2>2
  <2>3. CASE c \notin ledger[u].consumes
    <3>1. ledger[u].consumes \cap chain.visited # {}
      BY <1>6, <2>3
    <3>2. QED
      BY <1>1, <1>11, <3>1 DEF ChainLoop
  <2>4. QED
    BY <2>2, <2>3
<1>14. ChainLoop'
  <2>1. /\ \A i, j \in DOMAIN chain.updates : i # j => chain.updates[i] # chain.updates[j]
        /\ Len(chain.updates) <= chain.max
        /\ Queue' \cup visited = Reached'
        /\ \A u \in Listed : ledger[u].consumes \cap visited # {}
    BY <1>6, <1>9, <1>10, <1>11 DEF ChainLoop
  <2>2. step = "fetching" => /\ t \in DOMAIN ledger
                            /\ ledger[t].consumes \cap visited # {}
    BY <1>3, <1>5, <1>6
  <2>3. chain.named => \A u \in 1..chain.began :
          ledger[u].consumes \cap visited # {} =>
            u \in Listed \/ (step = "fetching" /\ u = t)
    <3>1. 1..chain.began \subseteq DOMAIN ledger
      BY ChainFacts
    <3>2. QED
      BY <1>5, <1>12, <1>13, <3>1
  <2>4. QED
    BY <1>1, <1>7, <1>9, <2>1, <2>2, <2>3 DEF ChainLoop
<1>15. ChainFollowed'
  BY <1>5, <1>7 DEF ChainFollowed
<1>16. QED
  BY <1>1, <1>8, <1>14, <1>15, HistoryRests DEF ChainInv

LEMMA AddFacts ==
  ASSUME NEW S, NEW updates \in Seq(S), NEW t \in S,
         \A i, j \in DOMAIN updates : i # j => updates[i] # updates[j]
  PROVE  LET more == Add(updates, t)
         IN /\ more \in Seq(S) /\ Elems(more) = Elems(updates) \cup {t}
            /\ Len(more) <= Len(updates) + 1
            /\ \A i, j \in DOMAIN more : i # j => more[i] # more[j]
<1> DEFINE more == Add(updates, t)
<1>1. Len(updates) \in Nat /\ DOMAIN updates = 1..Len(updates)
  BY LenProperties
<1>2. CASE \E i \in DOMAIN updates : updates[i] = t
  <2>1. more = updates
    BY <1>2 DEF Add
  <2>2. t \in Elems(updates)
    BY <1>2 DEF Elems
  <2> HIDE DEF more
  <2>3. more \in Seq(S) /\ Elems(more) = Elems(updates) \cup {t}
        /\ Len(more) <= Len(updates) + 1
        /\ \A i, j \in DOMAIN more : i # j => more[i] # more[j]
    BY <1>1, <2>1, <2>2
  <2>4. QED
    BY <2>3 DEF more
<1>3. CASE ~\E i \in DOMAIN updates : updates[i] = t
  <2>1. more = Append(updates, t)
    BY <1>3 DEF Add
  <2> HIDE DEF more
  <2>2. /\ more \in Seq(S) /\ Len(more) = Len(updates) + 1
        /\ \A i \in 1..Len(updates) : more[i] = updates[i]
        /\ more[Len(updates) + 1] = t
    BY <2>1, AppendProperties
  <2>3. DOMAIN more = 1..(Len(updates) + 1)
    BY <2>2, LenProperties
  <2>4. \A i \in DOMAIN more : (i \in DOMAIN updates /\ more[i] = updates[i])
                               \/ (i = Len(updates) + 1 /\ more[i] = t)
    BY <1>1, <2>2, <2>3
  <2>5. \A i, j \in DOMAIN more : i # j => more[i] # more[j]
    <3> SUFFICES ASSUME NEW i \in DOMAIN more, NEW j \in DOMAIN more, i # j
                 PROVE  more[i] # more[j]
      OBVIOUS
    <3>1. QED
      BY <1>3, <2>4
  <2>6. \A i \in DOMAIN updates : updates[i] \in Elems(more)
    <3> SUFFICES ASSUME NEW i \in DOMAIN updates PROVE updates[i] \in Elems(more)
      OBVIOUS
    <3>1. i \in DOMAIN more /\ more[i] = updates[i]
      BY <1>1, <2>2, <2>3
    <3>2. QED
      BY <3>1 DEF Elems
  <2>7. t \in Elems(more)
    <3>1. Len(updates) + 1 \in DOMAIN more
      BY <1>1, <2>3
    <3>2. QED
      BY <2>2, <3>1 DEF Elems
  <2>8. Elems(more) = Elems(updates) \cup {t}
    <3>1. \A i \in DOMAIN more : more[i] \in Elems(updates) \cup {t}
      BY <2>4 DEF Elems
    <3>2. QED
      BY <2>6, <2>7, <3>1 DEF Elems
  <2>9. Len(more) <= Len(updates) + 1
    BY <1>1, <2>2
  <2>10. QED
    BY <2>2, <2>5, <2>8, <2>9 DEF more
<1>4. QED
  BY <1>2, <1>3

LEMMA FetchStep ==
  ASSUME ChainInv, Fetch
  PROVE  ChainInv'
<1> DEFINE t == chain.fetching
           updates == Add(chain.updates, t)
<1>1. chain.step = "fetching" /\ UNCHANGED ledger /\ ChainLoop
  BY DEF Fetch, ChainInv
<1>2. PICK children \in Orders(ledger[t].creates) :
        chain' = [chain EXCEPT !.step = "looking", !.fetching = 0,
                               !.updates = updates,
                               !.queue = chain.queue \o children]
  BY DEF Fetch
<1> DEFINE queue == chain.queue \o children
<1>3. /\ t \in DOMAIN ledger /\ Len(chain.updates) < chain.max
      /\ ledger[t].consumes \cap chain.visited # {}
  BY <1>1 DEF ChainLoop
<1>4. ledger[t].creates \subseteq Contracts /\ IsFiniteSet(ledger[t].creates)
  <2>1. ledger[t] \in Tx
    BY <1>3, ChainFacts
  <2>2. ledger[t].creates \in SUBSET Contracts
    BY <2>1 DEF Tx
  <2>3. QED
    BY <2>2, FS_Subset, ChainConstantsOK
<1>5. /\ children \in Seq(ledger[t].creates) /\ Elems(children) = ledger[t].creates
  BY <1>4, OrdersFacts
<1>6. children \in Seq(Contracts) /\ chain.queue \in Seq(Contracts)
  BY <1>4, <1>5, SeqMonotonic DEF ChainInv, ChainShape
<1>7. queue \in Seq(Contracts)
      /\ Elems(queue) = Elems(chain.queue) \cup ledger[t].creates
  BY <1>5, <1>6, ElemsConcat
<1>8. /\ updates \in Seq(DOMAIN ledger) /\ Elems(updates) = Elems(chain.updates) \cup {t}
      /\ Len(updates) <= Len(chain.updates) + 1
      /\ \A i, j \in DOMAIN updates : i # j => updates[i] # updates[j]
  BY <1>1, <1>3, AddFacts DEF ChainInv, ChainShape, ChainLoop
<1>9. Len(updates) \in Nat /\ Len(chain.updates) \in Nat /\ chain.max \in Nat
  BY <1>8, LenProperties, ChainFacts
<1>10. t = chain.fetching
  OBVIOUS
<1> HIDE DEF t, updates, queue
<1>11. chain' = [step |-> "looking", max |-> chain.max, named |-> chain.named,
                queue |-> queue, visited |-> chain.visited, fetching |-> 0,
                updates |-> updates, flows |-> chain.flows, began |-> chain.began]
  <2>1. chain' = [chain EXCEPT !.step = "looking", !.fetching = 0,
                               !.updates = updates, !.queue = queue]
    BY <1>2 DEF queue
  <2>2. QED
    BY <2>1 DEF ChainInv, ChainShape
<1>12. ChainShape'
  BY <1>1, <1>7, <1>8, <1>11 DEF ChainInv, ChainShape
<1>13. Listed' = Listed \cup {t} /\ Queue' = Queue \cup ledger[t].creates
  BY <1>7, <1>8, <1>11, ListedElems
<1>14. \A c : c \in Reached' <=> c \in Reached \/ c \in ledger[t].creates
  BY <1>1, <1>13, ReachedIs
<1>15. Queue' \cup chain.visited = Reached'
  <2>1. Queue \cup chain.visited = Reached
    BY <1>1 DEF ChainLoop
  <2>2. QED
    BY <1>13, <1>14, <2>1
<1>16. ChainLoop'
  <2>1. \A u \in Listed' : ledger[u].consumes \cap chain.visited # {}
    BY <1>1, <1>3, <1>13 DEF ChainLoop
  <2>2. chain.named => \A u \in 1..chain.began :
          ledger[u].consumes \cap chain.visited # {} => u \in Listed'
    BY <1>1, <1>10, <1>13 DEF ChainLoop
  <2>3. Len(updates) <= chain.max
    BY <1>3, <1>8, <1>9
  <2>4. QED
    BY <1>1, <1>8, <1>11, <1>15, <2>1, <2>2, <2>3 DEF ChainLoop
<1>17. ChainFollowed'
  BY <1>11 DEF ChainFollowed
<1>18. QED
  BY <1>1, <1>12, <1>16, <1>17, HistoryRests DEF ChainInv

LEMMA ChainFailsStep ==
  ASSUME ChainInv, ChainFails
  PROVE  ChainInv'
<1>1. chain' = [step |-> "failed", max |-> chain.max, named |-> chain.named,
               queue |-> <<>>, visited |-> {}, fetching |-> 0,
               updates |-> <<>>, flows |-> chain.flows, began |-> chain.began]
      /\ UNCHANGED ledger
  BY DEF ChainFails, ChainInv, ChainShape
<1>2. ChainShape'
  BY <1>1 DEF ChainInv, ChainShape
<1>3. ChainFollowed'
  BY <1>1 DEF ChainFollowed
<1>4. QED
  BY <1>1, <1>2, <1>3, HistoryRests DEF ChainInv

\* A contract is listed as created before it is listed as used.
LEMMA LinksForward ==
  ASSUME ChainInv, NEW f \in Links
  PROVE  f.from < f.to
<1>1. /\ f.from \in DOMAIN ledger /\ f.to \in DOMAIN ledger /\ f.from # f.to
      /\ f.contract \in ledger[f.from].creates /\ f.contract \in Exercised(f.to)
  BY ChainFacts DEF Links
<1>2. f.contract # 1
  BY <1>1 DEF ChainInv, LedgerInv
<1>3. PICK u \in 1..f.to : f.contract \in ledger[u].creates
  BY <1>1, <1>2 DEF ChainInv, LedgerInv
<1>4. f.from \in Nat /\ f.to \in Nat /\ u \in DOMAIN ledger
  BY <1>1, <1>3, ChainFacts
<1>5. u = f.from
  BY <1>1, <1>3, <1>4 DEF ChainInv, LedgerInv
<1>6. QED
  BY <1>1, <1>3, <1>4, <1>5

LEMMA FinishStep ==
  ASSUME ChainInv, Finish
  PROVE  ChainInv'
<1>1. /\ chain.step = "looking" /\ UNCHANGED ledger /\ ChainLoop
      /\ chain.queue = <<>> \/ ~(Len(chain.updates) < chain.max)
  BY DEF Finish, Looking, ChainInv
<1>2. PICK p \in Orders(DOMAIN chain.updates) :
        chain' = [chain EXCEPT !.step = "replied", !.flows = Links,
                    !.updates = [i \in DOMAIN p |-> chain.updates[p[i]]]]
  BY DEF Finish
<1> DEFINE sorted == [i \in DOMAIN p |-> chain.updates[p[i]]]
           n == Len(chain.updates)
<1>3. n \in Nat /\ DOMAIN chain.updates = 1..n /\ chain.updates \in Seq(DOMAIN ledger)
      /\ \A i \in 1..n : chain.updates[i] \in DOMAIN ledger
  <2>1. chain.updates \in Seq(DOMAIN ledger)
    BY DEF ChainInv, ChainShape
  <2>2. QED
    BY <2>1, ChainFacts, ElementOfSeq
<1>4. IsFiniteSet(1..n) /\ Cardinality(1..n) = n
  <2>1. 1 \in Int /\ n \in Int
    BY <1>3
  <2>2. IsFiniteSet(1..n) /\ Cardinality(1..n) = IF 1 > n THEN 0 ELSE n - 1 + 1
    BY <2>1, FS_Interval
  <2>3. QED
    BY <1>3, <2>2
<1>5. DOMAIN p = 1..n /\ Elems(p) = 1..n
  BY <1>3, <1>4, OrdersFacts
<1>6. \A i \in 1..n : p[i] \in 1..n
  BY <1>5 DEF Elems
<1>7. sorted \in [1..n -> DOMAIN ledger]
  BY <1>3, <1>5, <1>6
<1>8. sorted \in Seq(DOMAIN ledger) /\ Len(sorted) = n
  <2>1. sorted \in Seq(DOMAIN ledger)
    BY <1>3, <1>7, SeqDef
  <2>2. Len(sorted) \in Nat /\ DOMAIN sorted = 1..Len(sorted) /\ DOMAIN sorted = 1..n
    BY <1>5, <2>1, LenProperties
  <2> HIDE DEF sorted
  <2>3. QED
    BY <1>3, <2>1, <2>2
<1>9. Elems(sorted) = Elems(chain.updates)
  <2>1. \A i \in DOMAIN sorted : sorted[i] \in Elems(chain.updates)
    BY <1>3, <1>5, <1>6 DEF Elems
  <2>2. \A j \in DOMAIN chain.updates : chain.updates[j] \in Elems(sorted)
    <3> SUFFICES ASSUME NEW j \in DOMAIN chain.updates
                 PROVE  chain.updates[j] \in Elems(sorted)
      OBVIOUS
    <3>1. PICK i \in DOMAIN p : p[i] = j
      BY <1>3, <1>5 DEF Elems
    <3>2. i \in DOMAIN sorted /\ sorted[i] = chain.updates[j]
      BY <3>1
    <3> HIDE DEF sorted
    <3>3. QED
      BY <3>2 DEF Elems
  <2> HIDE DEF sorted
  <2>3. QED
    BY <2>1, <2>2 DEF Elems
<1> HIDE DEF sorted
<1>10. chain' = [step |-> "replied", max |-> chain.max, named |-> chain.named,
                queue |-> chain.queue, visited |-> chain.visited,
                fetching |-> chain.fetching, updates |-> sorted, flows |-> Links,
                began |-> chain.began]
  <2>1. chain' = [chain EXCEPT !.step = "replied", !.flows = Links, !.updates = sorted]
    BY <1>2 DEF sorted
  <2>2. QED
    BY <2>1 DEF ChainInv, ChainShape
<1>11. ChainShape'
  BY <1>1, <1>8, <1>10 DEF ChainInv, ChainShape
<1>12. Listed' = Listed
  BY <1>9, <1>10, ListedElems
<1>13. Reached' = Reached
  BY <1>1, <1>12, ReachedIs
<1>14. Cardinality(Listed) = n
  BY <1>1, <1>3, DistinctLength, ListedElems DEF ChainLoop
<1>15. \A t \in Listed : ledger[t].consumes \cap Reached # {}
  BY <1>1 DEF ChainLoop
<1>16. chain.named /\ n < chain.max =>
         \A t \in 1..chain.began : ledger[t].consumes \cap Reached # {} => t \in Listed
  <2> SUFFICES ASSUME chain.named, n < chain.max, NEW t \in 1..chain.began,
                      ledger[t].consumes \cap Reached # {}
               PROVE  t \in Listed
    OBVIOUS
  <2>1. Queue = {}
    BY <1>1 DEF Queue
  <2>2. chain.visited = Reached
    BY <1>1, <2>1 DEF ChainLoop
  <2>3. QED
    BY <1>1, <2>2 DEF ChainLoop
<1>17. \A t, u \in Listed : t # u =>
         \A c \in ledger[t].creates \cap ledger[u].consumes :
           [from |-> t, to |-> u, contract |-> c] \in Links
  <2> SUFFICES ASSUME NEW t \in Listed, NEW u \in Listed, t # u,
                      NEW c \in ledger[t].creates \cap ledger[u].consumes
               PROVE  [from |-> t, to |-> u, contract |-> c] \in Links
    OBVIOUS
  <2>1. ledger[t] \in Tx
    BY ChainFacts
  <2>2. c \in Contracts
    BY <2>1 DEF Tx
  <2>3. QED
    BY <2>2 DEF Links, Exercised
<1>18. ChainFollowed'
  <2>1. \A f \in Links : f.from < f.to
    BY LinksForward
  <2>2. n <= chain.max
    BY <1>1 DEF ChainLoop
  <2>3. QED
    BY <1>1, <1>8, <1>10, <1>12, <1>13, <1>14, <1>15, <1>16, <1>17, <2>1, <2>2
       DEF ChainFollowed
<1>19. QED
  BY <1>1, <1>10, <1>11, <1>18, HistoryRests DEF ChainInv

\* What was on the ledger stays there.
LEMMA LedgerGrows ==
  ASSUME ledger \in Seq(Tx), Transact
  PROVE  /\ ledger' \in Seq(Tx) /\ Len(ledger') = Len(ledger) + 1 /\ Len(ledger) \in Nat
         /\ DOMAIN ledger = 1..Len(ledger) /\ DOMAIN ledger' = 1..(Len(ledger) + 1)
         /\ \A t \in DOMAIN ledger : t \in DOMAIN ledger' /\ ledger'[t] = ledger[t]
         /\ \A c \in Archived : c \in Archived'
<1>1. PICK tx \in Tx : ledger' = Append(ledger, tx)
  <2>1. PICK creates \in SUBSET (Contracts \ Created) :
          LET there == (Created \cup creates) \ Archived
          IN \E consumes \in SUBSET there, uses \in SUBSET there :
               ledger' = Append(ledger, [consumes |-> consumes, uses |-> uses,
                                         creates |-> creates])
    BY DEF Transact
  <2>2. PICK consumes \in SUBSET ((Created \cup creates) \ Archived),
             uses \in SUBSET ((Created \cup creates) \ Archived) :
          ledger' = Append(ledger, [consumes |-> consumes, uses |-> uses,
                                    creates |-> creates])
    BY <2>1
  <2>3. Created \subseteq Contracts
    <3>1. \A t \in DOMAIN ledger : ledger[t] \in Tx
      BY LenProperties, ElementOfSeq
    <3>2. QED
      BY <3>1, ChainConstantsOK DEF Created, Tx
  <2>4. QED
    BY <2>2, <2>3 DEF Tx
<1>2. /\ ledger' \in Seq(Tx) /\ Len(ledger') = Len(ledger) + 1
      /\ \A t \in 1..Len(ledger) : ledger'[t] = ledger[t]
  BY <1>1, AppendProperties
<1>3. /\ Len(ledger) \in Nat /\ DOMAIN ledger = 1..Len(ledger)
      /\ DOMAIN ledger' = 1..Len(ledger')
  BY <1>2, LenProperties
<1>4. \A t \in DOMAIN ledger : t \in DOMAIN ledger' /\ ledger'[t] = ledger[t]
  BY <1>2, <1>3
<1>5. \A c \in Archived : c \in Archived'
  BY <1>4 DEF Archived
<1>6. QED
  BY <1>2, <1>3, <1>4, <1>5

LEMMA TransactLedger ==
  ASSUME LedgerInv, Transact
  PROVE  LedgerInv'
<1> DEFINE n == Len(ledger)
<1>1. PICK creates \in SUBSET (Contracts \ Created) :
        \E consumes \in SUBSET ((Created \cup creates) \ Archived),
           uses \in SUBSET ((Created \cup creates) \ Archived) :
          ledger' = Append(ledger, [consumes |-> consumes, uses |-> uses,
                                    creates |-> creates])
  BY DEF Transact
<1>2. PICK consumes \in SUBSET ((Created \cup creates) \ Archived),
           uses \in SUBSET ((Created \cup creates) \ Archived) :
        ledger' = Append(ledger, [consumes |-> consumes, uses |-> uses,
                                  creates |-> creates])
  BY <1>1
<1>3. /\ ledger' \in Seq(Tx) /\ n \in Nat
      /\ DOMAIN ledger = 1..n /\ DOMAIN ledger' = 1..(n + 1)
      /\ \A t \in DOMAIN ledger : t \in DOMAIN ledger' /\ ledger'[t] = ledger[t]
  BY LedgerGrows DEF LedgerInv
<1>4. /\ ledger'[n + 1].creates = creates /\ ledger'[n + 1].consumes = consumes
      /\ ledger'[n + 1].uses = uses
  <2>1. ledger'[Len(ledger) + 1] = [consumes |-> consumes, uses |-> uses, creates |-> creates]
    <3> DEFINE tx == [consumes |-> consumes, uses |-> uses, creates |-> creates]
    <3>1. ledger' = Append(ledger, tx) /\ ledger \in Seq(Tx)
      BY <1>2 DEF LedgerInv
    <3> HIDE DEF tx
    <3>2. Append(ledger, tx)[Len(ledger) + 1] = tx
      BY <3>1
    <3>3. QED
      BY <3>1, <3>2 DEF tx
  <2>2. QED
    BY <2>1
<1> HIDE DEF n
<1>5. \A t \in DOMAIN ledger' : t \in DOMAIN ledger \/ t = n + 1
  BY <1>3
<1>6. /\ 1 \notin creates
      /\ \A t \in DOMAIN ledger : creates \cap ledger[t].creates = {}
      /\ \A t \in DOMAIN ledger : consumes \cap ledger[t].consumes = {}
      /\ \A c \in consumes \cup uses :
           c = 1 \/ c \in creates \/ \E u \in DOMAIN ledger : c \in ledger[u].creates
  <2>1. /\ \A c : c \in Created <=> c = 1 \/ \E u \in DOMAIN ledger : c \in ledger[u].creates
        /\ \A c : c \in Archived <=> \E u \in DOMAIN ledger : c \in ledger[u].consumes
    BY DEF Created, Archived
  <2>2. /\ \A c \in creates : c \notin Created
        /\ \A c \in consumes \cup uses : (c \in Created \/ c \in creates) /\ c \notin Archived
    OBVIOUS
  <2>3. QED
    BY <2>1, <2>2
<1>7. \A t \in DOMAIN ledger' : 1 \notin ledger'[t].creates
  BY <1>3, <1>4, <1>5, <1>6 DEF LedgerInv
<1>8. \A t, u \in DOMAIN ledger' : t # u =>
        /\ ledger'[t].creates \cap ledger'[u].creates = {}
        /\ ledger'[t].consumes \cap ledger'[u].consumes = {}
  <2> SUFFICES ASSUME NEW t \in DOMAIN ledger', NEW u \in DOMAIN ledger', t # u
               PROVE  /\ ledger'[t].creates \cap ledger'[u].creates = {}
                      /\ ledger'[t].consumes \cap ledger'[u].consumes = {}
    OBVIOUS
  <2>1. CASE t \in DOMAIN ledger /\ u \in DOMAIN ledger
    BY <1>3, <2>1 DEF LedgerInv
  <2>2. CASE t \in DOMAIN ledger /\ u = n + 1
    BY <1>3, <1>4, <1>6, <2>2
  <2>3. CASE t = n + 1 /\ u \in DOMAIN ledger
    BY <1>3, <1>4, <1>6, <2>3
  <2>4. QED
    BY <1>5, <2>1, <2>2, <2>3
<1>9. \A t \in DOMAIN ledger' : \A c \in ledger'[t].consumes \cup ledger'[t].uses :
        c = 1 \/ \E u \in 1..t : c \in ledger'[u].creates
  <2> SUFFICES ASSUME NEW t \in DOMAIN ledger',
                      NEW c \in ledger'[t].consumes \cup ledger'[t].uses, c # 1
               PROVE  \E u \in 1..t : c \in ledger'[u].creates
    OBVIOUS
  <2>1. CASE t \in DOMAIN ledger
    <3>1. PICK u \in 1..t : c \in ledger[u].creates
      BY <1>3, <2>1 DEF LedgerInv, Exercised
    <3>2. u \in DOMAIN ledger
      BY <1>3, <2>1
    <3>3. QED
      BY <1>3, <3>1, <3>2
  <2>2. CASE t = n + 1
    <3>1. CASE c \in creates
      <4>1. n + 1 \in 1..t
        BY <1>3, <2>2
      <4>2. QED
        BY <1>4, <3>1, <4>1
    <3>2. CASE c \notin creates
      <4>1. PICK u \in DOMAIN ledger : c \in ledger[u].creates
        BY <1>4, <1>6, <2>2, <3>2
      <4>2. u \in 1..t
        BY <1>3, <2>2
      <4>3. QED
        BY <1>3, <4>1, <4>2
    <3>3. QED
      BY <3>1, <3>2
  <2>3. QED
    BY <1>5, <2>1, <2>2
<1>10. QED
  BY <1>3, <1>7, <1>8, <1>9 DEF LedgerInv, Exercised

LEMMA TransactStep ==
  ASSUME ChainInv, Transact
  PROVE  ChainInv'
<1>1. UNCHANGED chain /\ chain.step \notin {"replied", "failed"}
  BY DEF Transact
<1>2. /\ ledger' \in Seq(Tx) /\ Len(ledger') = Len(ledger) + 1 /\ Len(ledger) \in Nat
      /\ DOMAIN ledger = 1..Len(ledger)
      /\ \A t \in DOMAIN ledger : t \in DOMAIN ledger' /\ ledger'[t] = ledger[t]
  BY LedgerGrows DEF ChainInv, LedgerInv
<1>3. LedgerInv'
  BY TransactLedger DEF ChainInv
<1>4. ChainShape'
  <2>1. chain.updates \in Seq(DOMAIN ledger')
    <3>1. DOMAIN ledger \subseteq DOMAIN ledger' /\ chain.updates \in Seq(DOMAIN ledger)
      BY <1>2 DEF ChainInv, ChainShape
    <3>2. QED
      BY <3>1, SeqMonotonic
  <2>2. chain.began \in 0..Len(ledger')
    BY <1>2 DEF ChainInv, ChainShape
  <2>3. QED
    BY <1>1, <2>1, <2>2 DEF ChainInv, ChainShape
<1>5. Listed' = Listed /\ Queue' = Queue /\ Listed \subseteq DOMAIN ledger
  BY <1>1, ChainFacts DEF Listed, Queue
<1>6. Reached' = Reached
  BY <1>2, <1>5, ReachedIs
<1>7. ChainLoop => ChainLoop'
  <2>1. 1..chain.began \subseteq DOMAIN ledger
    BY ChainFacts
  <2>2. QED
    BY <1>1, <1>2, <1>5, <1>6, <2>1 DEF ChainLoop
<1>8. ChainFollowed'
  BY <1>1 DEF ChainFollowed
<1>9. QED
  BY <1>1, <1>3, <1>4, <1>7, <1>8 DEF ChainInv

LEMMA ChainStepKeeps ==
  ASSUME ChainInv, ChainStep
  PROVE  ChainInv'
BY SkipStep, LookStep, FetchStep, ChainFailsStep, FinishStep DEF ChainStep

LEMMA ChainInitially == ChainInit => ChainInv
<1> SUFFICES ASSUME ChainInit PROVE ChainInv
  OBVIOUS
<1>1. /\ ledger = <<>>
      /\ chain = [step |-> "idle", max |-> 1, named |-> TRUE, queue |-> <<>>,
                  visited |-> {}, fetching |-> 0, updates |-> <<>>, flows |-> {},
                  began |-> 0]
  BY DEF ChainInit
<1>2. ledger \in Seq(Tx) /\ DOMAIN ledger = {} /\ Len(ledger) = 0
      /\ <<>> \in Seq(Contracts) /\ <<>> \in Seq(DOMAIN ledger)
  BY <1>1
<1>3. LedgerInv
  BY <1>2 DEF LedgerInv
<1>4. ChainShape
  BY <1>1, <1>2 DEF ChainShape
<1>5. QED
  BY <1>1, <1>3, <1>4 DEF ChainInv, ChainFollowed

-----------------------------------------------------------------------------
(***************************************************************************)
(* The lifecycle.                                                          *)
(***************************************************************************)

LEMMA LifeAskStep ==
  ASSUME ChainInv, LifeInv, HistoryAsk, UNCHANGED chainVars
  PROVE  LifeInv'
<1>1. UNCHANGED ledger /\ life.step = "idle"
  BY DEF chainVars, HistoryAsk
<1>2. PICK c \in Contracts, named \in BOOLEAN :
        life' = [life EXCEPT !.step = "looking", !.contract = c, !.named = named,
                             !.began = Len(ledger)]
  BY DEF HistoryAsk
<1>3. life' = [step |-> "looking", contract |-> c, named |-> named,
              creation |-> 0, archived |-> life.archived, archival |-> 0,
              exercised |-> life.exercised, broke |-> life.broke, began |-> Len(ledger)]
  BY <1>1, <1>2 DEF LifeInv
<1>4. Len(ledger) \in Nat
  BY ChainFacts
<1>5. QED
  BY <1>1, <1>3, <1>4 DEF LifeInv, LifecycleFollowed

LEMMA LifeStepKeeps ==
  ASSUME ChainInv, LifeInv, LifeStep, UNCHANGED chainVars
  PROVE  LifeInv'
<1>1. UNCHANGED ledger /\ Archived' = Archived
  BY DEF chainVars, Archived
<1>2. life = [step |-> life.step, contract |-> life.contract, named |-> life.named,
             creation |-> life.creation, archived |-> life.archived,
             archival |-> life.archival, exercised |-> life.exercised,
             broke |-> life.broke, began |-> life.began]
  BY DEF LifeInv
<1>3. Len(ledger) \in Nat /\ DOMAIN ledger = 1..Len(ledger) /\ 0 \notin DOMAIN ledger
  BY ChainFacts
<1>4. CASE LookUp
  <2>1. life.step = "looking"
    BY <1>4 DEF LookUp
  <2>2. CASE life.contract \notin Created
    <3>1. life' = [life EXCEPT !.step = "notFound"]
      BY <1>4, <2>2 DEF LookUp
    <3>2. QED
      BY <1>1, <1>2, <2>1, <3>1 DEF LifeInv, LifecycleFollowed
  <2>3. CASE life.contract \in Created
    <3>1. life' = [life EXCEPT !.step = "creation",
                               !.archived = life.contract \in Archived]
      BY <1>4, <2>3 DEF LookUp
    <3> DEFINE is == life.contract \in Archived
    <3>2. is \in BOOLEAN /\ (is <=> life.contract \in Archived)
      OBVIOUS
    <3> HIDE DEF is
    <3>3. life' = [step |-> "creation", contract |-> life.contract, named |-> life.named,
                  creation |-> life.creation, archived |-> is,
                  archival |-> life.archival, exercised |-> life.exercised,
                  broke |-> life.broke, began |-> life.began]
      BY <1>2, <3>1 DEF is
    <3>4. (\E t \in 1..life.began : life.contract \in ledger[t].consumes) => is
      <4>1. 1..life.began \subseteq DOMAIN ledger
        BY <1>3 DEF LifeInv
      <4>2. QED
        BY <3>2, <4>1, ArchiverFacts
    <3>5. QED
      BY <1>1, <2>1, <3>2, <3>3, <3>4 DEF LifeInv, LifecycleFollowed
  <2>4. QED
    BY <2>2, <2>3
<1>5. ASSUME life.step = "creation", NEW creation, NEW broke \in BOOLEAN,
             creation # 0 => creation \in DOMAIN ledger
                             /\ life.contract \in ledger[creation].creates,
             life' = [life EXCEPT !.step = AfterCreation, !.creation = creation,
                                  !.broke = broke]
      PROVE  LifeInv'
  <2> DEFINE step == AfterCreation
  <2>1. /\ step = IF life.archived THEN "archival" ELSE "replied"
    BY DEF AfterCreation
  <2> HIDE DEF step
  <2>2. life' = [step |-> step, contract |-> life.contract, named |-> life.named,
                creation |-> creation, archived |-> life.archived,
                archival |-> life.archival, exercised |-> life.exercised,
                broke |-> broke, began |-> life.began]
    BY <1>2, <1>5 DEF step
  <2>3. /\ life.archival = 0 /\ life.archived \in BOOLEAN /\ life.named \in BOOLEAN
        /\ life.began \in 0..Len(ledger)
        /\ life.archived => life.contract \in Archived
        /\ (\E t \in 1..life.began : life.contract \in ledger[t].consumes) => life.archived
    BY <1>5 DEF LifeInv
  <2>4. /\ life'.step = step /\ life'.contract = life.contract /\ life'.named = life.named
        /\ life'.creation = creation /\ life'.archived = life.archived
        /\ life'.archival = 0 /\ life'.broke = broke /\ life'.began = life.began
    BY <2>2, <2>3
  <2>5. LifecycleFollowed'
    BY <1>1, <1>5, <2>1, <2>3, <2>4 DEF LifecycleFollowed
  <2>6. QED
    BY <1>1, <1>5, <2>1, <2>2, <2>3, <2>4, <2>5 DEF LifeInv
<1>6. CASE FindCreation
  <2> DEFINE creation == IF life.named THEN Creator(life.contract) ELSE 0
  <2>1. creation # 0 => creation \in DOMAIN ledger
                        /\ life.contract \in ledger[creation].creates
    BY DEF Creator
  <2>2. life' = [life EXCEPT !.step = AfterCreation, !.creation = creation]
        /\ life.step = "creation"
    BY <1>6 DEF FindCreation
  <2> HIDE DEF creation
  <2>3. life' = [life EXCEPT !.step = AfterCreation, !.creation = creation,
                             !.broke = life.broke]
    BY <1>2, <2>2
  <2>4. life.broke \in BOOLEAN
    BY DEF LifeInv
  <2>5. QED
    BY <1>5, <2>1, <2>2, <2>3, <2>4
<1>7. CASE life.step = "creation" /\ life' = [life EXCEPT !.step = AfterCreation, !.broke = TRUE]
  <2>1. life' = [life EXCEPT !.step = AfterCreation, !.creation = life.creation,
                             !.broke = TRUE]
    BY <1>2, <1>7
  <2>2. life.creation = 0
    BY <1>7 DEF LifeInv
  <2>3. QED
    BY <1>5, <1>7, <2>1, <2>2
<1>8. CASE FindArchival
  <2> DEFINE t == IF life.named THEN Archiver(life.contract) ELSE 0
             found == IF t # 0 /\ IsArchival(t, life.contract) THEN t ELSE 0
             used == t # 0 /\ life.contract \in ledger[t].uses
  <2>1. life.step = "archival" /\ life.archived /\ life.contract \in Archived
        /\ life' = [life EXCEPT !.step = "replied", !.archival = found, !.exercised = used]
    BY <1>8 DEF FindArchival, LifeInv
  <2>2. /\ Archiver(life.contract) \in DOMAIN ledger
        /\ life.contract \in ledger[Archiver(life.contract)].consumes
    BY <2>1, ArchiverFacts
  <2>3. /\ t # 0 => t \in DOMAIN ledger /\ life.contract \in ledger[t].consumes
        /\ t = 0 => ~life.named
    BY <1>3, <2>2
  <2>4. used <=> t # 0 /\ life.contract \in ledger[t].uses
    OBVIOUS
  <2> HIDE DEF t
  <2>5. found = t
    BY <2>3 DEF IsArchival
  <2> HIDE DEF found, used
  <2>6. life' = [step |-> "replied", contract |-> life.contract, named |-> life.named,
                creation |-> life.creation, archived |-> life.archived,
                archival |-> t, exercised |-> used,
                broke |-> life.broke, began |-> life.began]
    BY <1>2, <2>1, <2>5
  <2>7. t # 0 /\ life.creation # 0 => life.creation <= t
    <3> SUFFICES ASSUME t # 0, life.creation # 0 PROVE life.creation <= t
      OBVIOUS
    <3>1. /\ life.creation \in DOMAIN ledger /\ t \in DOMAIN ledger
          /\ life.contract \in ledger[life.creation].creates
          /\ life.contract \in ledger[t].consumes
      BY <2>3 DEF LifeInv
    <3>2. life.contract # 1 /\ life.contract \in Exercised(t)
      BY <3>1 DEF ChainInv, LedgerInv, Exercised
    <3>3. PICK u \in 1..t : life.contract \in ledger[u].creates
      BY <3>1, <3>2 DEF ChainInv, LedgerInv
    <3>4. u \in DOMAIN ledger /\ t \in Nat
      BY <1>3, <3>1, <3>3
    <3>5. u = life.creation
      BY <3>1, <3>3, <3>4 DEF ChainInv, LedgerInv
    <3>6. QED
      BY <3>3, <3>4, <3>5
  <2>8. t # 0 => life.creation <= t
    BY <1>3, <2>3, <2>7
  <2>9. /\ life.named \in BOOLEAN /\ life.broke \in BOOLEAN /\ life.began \in 0..Len(ledger)
        /\ life.creation # 0 => /\ life.creation \in DOMAIN ledger
                                /\ life.contract \in ledger[life.creation].creates
    BY DEF LifeInv
  <2>10. /\ life'.step = "replied" /\ life'.contract = life.contract
         /\ life'.named = life.named /\ life'.creation = life.creation
         /\ life'.archived = life.archived /\ life'.archival = t
         /\ life'.exercised = used /\ life'.broke = life.broke /\ life'.began = life.began
    BY <2>6
  <2>11. LifecycleFollowed'
    BY <1>1, <2>1, <2>3, <2>4, <2>8, <2>9, <2>10 DEF LifecycleFollowed
  <2>12. QED
    BY <1>1, <2>1, <2>3, <2>6, <2>9, <2>10, <2>11 DEF LifeInv
<1>9. CASE life.step = "archival" /\ life' = [life EXCEPT !.step = "replied", !.broke = TRUE]
  <2>1. life' = [step |-> "replied", contract |-> life.contract, named |-> life.named,
                creation |-> life.creation, archived |-> life.archived,
                archival |-> life.archival, exercised |-> life.exercised,
                broke |-> TRUE, began |-> life.began]
    BY <1>2, <1>9
  <2>2. life.archival = 0 /\ life.archived
    BY <1>9 DEF LifeInv
  <2>3. QED
    BY <1>1, <1>9, <2>1, <2>2 DEF LifeInv, LifecycleFollowed
<1>10. CASE life.step = "looking" /\ life' = [life EXCEPT !.step = "failed"]
  BY <1>1, <1>2, <1>10 DEF LifeInv, LifecycleFollowed
<1>11. QED
  BY <1>4, <1>6, <1>7, <1>8, <1>9, <1>10 DEF LifeStep, LifeFails

LEMMA LifeTransact ==
  ASSUME ChainInv, LifeInv, Transact, UNCHANGED life,
         life.step \notin {"replied", "notFound", "failed"}
  PROVE  LifeInv'
<1>1. /\ Len(ledger') = Len(ledger) + 1 /\ Len(ledger) \in Nat
      /\ DOMAIN ledger = 1..Len(ledger)
      /\ \A t \in DOMAIN ledger : t \in DOMAIN ledger' /\ ledger'[t] = ledger[t]
      /\ \A c \in Archived : c \in Archived'
  BY LedgerGrows DEF ChainInv, LedgerInv
<1>2. 1..life.began \subseteq DOMAIN ledger /\ life.began \in 0..Len(ledger')
  BY <1>1 DEF LifeInv
<1>3. QED
  BY <1>1, <1>2 DEF LifeInv, LifecycleFollowed

LEMMA LifeRests ==
  ASSUME LifeInv, UNCHANGED <<ledger, life>>
  PROVE  LifeInv'
<1>1. Archived' = Archived
  BY DEF Archived
<1>2. QED
  BY <1>1 DEF LifeInv, LifecycleFollowed

LEMMA HistoryAlways == HistorySpec => []HistoryInv
<1>1. HistoryInit => HistoryInv
  <2> SUFFICES ASSUME HistoryInit PROVE HistoryInv
    OBVIOUS
  <2>1. ChainInv
    BY ChainInitially DEF HistoryInit
  <2>2. ledger = <<>> /\ Len(ledger) = 0
    BY DEF HistoryInit, ChainInit
  <2>3. LifeInv
    BY <2>2 DEF HistoryInit, LifeInv, LifecycleFollowed
  <2>4. QED
    BY <2>1, <2>3 DEF HistoryInv
<1>2. HistoryInv /\ [HistoryNext]_historyVars => HistoryInv'
  <2> SUFFICES ASSUME HistoryInv, [HistoryNext]_historyVars PROVE HistoryInv'
    OBVIOUS
  <2> USE DEF HistoryInv
  <2>1. UNCHANGED chainVars => ChainInv'
    <3> SUFFICES ASSUME UNCHANGED chainVars PROVE ChainInv'
      OBVIOUS
    <3>1. UNCHANGED <<ledger, chain>>
      BY DEF chainVars
    <3>2. Listed' = Listed /\ Queue' = Queue
      BY <3>1 DEF Listed, Queue
    <3>3. Reached' = Reached
      BY <3>1, <3>2, ReachedIs
    <3>4. (ChainLoop => ChainLoop') /\ ChainShape' /\ ChainFollowed'
      BY <3>1, <3>2, <3>3 DEF ChainInv, ChainShape, ChainLoop, ChainFollowed
    <3>5. QED
      BY <3>1, <3>4, HistoryRests DEF ChainInv
  <2>2. CASE LifeStep /\ UNCHANGED chainVars
    BY <2>1, <2>2, LifeStepKeeps
  <2>3. CASE ChainStep /\ UNCHANGED life
    <3>1. UNCHANGED ledger
      BY <2>3 DEF ChainStep, Skip, Look, Fetch, ChainFails, Finish
    <3>2. QED
      BY <2>3, <3>1, ChainStepKeeps, LifeRests
  <2>4. CASE Transact /\ life.step \notin {"replied", "notFound", "failed"} /\ UNCHANGED life
    BY <2>4, TransactStep, LifeTransact
  <2>5. CASE ChainAsk /\ UNCHANGED life
    <3>1. UNCHANGED ledger
      BY <2>5 DEF ChainAsk
    <3>2. QED
      BY <2>5, <3>1, ChainAskStep, LifeRests
  <2>6. CASE HistoryAsk /\ UNCHANGED chainVars
    BY <2>1, <2>6, LifeAskStep
  <2>7. CASE UNCHANGED historyVars
    <3>1. UNCHANGED chainVars /\ UNCHANGED <<ledger, life>>
      BY <2>7 DEF historyVars, chainVars
    <3>2. QED
      BY <2>1, <3>1, LifeRests
  <2>8. QED
    BY <2>2, <2>3, <2>4, <2>5, <2>6, <2>7 DEF HistoryNext, HistoryStep
<1>3. QED
  BY <1>1, <1>2, PTL DEF HistorySpec

\* The chain of contracts and the lifecycle of a contract are told as the
\* ledger has them, for every ledger, however it grows between the calls.
THEOREM HistoryTheorem == HistorySpec => []HistoryFollowed
<1>1. HistoryInv => HistoryFollowed
  BY DEF HistoryInv, ChainInv, LifeInv, HistoryFollowed
<1>2. QED
  BY <1>1, HistoryAlways, PTL

-----------------------------------------------------------------------------
(***************************************************************************)
(* The cards of a history.                                                 *)
(***************************************************************************)

\* A range tells its end.
LEMMA SameRange ==
  ASSUME NEW m \in Nat, NEW n \in Nat, 1..m = 1..n
  PROVE  m = n
<1>1. CASE m = 0 \/ n = 0
  BY <1>1
<1>2. CASE m > 0 /\ n > 0
  <2>1. m \in 1..n /\ n \in 1..m
    BY <1>2
  <2>2. QED
    BY <2>1
<1>3. QED
  BY <1>1, <1>2

LEMMA CardsFacts ==
  ASSUME NEW c \in DOMAIN Histories
  PROVE  LET h == Histories[c]
             cards == LifecycleCards(h)
             n == Len(h.exercises)
         IN /\ n \in Nat /\ DOMAIN cards = 1..Len(cards)
            /\ Len(cards) = 1 + n + (IF h.archived THEN 1 ELSE 0)
            /\ cards[1] = EventCard("creation", 0, h.creation, Len(cards) = 1)
            /\ \A i \in 1..n : cards[1 + i] =
                 EventCard("exercise", i, h.exercises[i], ~h.archived /\ i = n)
            /\ h.archived => cards[n + 2] = EventCard("archival", 0, h.archival, TRUE)
<1> DEFINE h == Histories[c]
           n == Len(h.exercises)
           total == 1 + n + (IF h.archived THEN 1 ELSE 0)
           born == EventCard("creation", 0, h.creation, total = 1)
           used == [i \in DOMAIN h.exercises |->
                      EventCard("exercise", i, h.exercises[i],
                                ~h.archived /\ i = n)]
           died == EventCard("archival", 0, h.archival, TRUE)
           end == IF h.archived THEN <<died>> ELSE <<>>
           Cards == {born, died} \cup {used[i] : i \in DOMAIN h.exercises}
           cards == LifecycleCards(h)
<1>1. h.exercises \in Seq({h.exercises[i] : i \in DOMAIN h.exercises})
      /\ h.archived \in BOOLEAN
  BY PanelConstantsOK
<1>2. n \in Nat /\ DOMAIN h.exercises = 1..n
  <2> DEFINE X == {h.exercises[i] : i \in DOMAIN h.exercises}
             x == h.exercises
  <2>1. x \in Seq(X)
    BY <1>1
  <2> HIDE DEF X, x
  <2>2. Len(x) \in Nat /\ DOMAIN x = 1..Len(x)
    BY <2>1, LenProperties
  <2>3. QED
    BY <2>2 DEF x
<1>3. cards = <<born>> \o used \o end
  BY DEF LifecycleCards
<1> DEFINE k == IF h.archived THEN 1 ELSE 0
<1>17. k \in {0, 1} /\ (h.archived <=> k = 1) /\ total = 1 + n + k
  BY <1>1
<1>4. used \in [1..n -> Cards]
  BY <1>2
<1>5. /\ <<born>> \in Seq(Cards) /\ Len(<<born>>) = 1 /\ <<born>>[1] = born
      /\ end \in Seq(Cards) /\ Len(end) = k
      /\ h.archived => end[1] = died
  <2>1. born \in Cards /\ died \in Cards
    OBVIOUS
  <2>6. end = IF h.archived THEN <<died>> ELSE <<>>
    OBVIOUS
  <2> HIDE DEF born, died, Cards
  <2>2. <<born>> \in Seq(Cards) /\ Len(<<born>>) = 1 /\ <<born>>[1] = born
    BY <2>1
  <2>3. CASE h.archived
    <3>1. end = <<died>> /\ k = 1
      BY <2>3
    <3>2. <<died>> \in Seq(Cards) /\ Len(<<died>>) = 1 /\ <<died>>[1] = died
      BY <2>1
    <3> HIDE DEF k, end
    <3>3. QED
      BY <2>2, <3>1, <3>2
  <2>4. CASE ~h.archived
    <3>1. end = <<>> /\ k = 0
      BY <2>4
    <3>2. <<>> \in Seq(Cards) /\ Len(<<>>) = 0
      OBVIOUS
    <3> HIDE DEF k, end
    <3>3. QED
      BY <2>2, <2>4, <3>1, <3>2
  <2>5. QED
    BY <2>3, <2>4
<1>6. \A i \in 1..n : used[i] = EventCard("exercise", i, h.exercises[i],
                                          ~h.archived /\ i = n)
  BY <1>2
<1>7. total = 1 + n + (IF h.archived THEN 1 ELSE 0)
  OBVIOUS
<1> HIDE DEF used, Cards, end, born, died, total, k
<1>8. used \in Seq(Cards)
  BY <1>2, <1>4, SeqDef
<1>9. Len(used) = n
  <2>1. Len(used) \in Nat /\ DOMAIN used = 1..Len(used) /\ DOMAIN used = 1..n
    BY <1>4, <1>8, LenProperties
  <2>2. n \in Nat
    BY <1>2
  <2> HIDE DEF n, h
  <2>3. QED
    BY <2>1, <2>2, SameRange
<1> DEFINE front == <<born>> \o used
<1>10. /\ front \in Seq(Cards) /\ Len(front) = 1 + n
       /\ \A i \in 1..(1 + n) : front[i] = IF i <= 1 THEN <<born>>[i] ELSE used[i - 1]
  BY <1>5, <1>8, <1>9, ConcatProperties
<1> HIDE DEF front
<1>11. /\ cards \in Seq(Cards) /\ Len(cards) = total
       /\ \A i \in 1..total : cards[i] = IF i <= 1 + n THEN front[i] ELSE end[i - (1 + n)]
  <2>1. cards = front \o end
    BY <1>3 DEF front
  <2> HIDE DEF cards, h
  <2>2. /\ front \o end \in Seq(Cards) /\ Len(front \o end) = Len(front) + Len(end)
        /\ \A i \in 1..(Len(front) + Len(end)) :
             (front \o end)[i] = IF i <= Len(front) THEN front[i] ELSE end[i - Len(front)]
    BY <1>5, <1>10, ConcatProperties
  <2>3. total = Len(front) + Len(end)
    BY <1>5, <1>10, <1>17
  <2>4. QED
    BY <1>10, <2>1, <2>2, <2>3
<1>12. DOMAIN cards = 1..total
  BY <1>11, LenProperties
<1> HIDE DEF cards, n, h
<1>13. cards[1] = born
  <2>1. 1 \in 1..total /\ 1 \in 1..(1 + n) /\ 1 <= 1 + n
    BY <1>2, <1>17
  <2>2. cards[1] = front[1] /\ front[1] = <<born>>[1]
    BY <1>10, <1>11, <2>1
  <2>3. QED
    BY <1>5, <2>2
<1>14. \A i \in 1..n : cards[1 + i] = used[i]
  <2> SUFFICES ASSUME NEW i \in 1..n PROVE cards[1 + i] = used[i]
    OBVIOUS
  <2>1. 1 + i \in 1..total /\ 1 + i <= 1 + n /\ 1 + i \in 1..(1 + n) /\ ~(1 + i <= 1)
        /\ (1 + i) - 1 = i
    BY <1>2, <1>17
  <2>2. cards[1 + i] = front[1 + i]
    BY <1>11, <2>1
  <2>3. front[1 + i] = used[(1 + i) - 1]
    BY <1>10, <2>1
  <2>4. QED
    BY <2>1, <2>2, <2>3
<1>15. h.archived => cards[n + 2] = died
  <2> SUFFICES ASSUME h.archived PROVE cards[n + 2] = died
    OBVIOUS
  <2>1. n + 2 \in 1..total /\ ~(n + 2 <= 1 + n) /\ (n + 2) - (1 + n) = 1
    BY <1>2, <1>17
  <2>2. cards[n + 2] = end[(n + 2) - (1 + n)]
    BY <1>11, <2>1
  <2>3. QED
    BY <1>5, <2>1, <2>2
<1>16. QED
  BY <1>2, <1>6, <1>7, <1>11, <1>12, <1>13, <1>14, <1>15 DEF cards, born, died, total, n, h

\* What a card says of its event.
LEMMA CardFields ==
  ASSUME NEW kind, NEW at, NEW event, NEW last
  PROVE  /\ EventCard(kind, at, event, last).key.kind = kind
         /\ EventCard(kind, at, event, last).key.at = at
         /\ EventCard(kind, at, event, last).children = event.children
         /\ EventCard(kind, at, event, last).last = last
<1> DEFINE key == [kind |-> kind, at |-> at,
                   update |-> IF kind = "exercise" THEN event.update ELSE NoContract]
           link == CASE event.update # NoContract -> "update"
                     [] event.offset              -> "offset"
                     [] OTHER                     -> "none"
           card == EventCard(kind, at, event, last)
<1>1. card = [key |-> key, link |-> link, children |-> event.children, last |-> last]
  BY DEF EventCard
<1>2. key.kind = kind /\ key.at = at
  OBVIOUS
<1> HIDE DEF card, key, link
<1>3. card.key = key /\ card.children = event.children /\ card.last = last
  BY Zenon, <1>1
<1>4. QED
  BY <1>2, <1>3 DEF card

\* Its cards have different keys, and the last is drawn as the last.
LEMMA CardsTold ==
  ASSUME NEW c \in DOMAIN Histories
  PROVE  LET cards == LifecycleCards(Histories[c])
         IN /\ Cardinality(CardKeys(c)) = Len(cards)
            /\ \A i \in DOMAIN cards : cards[i].last <=> i = Len(cards)
<1> DEFINE h == Histories[c]
           cards == LifecycleCards(h)
           n == Len(h.exercises)
           keys == [i \in 1..Len(cards) |-> cards[i].key]
<1>1. /\ n \in Nat /\ DOMAIN cards = 1..Len(cards)
      /\ Len(cards) = 1 + n + (IF h.archived THEN 1 ELSE 0)
      /\ cards[1] = EventCard("creation", 0, h.creation, Len(cards) = 1)
      /\ \A i \in 1..n : cards[1 + i] =
           EventCard("exercise", i, h.exercises[i], ~h.archived /\ i = n)
      /\ h.archived => cards[n + 2] = EventCard("archival", 0, h.archival, TRUE)
  BY CardsFacts
<1>2. h.archived \in BOOLEAN
  BY PanelConstantsOK
<1>3. CardKeys(c) = {cards[i].key : i \in DOMAIN cards}
  BY DEF CardKeys
<1> HIDE DEF cards, n, h
<1>4. h.archived <=> Len(cards) = n + 2
  BY <1>1, <1>2
<1>5. \A i \in DOMAIN cards :
        \/ i = 1 /\ cards[i].key.kind = "creation" /\ (cards[i].last <=> Len(cards) = 1)
        \/ /\ i - 1 \in 1..n /\ cards[i].key.kind = "exercise" /\ cards[i].key.at = i - 1
           /\ cards[i].last <=> ~h.archived /\ i - 1 = n
        \/ i = n + 2 /\ h.archived /\ cards[i].key.kind = "archival" /\ cards[i].last = TRUE
  <2> SUFFICES ASSUME NEW i \in DOMAIN cards
        PROVE  \/ i = 1 /\ cards[i].key.kind = "creation" /\ (cards[i].last <=> Len(cards) = 1)
               \/ /\ i - 1 \in 1..n /\ cards[i].key.kind = "exercise" /\ cards[i].key.at = i - 1
                  /\ cards[i].last <=> ~h.archived /\ i - 1 = n
               \/ /\ i = n + 2 /\ h.archived /\ cards[i].key.kind = "archival"
                  /\ cards[i].last = TRUE
    OBVIOUS
  <2>1. CASE i = 1
    <3> DEFINE only == Len(cards) = 1
               card == EventCard("creation", 0, h.creation, only)
    <3>1. cards[i] = card
      BY <1>1, <2>1
    <3> HIDE DEF only
    <3>2. card.key.kind = "creation" /\ card.last = only
      BY CardFields
    <3> USE DEF only
    <3> HIDE DEF card
    <3>3. cards[i].last = only /\ cards[i].key.kind = "creation"
      BY Zenon, <3>1, <3>2
    <3>4. QED
      BY Zenon, <2>1, <3>3
  <2>2. CASE i - 1 \in 1..n
    <3>1. cards[i] = EventCard("exercise", i - 1, h.exercises[i - 1],
                               ~h.archived /\ i - 1 = n)
      <4>1. i = 1 + (i - 1)
        BY <1>1
      <4>2. QED
        BY <1>1, <2>2, <4>1
    <3> DEFINE latest == ~h.archived /\ i - 1 = n
               card == EventCard("exercise", i - 1, h.exercises[i - 1], latest)
    <3>3. cards[i] = card
      BY <3>1
    <3> HIDE DEF latest
    <3>2. card.key.kind = "exercise" /\ card.key.at = i - 1 /\ card.last = latest
      BY CardFields
    <3> USE DEF latest
    <3> HIDE DEF card
    <3>4. /\ cards[i].last = latest /\ cards[i].key.kind = "exercise"
          /\ cards[i].key.at = i - 1
      BY Zenon, <3>2, <3>3
    <3>5. QED
      BY Zenon, <2>2, <3>4
  <2>3. CASE h.archived /\ i = n + 2
    <3> DEFINE latest == TRUE
               card == EventCard("archival", 0, h.archival, latest)
    <3>1. cards[i] = card
      BY <1>1, <2>3
    <3> HIDE DEF latest
    <3>2. card.key.kind = "archival" /\ card.last = latest
      BY CardFields
    <3> USE DEF latest
    <3> HIDE DEF card
    <3>3. QED
      BY Zenon, <2>3, <3>1, <3>2
  <2>4. i = 1 \/ i - 1 \in 1..n \/ (h.archived /\ i = n + 2)
    BY <1>1, <1>2
  <2>5. QED
    BY <2>1, <2>2, <2>3, <2>4
<1>6. \A i, j \in DOMAIN cards : i # j => cards[i].key # cards[j].key
  BY <1>1, <1>5
<1>7. \A i \in DOMAIN cards : cards[i].last <=> i = Len(cards)
  BY <1>1, <1>2, <1>5
<1>8. Cardinality({cards[i].key : i \in DOMAIN cards}) = Len(cards)
  <2> DEFINE K == {cards[i].key : i \in DOMAIN cards}
  <2>1. Len(cards) \in Nat
    BY <1>1, <1>2
  <2>2. keys \in [1..Len(cards) -> K]
    BY <1>1
  <2>3. keys \in Seq(K)
    BY <2>1, <2>2, SeqDef
  <2>4. Len(keys) = Len(cards)
    <3>1. Len(keys) \in Nat /\ DOMAIN keys = 1..Len(keys) /\ DOMAIN keys = 1..Len(cards)
      BY <2>2, <2>3, LenProperties
    <3> HIDE DEF keys
    <3>2. QED
      BY <2>1, <3>1
  <2>5. \A i, j \in DOMAIN keys : i # j => keys[i] # keys[j]
    BY <1>1, <1>6
  <2>6. Elems(keys) = K
    BY <1>1 DEF Elems
  <2> HIDE DEF keys, K
  <2>7. Cardinality(K) = Len(cards)
    BY <2>3, <2>4, <2>5, <2>6, DistinctLength
  <2>8. QED
    BY <2>7 DEF K
<1>9. QED
  BY <1>3, <1>7, <1>8 DEF cards, h

\* An event on a card leads to a contract, or to what is taken for one.
LEMMA CardsLead ==
  ASSUME NEW c \in DOMAIN Histories, NEW i \in DOMAIN LifecycleCards(Histories[c])
  PROVE  LifecycleCards(Histories[c])[i].children \subseteq Ids
<1> DEFINE h == Histories[c]
           cards == LifecycleCards(h)
           n == Len(h.exercises)
<1>1. /\ n \in Nat /\ DOMAIN cards = 1..Len(cards)
      /\ Len(cards) = 1 + n + (IF h.archived THEN 1 ELSE 0)
      /\ cards[1] = EventCard("creation", 0, h.creation, Len(cards) = 1)
      /\ \A j \in 1..n : cards[1 + j] =
           EventCard("exercise", j, h.exercises[j], ~h.archived /\ j = n)
      /\ h.archived => cards[n + 2] = EventCard("archival", 0, h.archival, TRUE)
  BY CardsFacts
<1>2. /\ h.archived \in BOOLEAN
      /\ DOMAIN h.exercises = 1..n
      /\ h.creation.children \subseteq Ids /\ h.archival.children \subseteq Ids
      /\ \A j \in DOMAIN h.exercises : h.exercises[j].children \subseteq Ids
  <2> DEFINE X == {h.exercises[j] : j \in DOMAIN h.exercises}
             x == h.exercises
  <2>1. /\ x \in Seq(X) /\ h.archived \in BOOLEAN
        /\ \A e \in X \cup {h.creation, h.archival} : e.children \subseteq Ids
    BY PanelConstantsOK
  <2>2. DOMAIN x = 1..Len(x)
    <3> HIDE DEF X, x
    <3>1. QED
      BY <2>1, LenProperties
  <2>3. QED
    BY <2>1, <2>2
<1>3. /\ i \in Nat
      /\ i = 1 \/ i - 1 \in 1..n \/ (h.archived /\ i = n + 2)
  <2> HIDE DEF cards, n, h
  <2>1. i \in 1..Len(cards)
    BY <1>1 DEF cards, h
  <2>2. QED
    BY <1>1, <1>2, <2>1
<1> HIDE DEF cards, n, h
<1>4. CASE i = 1
  <2> DEFINE only == Len(cards) = 1
  <2>1. cards[i] = EventCard("creation", 0, h.creation, only)
    BY <1>1, <1>4
  <2> HIDE DEF only
  <2>2. cards[i].children = h.creation.children
    BY <2>1, CardFields
  <2>3. QED
    BY <1>2, <2>2 DEF cards, h
<1>5. CASE i - 1 \in 1..n
  <2> DEFINE latest == ~h.archived /\ i - 1 = n
  <2>1. i = 1 + (i - 1)
    BY <1>3
  <2>2. cards[i] = EventCard("exercise", i - 1, h.exercises[i - 1], latest)
    BY <1>1, <1>5, <2>1
  <2> HIDE DEF latest
  <2>3. cards[i].children = h.exercises[i - 1].children
    BY <2>2, CardFields
  <2>4. QED
    BY <1>2, <1>5, <2>3 DEF cards, h
<1>6. CASE h.archived /\ i = n + 2
  <2> DEFINE latest == TRUE
  <2>1. cards[i] = EventCard("archival", 0, h.archival, latest)
    BY <1>1, <1>6
  <2> HIDE DEF latest
  <2>2. cards[i].children = h.archival.children
    BY <2>1, CardFields
  <2>3. QED
    BY <1>2, <2>2 DEF cards, h
<1>7. QED
  BY <1>3, <1>4, <1>5, <1>6

-----------------------------------------------------------------------------
(***************************************************************************)
(* The panel.                                                              *)
(***************************************************************************)

PanelQuery == [data : BOOLEAN, failed : BOOLEAN, asking : BOOLEAN]

\* The page of an address.
LEMMA RouteFacts ==
  ASSUME NEW path \in Paths
  PROVE  /\ Route(path) = "contractDetail" <=> path \in Ids
         /\ Route(path) = "contracts" <=> path = NoContract
         /\ Route(path) = "transactions" <=> path = OtherPage
         /\ ~(NoContract \in Ids) /\ ~(OtherPage \in Ids) /\ NoContract # OtherPage
<1>1. ~(NoContract \in Ids) /\ ~(OtherPage \in Ids)
  BY PanelConstantsOK
<1>2. NoContract # OtherPage
  BY DEF NoContract, OtherPage
<1>3. path \in Ids \/ path = NoContract \/ path = OtherPage
  BY DEF Paths
<1>4. QED
  BY <1>1, <1>2, <1>3 DEF Route

\* Asking for a history loses none.
LEMMA AskedFacts ==
  ASSUME NEW queries \in [Ids -> PanelQuery], NEW c \in Ids, NEW stale \in BOOLEAN
  PROVE  /\ AskedFor(queries, c, stale) \in [Ids -> PanelQuery]
         /\ \A e \in Ids : AskedFor(queries, c, stale)[e].data = queries[e].data
<1> DEFINE q == queries[c]
           again == [data |-> q.data, failed |-> q.failed /\ q.data, asking |-> TRUE]
<1>1. q \in PanelQuery /\ again \in PanelQuery /\ again.data = q.data
  BY DEF PanelQuery
<1>2. AskedFor(queries, c, stale) = [queries EXCEPT ![c] = again]
      \/ AskedFor(queries, c, stale) = queries
  BY DEF AskedFor
<1> HIDE DEF again
<1>3. QED
  BY <1>1, <1>2

\* The panel that opens for the address.
LEMMA OpenedFacts ==
  ASSUME NEW d \in Desk
  PROVE  LET s == PanelOpened(d)
             opens == /\ Route(d.url) = "contractDetail" /\ d.shown # 0
                      /\ d.panel = NoContract
         IN /\ s \in Desk
            /\ s.path = d.path /\ s.url = d.url /\ s.behind = d.behind
            /\ s.asked = d.asked /\ s.shown = d.shown /\ s.got = d.got
            /\ s.queries = d.queries /\ s.folded = d.folded
            /\ s.strayed = d.strayed /\ s.clicks = d.clicks
            /\ s.panel = IF opens THEN d.url ELSE d.panel
            /\ s.whole = IF opens THEN d.url \in Sheets[d.shown] ELSE d.whole
<1> DEFINE opens == /\ Route(d.url) = "contractDetail" /\ d.shown # 0
                    /\ d.panel = NoContract
           on == d.url \in Sheets[d.shown]
           s == [d EXCEPT !.panel = d.url, !.whole = on, !.tab = "details"]
<1>1. CASE opens
  <2>1. PanelOpened(d) = s
    BY <1>1 DEF PanelOpened
  <2>2. d.url \in Ids
    <3>1. d.url \in Paths
      BY DEF Desk
    <3>2. QED
      BY <1>1, <3>1, RouteFacts
  <2>3. on \in BOOLEAN
    OBVIOUS
  <2> HIDE DEF on
  <2>4. /\ s \in Desk
        /\ s.path = d.path /\ s.url = d.url /\ s.behind = d.behind
        /\ s.asked = d.asked /\ s.shown = d.shown /\ s.got = d.got
        /\ s.queries = d.queries /\ s.folded = d.folded
        /\ s.strayed = d.strayed /\ s.clicks = d.clicks
        /\ s.panel = d.url /\ s.whole = on
    BY <2>2, <2>3 DEF Desk
  <2>5. QED
    BY <1>1, <2>1, <2>4 DEF on
<1>2. CASE ~opens
  <2>1. PanelOpened(d) = d
    BY <1>2 DEF PanelOpened
  <2>2. QED
    BY <1>2, <2>1
<1>3. QED
  BY <1>1, <1>2

\* What is drawn of a desk: the panel may open, its history may be asked for,
\* and cards that no timeline shows any more are unfolded.
LEMMA DrawnFacts ==
  ASSUME NEW d \in Desk, NEW stale \in BOOLEAN
  PROVE  LET r == PanelDrawn(d, stale)
             opens == /\ Route(d.url) = "contractDetail" /\ d.shown # 0
                      /\ d.panel = NoContract
         IN /\ r \in Desk
            /\ r.path = d.path /\ r.url = d.url /\ r.shown = d.shown
            /\ r.asked = d.asked /\ r.strayed = d.strayed
            /\ r.panel = IF opens THEN d.url ELSE d.panel
            /\ r.whole = IF opens THEN d.url \in Sheets[d.shown] ELSE d.whole
            /\ \A c \in Ids : r.queries[c].data = d.queries[c].data
            /\ r.folded # {} => TimelineShown(r) /\ r.folded \subseteq CardKeys(r.panel)
<1> DEFINE s == PanelOpened(d)
           opens == /\ Route(d.url) = "contractDetail" /\ d.shown # 0
                    /\ d.panel = NoContract
           asks == s.panel # NoContract
                   /\ (s.panel # desk.panel \/ s.tab # desk.tab \/ s.url # desk.url)
           t == [s EXCEPT !.queries = AskedFor(@, s.panel, stale)]
           asked == IF asks THEN t ELSE s
           left == IF TimelineShown(desk) /\ TimelineShown(asked)
                   THEN asked.folded \cap CardKeys(asked.panel) ELSE {}
           r == [asked EXCEPT !.folded = left]
<1>1. PanelDrawn(d, stale) = r
  BY DEF PanelDrawn
<1>2. /\ s \in Desk
      /\ s.path = d.path /\ s.url = d.url /\ s.shown = d.shown
      /\ s.asked = d.asked /\ s.strayed = d.strayed
      /\ s.queries = d.queries
      /\ s.panel = IF opens THEN d.url ELSE d.panel
      /\ s.whole = IF opens THEN d.url \in Sheets[d.shown] ELSE d.whole
  BY OpenedFacts
<1> HIDE DEF s
<1>3. /\ asked \in Desk
      /\ asked.path = s.path /\ asked.url = s.url /\ asked.shown = s.shown
      /\ asked.asked = s.asked /\ asked.strayed = s.strayed
      /\ asked.panel = s.panel /\ asked.whole = s.whole
      /\ \A c \in Ids : asked.queries[c].data = s.queries[c].data
  <2>1. CASE asks
    <3> DEFINE queries == AskedFor(s.queries, s.panel, stale)
    <3>1. t = [s EXCEPT !.queries = queries]
      BY <1>2
    <3>2. s.panel \in Ids /\ s.queries \in [Ids -> PanelQuery]
      BY <1>2, <2>1 DEF Desk, PanelQuery
    <3>3. /\ queries \in [Ids -> PanelQuery]
          /\ \A c \in Ids : queries[c].data = s.queries[c].data
      BY <3>2, AskedFacts
    <3> HIDE DEF queries, t, asks
    <3>4. /\ t \in Desk
          /\ t.path = s.path /\ t.url = s.url /\ t.shown = s.shown
          /\ t.asked = s.asked /\ t.strayed = s.strayed
          /\ t.panel = s.panel /\ t.whole = s.whole /\ t.queries = queries
      BY <1>2, <3>1, <3>3 DEF Desk, PanelQuery
    <3>5. asked = t
      BY <2>1
    <3> HIDE DEF asked
    <3>6. QED
      BY <3>3, <3>4, <3>5
  <2>2. CASE ~asks
    <3> HIDE DEF t, asks
    <3>1. asked = s
      BY <2>2
    <3> HIDE DEF asked
    <3>2. QED
      BY <1>2, <3>1
  <2>3. QED
    BY <2>1, <2>2
<1> HIDE DEF asked
<1>4. /\ left \subseteq asked.folded
      /\ left # {} => TimelineShown(asked) /\ left \subseteq CardKeys(asked.panel)
  OBVIOUS
<1> HIDE DEF left
<1>5. /\ r \in Desk
      /\ r.path = asked.path /\ r.url = asked.url /\ r.shown = asked.shown
      /\ r.asked = asked.asked /\ r.strayed = asked.strayed
      /\ r.panel = asked.panel /\ r.whole = asked.whole
      /\ r.queries = asked.queries /\ r.tab = asked.tab /\ r.folded = left
  BY <1>3, <1>4 DEF Desk
<1> HIDE DEF r
<1>6. TimelineShown(r) <=> TimelineShown(asked)
  BY <1>5 DEF TimelineShown
<1>7. r.folded # {} => TimelineShown(r) /\ r.folded \subseteq CardKeys(r.panel)
  BY <1>4, <1>5, <1>6
<1>8. /\ r.panel = IF opens THEN d.url ELSE d.panel
      /\ r.whole = IF opens THEN d.url \in Sheets[d.shown] ELSE d.whole
  BY <1>2, <1>3, <1>5
<1>9. \A c \in Ids : r.queries[c].data = d.queries[c].data
  BY <1>2, <1>3, <1>5
<1>10. QED
  BY <1>1, <1>2, <1>3, <1>5, <1>7, <1>8, <1>9

\* What is drawn after a change that leaves the page ready is right.
LEMMA DrawnKeeps ==
  ASSUME NEW d, Ready(d), PanelDo(d)
  PROVE  PanelInv'
<1>1. PICK stale \in BOOLEAN : desk' = PanelDrawn(d, stale)
  BY DEF PanelDo
<1> DEFINE r == PanelDrawn(d, stale)
           opens == /\ Route(d.url) = "contractDetail" /\ d.shown # 0
                    /\ d.panel = NoContract
<1>2. d \in Desk
  BY DEF Ready
<1>3. /\ r \in Desk
      /\ r.path = d.path /\ r.url = d.url /\ r.shown = d.shown
      /\ r.asked = d.asked /\ r.strayed = d.strayed
      /\ r.panel = IF opens THEN d.url ELSE d.panel
      /\ r.whole = IF opens THEN d.url \in Sheets[d.shown] ELSE d.whole
      /\ \A c \in Ids : r.queries[c].data = d.queries[c].data
      /\ r.folded # {} => TimelineShown(r) /\ r.folded \subseteq CardKeys(r.panel)
  BY <1>2, DrawnFacts
<1>4. d.url \in Paths /\ d.path \in Paths /\ d.panel \in Ids \cup {NoContract}
      /\ d.shown \in DOMAIN Sheets \cup {0} /\ d.whole \in BOOLEAN
  BY <1>2 DEF Desk
<1>5. opens => d.url # NoContract
  BY <1>4, RouteFacts
<1>6. opens => d.shown = 1
  BY <1>4 DEF Ready
<1> HIDE DEF r
<1>7. Ready(r)
  <2>1. r.panel # NoContract => Route(r.path) = "contractDetail" /\ r.shown # 0
    BY <1>3 DEF Ready
  <2>2. ~r.strayed => r.path = (IF r.panel = NoContract THEN r.url ELSE r.panel)
    BY <1>3, <1>5 DEF Ready
  <2>3. r.panel # NoContract /\ ~r.whole => r.panel = r.url /\ r.panel \notin Sheets[1]
    <3>1. CASE opens
      BY <1>3, <1>6, <3>1
    <3>2. CASE ~opens
      BY <1>3, <3>2 DEF Ready
    <3>3. QED
      BY <3>1, <3>2
  <2>4. r.shown = 0 => r.asked = 1
    BY <1>3 DEF Ready
  <2>5. r.panel = NoContract /\ Route(r.path) = "contractDetail" => r.shown \in {0, 1}
    BY <1>3, <1>5 DEF Ready
  <2>6. \A c \in Ids : r.queries[c].data => c \in DOMAIN Histories
    BY <1>3 DEF Ready
  <2>7. Route(r.url) = Route(r.path)
    BY <1>3 DEF Ready
  <2>8. QED
    BY <1>3, <2>1, <2>2, <2>3, <2>4, <2>5, <2>6, <2>7 DEF Ready
<1>8. r.panel = NoContract /\ Route(r.path) = "contractDetail" => r.shown = 0
  BY <1>3, <1>5 DEF Ready
<1>9. desk' = r
  BY <1>1 DEF r
<1> HIDE DEF r
<1>10. QED
  BY <1>3, <1>7, <1>8, <1>9 DEF PanelInv, Ready, TimelineShown

\* Sequence numbers of pages.
LEMMA SheetFacts ==
  /\ 1 \in DOMAIN Sheets /\ 0 \notin DOMAIN Sheets
  /\ \A s \in DOMAIN Sheets : Sheets[s] \subseteq Ids
<1> DEFINE X == SUBSET DOMAIN Histories
           x == Sheets
<1>1. x \in Seq(X) /\ x # <<>>
  BY PanelConstantsOK
<1>2. \A s \in X : s \subseteq Ids
  BY DEF Ids
<1> HIDE DEF x, X
<1>3. Len(x) \in Nat /\ DOMAIN x = 1..Len(x) /\ Len(x) # 0
  BY <1>1, LenProperties, EmptySeq
<1>4. 1 \in DOMAIN x /\ 0 \notin DOMAIN x
  BY <1>3
<1>5. \A s \in DOMAIN x : x[s] \in X
  BY <1>1, <1>3, ElementOfSeq
<1>6. QED
  BY <1>2, <1>4, <1>5 DEF x

\* A desk that differs in none of what makes it ready is ready.
LEMMA ReadyAs ==
  ASSUME NEW d \in Desk, NEW e, Ready(e),
         d.path = e.path, d.url = e.url, d.panel = e.panel, d.whole = e.whole,
         d.shown = e.shown, d.asked = e.asked, d.strayed = e.strayed,
         \A c \in Ids : d.queries[c].data => c \in DOMAIN Histories
  PROVE  Ready(d)
BY DEF Ready

\* The user's click is counted.
LEMMA BusyFacts ==
  ASSUME desk \in Desk
  PROVE  /\ Busy \in Desk
         /\ Busy.path = desk.path /\ Busy.url = desk.url /\ Busy.behind = desk.behind
         /\ Busy.asked = desk.asked /\ Busy.shown = desk.shown /\ Busy.got = desk.got
         /\ Busy.panel = desk.panel /\ Busy.whole = desk.whole /\ Busy.tab = desk.tab
         /\ Busy.queries = desk.queries /\ Busy.folded = desk.folded
         /\ Busy.strayed = desk.strayed
BY DEF Busy, Desk

\* What an address does to the page.
LEMMA VisitedFacts ==
  ASSUME NEW d \in Desk, NEW path \in Paths
  PROVE  LET v == Visited(d, path)
         IN /\ v \in Desk /\ v.path = path /\ v.queries = d.queries
            /\ Route(path) = Route(d.path) =>
                 /\ v.url = d.url /\ v.panel = d.panel /\ v.whole = d.whole
                 /\ v.asked = d.asked /\ v.shown = d.shown /\ v.strayed = d.strayed
            /\ Route(path) # Route(d.path) =>
                 /\ v.url = path /\ v.panel = NoContract /\ v.strayed = FALSE
                 /\ v.asked = 1 /\ v.shown \in {0, 1}
<1> DEFINE first == IF 1 \in d.got /\ path # OtherPage THEN 1 ELSE 0
           same == [d EXCEPT !.path = path]
           anew == [d EXCEPT !.path = path, !.url = path, !.asked = 1,
                             !.shown = first, !.panel = NoContract, !.whole = FALSE,
                             !.tab = "details", !.strayed = FALSE]
<1>1. first \in {0, 1} /\ 1 \in DOMAIN Sheets
  BY SheetFacts
<1> HIDE DEF first
<1>2. /\ same \in Desk /\ same.path = path /\ same.queries = d.queries
      /\ same.url = d.url /\ same.panel = d.panel /\ same.whole = d.whole
      /\ same.asked = d.asked /\ same.shown = d.shown /\ same.strayed = d.strayed
  BY DEF Desk
<1>3. /\ anew \in Desk /\ anew.path = path /\ anew.queries = d.queries
      /\ anew.url = path /\ anew.panel = NoContract /\ anew.strayed = FALSE
      /\ anew.asked = 1 /\ anew.shown = first
  BY <1>1 DEF Desk
<1>4. Visited(d, path) = IF Route(path) = Route(d.path) THEN same ELSE anew
  BY DEF Visited, first
<1> HIDE DEF same, anew
<1>5. QED
  BY <1>1, <1>2, <1>3, <1>4

\* A page that is mounted anew is ready.
LEMMA MountedReady ==
  ASSUME NEW d \in Desk, NEW path \in Paths, Route(path) # Route(d.path),
         \A c \in Ids : d.queries[c].data => c \in DOMAIN Histories
  PROVE  Ready(Visited(d, path))
<1> DEFINE v == Visited(d, path)
<1>1. /\ v \in Desk /\ v.path = path /\ v.queries = d.queries
      /\ v.url = path /\ v.panel = NoContract /\ v.strayed = FALSE
      /\ v.asked = 1 /\ v.shown \in {0, 1}
  BY VisitedFacts
<1> HIDE DEF v
<1>2. Ready(v)
  BY <1>1 DEF Ready
<1>3. QED
  BY <1>2 DEF v

-----------------------------------------------------------------------------
LEMMA KeptBySheetArrives ==
  ASSUME PanelInv, SheetArrives
  PROVE  PanelInv'
<1> DEFINE d == [desk EXCEPT !.got = @ \cup {desk.asked}, !.shown = desk.asked]
<1>1. Ready(desk) /\ desk \in Desk
  BY DEF PanelInv, Ready
<1>2. /\ d \in Desk
      /\ d.path = desk.path /\ d.url = desk.url /\ d.panel = desk.panel
      /\ d.whole = desk.whole /\ d.asked = desk.asked /\ d.strayed = desk.strayed
      /\ d.queries = desk.queries /\ d.shown = desk.asked
  BY <1>1 DEF Desk
<1>3. desk.asked # 0
  BY <1>1, SheetFacts DEF Desk
<1>4. PanelDo(d)
  BY DEF SheetArrives
<1> HIDE DEF d
<1>5. Ready(d)
  BY <1>1, <1>2, <1>3 DEF Ready, PanelInv
<1>6. QED
  BY <1>4, <1>5, DrawnKeeps

LEMMA KeptByTurnSheet ==
  ASSUME PanelInv, TurnSheet
  PROVE  PanelInv'
<1>1. PICK s \in DOMAIN Sheets \ {desk.asked} :
        PanelDo([Busy EXCEPT !.asked = s, !.shown = IF s \in desk.got THEN s ELSE @])
  BY DEF TurnSheet
<1> DEFINE d == [Busy EXCEPT !.asked = s, !.shown = IF s \in desk.got THEN s ELSE @]
           kept == IF s \in desk.got THEN s ELSE Busy.shown
<1>2. Ready(desk) /\ desk \in Desk /\ desk.shown # 0
  BY DEF PanelInv, Ready, TurnSheet
<1>3. /\ Busy \in Desk
      /\ Busy.path = desk.path /\ Busy.url = desk.url /\ Busy.panel = desk.panel
      /\ Busy.whole = desk.whole /\ Busy.strayed = desk.strayed
      /\ Busy.queries = desk.queries /\ Busy.shown = desk.shown
  BY <1>2, BusyFacts
<1>4. kept \in DOMAIN Sheets /\ kept # 0
  BY <1>2, <1>3, SheetFacts DEF Desk
<1>5. d = [Busy EXCEPT !.asked = s, !.shown = kept]
  BY <1>3 DEF Desk
<1> HIDE DEF kept, d
<1>6. /\ d \in Desk
      /\ d.path = desk.path /\ d.url = desk.url /\ d.panel = desk.panel
      /\ d.whole = desk.whole /\ d.strayed = desk.strayed
      /\ d.queries = desk.queries /\ d.shown = kept
  BY <1>3, <1>4, <1>5 DEF Desk
<1>7. Ready(d)
  BY <1>2, <1>4, <1>6 DEF Ready, PanelInv
<1>8. QED
  BY <1>1, <1>7, DrawnKeeps DEF d

LEMMA KeptBySelectContract ==
  ASSUME PanelInv, SelectContract
  PROVE  PanelInv'
<1>1. PICK c \in RowsOffered :
        PanelDo(Visited([Busy EXCEPT !.panel = c, !.whole = TRUE, !.strayed = FALSE], c))
  BY DEF SelectContract
<1> DEFINE d == [Busy EXCEPT !.panel = c, !.whole = TRUE, !.strayed = FALSE]
           v == Visited(d, c)
<1>2. Ready(desk) /\ desk \in Desk
  BY DEF PanelInv, Ready
<1>3. desk.shown # 0 /\ c \in Ids /\ c \in Paths /\ c # NoContract
  <2>1. desk.shown # 0 /\ c \in Sheets[desk.shown]
    BY DEF RowsOffered
  <2>2. c \in Ids
    BY <1>2, <2>1, SheetFacts DEF Desk
  <2>3. c \in Paths
    BY <2>2 DEF Paths
  <2>4. QED
    BY <2>1, <2>2, <2>3, RouteFacts
<1>4. /\ Busy \in Desk
      /\ Busy.path = desk.path /\ Busy.url = desk.url /\ Busy.shown = desk.shown
      /\ Busy.asked = desk.asked /\ Busy.queries = desk.queries
  BY <1>2, BusyFacts
<1>5. /\ d \in Desk
      /\ d.path = desk.path /\ d.url = desk.url /\ d.shown = desk.shown
      /\ d.asked = desk.asked /\ d.queries = desk.queries
      /\ d.panel = c /\ d.whole = TRUE /\ d.strayed = FALSE
  BY <1>3, <1>4 DEF Desk
<1>6. PanelDo(v)
  BY <1>1
<1> HIDE DEF d
<1>7. CASE Route(c) = Route(d.path)
  <2>1. /\ v \in Desk /\ v.path = c /\ v.queries = d.queries
        /\ v.url = d.url /\ v.panel = d.panel /\ v.whole = d.whole
        /\ v.asked = d.asked /\ v.shown = d.shown /\ v.strayed = d.strayed
    BY <1>3, <1>5, <1>7, VisitedFacts
  <2>2. Route(c) = "contractDetail"
    BY <1>3, RouteFacts
  <2> HIDE DEF v
  <2>3. Ready(v)
    BY <1>2, <1>3, <1>5, <1>7, <2>1, <2>2 DEF Ready
  <2>4. QED
    BY <1>6, <2>3, DrawnKeeps
<1>8. CASE Route(c) # Route(d.path)
  <2>1. \A e \in Ids : d.queries[e].data => e \in DOMAIN Histories
    BY <1>2, <1>5 DEF Ready
  <2>2. Ready(v)
    BY <1>3, <1>5, <1>8, <2>1, MountedReady
  <2> HIDE DEF v
  <2>3. QED
    BY <1>6, <2>2, DrawnKeeps
<1>9. QED
  BY <1>7, <1>8

LEMMA KeptByCloseDetail ==
  ASSUME PanelInv, CloseDetail
  PROVE  PanelInv'
<1> DEFINE d == [Busy EXCEPT !.panel = NoContract]
           v == Visited(d, NoContract)
<1>1. Ready(desk) /\ desk \in Desk /\ desk.panel # NoContract /\ PanelDo(v)
  BY DEF PanelInv, Ready, CloseDetail
<1>2. Busy \in Desk /\ Busy.path = desk.path /\ Busy.queries = desk.queries
  BY <1>1, BusyFacts
<1>3. d \in Desk /\ d.path = desk.path /\ d.queries = desk.queries
  BY <1>2 DEF Desk
<1> HIDE DEF d
<1>4. NoContract \in Paths
  BY DEF Paths
<1>5. Route(NoContract) # Route(d.path)
  <2>1. Route(d.path) = "contractDetail"
    BY <1>1, <1>3 DEF Ready
  <2>2. Route(NoContract) = "contracts"
    BY <1>4, RouteFacts
  <2>3. QED
    BY <2>1, <2>2
<1>6. \A e \in Ids : d.queries[e].data => e \in DOMAIN Histories
  BY <1>1, <1>3 DEF Ready
<1>7. Ready(v)
  BY <1>3, <1>4, <1>5, <1>6, MountedReady
<1> HIDE DEF v
<1>8. QED
  BY <1>1, <1>7, DrawnKeeps

LEMMA KeptByOpenTab ==
  ASSUME PanelInv, OpenTab
  PROVE  PanelInv'
<1>1. PICK tab \in {"details", "lifecycle"} \ {desk.tab} : PanelDo([Busy EXCEPT !.tab = tab])
  BY DEF OpenTab
<1> DEFINE d == [Busy EXCEPT !.tab = tab]
<1>2. Ready(desk) /\ desk \in Desk
  BY DEF PanelInv, Ready
<1>3. /\ Busy \in Desk
      /\ Busy.path = desk.path /\ Busy.url = desk.url /\ Busy.panel = desk.panel
      /\ Busy.whole = desk.whole /\ Busy.shown = desk.shown /\ Busy.asked = desk.asked
      /\ Busy.strayed = desk.strayed /\ Busy.queries = desk.queries
  BY <1>2, BusyFacts
<1>4. /\ d \in Desk
      /\ d.path = desk.path /\ d.url = desk.url /\ d.panel = desk.panel
      /\ d.whole = desk.whole /\ d.shown = desk.shown /\ d.asked = desk.asked
      /\ d.strayed = desk.strayed /\ d.queries = desk.queries
  BY <1>3 DEF Desk
<1>5. PanelDo(d)
  BY <1>1
<1> HIDE DEF d
<1>6. Ready(d)
  BY <1>2, <1>4 DEF Ready
<1>7. QED
  BY <1>5, <1>6, DrawnKeeps

\* Only a contract has a history.
LEMMA KeptByLifecycleAnswered ==
  ASSUME PanelInv, LifecycleAnswered
  PROVE  PanelInv'
<1>1. PICK c \in Ids : \E found \in IF c \in Strangers THEN {FALSE} ELSE BOOLEAN :
        LET q == [data |-> desk.queries[c].data \/ found, failed |-> ~found,
                  asking |-> FALSE]
        IN PanelDo([desk EXCEPT !.queries[c] = q])
  BY DEF LifecycleAnswered
<1>2. PICK found \in IF c \in Strangers THEN {FALSE} ELSE BOOLEAN :
        LET q == [data |-> desk.queries[c].data \/ found, failed |-> ~found,
                  asking |-> FALSE]
        IN PanelDo([desk EXCEPT !.queries[c] = q])
  BY <1>1
<1> DEFINE has == desk.queries[c].data \/ found
           q == [data |-> has, failed |-> ~found, asking |-> FALSE]
           d == [desk EXCEPT !.queries[c] = q]
<1>3. PanelDo(d)
  BY <1>2
<1>4. Ready(desk) /\ desk \in Desk
  BY DEF PanelInv, Ready
<1>5. desk.queries \in [Ids -> PanelQuery] /\ desk.queries[c].data \in BOOLEAN
  BY <1>4 DEF Desk, PanelQuery
<1>6. q \in PanelQuery /\ has \in BOOLEAN
  BY <1>5 DEF PanelQuery
<1>7. has => c \in DOMAIN Histories
  <2>1. found => ~(c \in Strangers)
    OBVIOUS
  <2>2. c \in Strangers \/ c \in DOMAIN Histories
    BY DEF Ids
  <2>3. desk.queries[c].data => c \in DOMAIN Histories
    BY <1>4 DEF Ready
  <2>4. QED
    BY <2>1, <2>2, <2>3
<1>8. q.data = has
  OBVIOUS
<1> HIDE DEF q
<1> DEFINE queries == [desk.queries EXCEPT ![c] = q]
<1>9. queries \in [Ids -> PanelQuery] /\ queries[c] = q
      /\ \A e \in Ids \ {c} : queries[e] = desk.queries[e]
  BY <1>5, <1>6
<1>10. d = [desk EXCEPT !.queries = queries]
  BY <1>4 DEF Desk
<1> HIDE DEF queries, d
<1>11. /\ d \in Desk
       /\ d.path = desk.path /\ d.url = desk.url /\ d.panel = desk.panel
       /\ d.whole = desk.whole /\ d.shown = desk.shown /\ d.asked = desk.asked
       /\ d.strayed = desk.strayed /\ d.queries = queries
  BY <1>4, <1>9, <1>10 DEF Desk, PanelQuery
<1>12. \A e \in Ids : d.queries[e].data => e \in DOMAIN Histories
  <2> SUFFICES ASSUME NEW e \in Ids, d.queries[e].data
        PROVE  e \in DOMAIN Histories
    OBVIOUS
  <2> HIDE DEF has
  <2>1. CASE e = c
    BY <1>7, <1>8, <1>9, <1>11, <2>1
  <2>2. CASE e # c
    BY <1>4, <1>9, <1>11, <2>2 DEF Ready
  <2>3. QED
    BY <2>1, <2>2
<1>13. Ready(d)
  BY <1>4, <1>11, <1>12, ReadyAs
<1>14. QED
  BY <1>3, <1>13, DrawnKeeps

LEMMA KeptByFoldCard ==
  ASSUME PanelInv, FoldCard
  PROVE  PanelInv'
<1>1. PICK key \in CardKeys(desk.panel) :
        PanelDo([Busy EXCEPT !.folded = IF key \in @ THEN @ \ {key} ELSE @ \cup {key}])
  BY DEF FoldCard
<1> DEFINE old == Busy.folded
           new == IF key \in old THEN old \ {key} ELSE old \cup {key}
           d == [Busy EXCEPT !.folded = new]
<1>2. Ready(desk) /\ desk \in Desk /\ TimelineShown(desk)
  BY DEF PanelInv, Ready, FoldCard
<1>3. /\ Busy \in Desk
      /\ Busy.path = desk.path /\ Busy.url = desk.url /\ Busy.panel = desk.panel
      /\ Busy.whole = desk.whole /\ Busy.shown = desk.shown /\ Busy.asked = desk.asked
      /\ Busy.strayed = desk.strayed /\ Busy.queries = desk.queries
  BY <1>2, BusyFacts
<1>4. desk.panel \in DOMAIN Histories
  BY <1>2 DEF TimelineShown, Ready, Desk
<1> DEFINE All == UNION {CardKeys(c) : c \in DOMAIN Histories}
<1>5. key \in All /\ old \subseteq All
  <2>1. key \in All
    BY <1>4
  <2>2. old \subseteq All
    BY <1>3 DEF Desk
  <2>3. QED
    BY <2>1, <2>2
<1>6. PanelDo(d)
  <2>1. d = [Busy EXCEPT !.folded = IF key \in @ THEN @ \ {key} ELSE @ \cup {key}]
    BY <1>3 DEF Desk
  <2> HIDE DEF d
  <2>2. QED
    BY <1>1, <2>1
<1>7. new \subseteq All
  <2> HIDE DEF All, old
  <2>1. QED
    BY <1>5
<1> HIDE DEF new
<1>8. /\ d \in Desk
      /\ d.path = desk.path /\ d.url = desk.url /\ d.panel = desk.panel
      /\ d.whole = desk.whole /\ d.shown = desk.shown /\ d.asked = desk.asked
      /\ d.strayed = desk.strayed /\ d.queries = desk.queries
  BY <1>3, <1>7 DEF Desk
<1> HIDE DEF d
<1>9. Ready(d)
  BY <1>2, <1>8 DEF Ready
<1>10. QED
  BY <1>6, <1>9, DrawnKeeps

\* An address is kept for the browser's button.
LEMMA BehindFacts ==
  ASSUME desk \in Desk, desk.path # OtherPage
  PROVE  Append(desk.behind, desk.path) \in Seq(Ids \cup {NoContract})
<1> DEFINE P == Ids \cup {NoContract}
           b == desk.behind
           p == desk.path
<1>1. b \in Seq(P) /\ p \in P
  BY DEF Desk, Paths
<1> HIDE DEF P, b, p
<1>2. Append(b, p) \in Seq(P)
  BY <1>1, AppendProperties
<1>3. QED
  BY <1>2 DEF P, b, p

\* A history that is shown is a contract's, on the page of contracts.
LEMMA ShownFacts ==
  ASSUME Ready(desk), TimelineShown(desk)
  PROVE  /\ desk.panel \in DOMAIN Histories /\ desk.panel # NoContract
         /\ Route(desk.path) = "contractDetail" /\ desk.path # OtherPage
<1>1. desk.panel # NoContract /\ desk.path \in Paths
      /\ desk.panel \in Ids /\ desk.queries[desk.panel].data
  BY DEF TimelineShown, Ready, Desk
<1>2. desk.panel \in DOMAIN Histories /\ Route(desk.path) = "contractDetail"
  BY <1>1 DEF Ready
<1>3. QED
  BY <1>1, <1>2, RouteFacts

LEMMA KeptByFollowChild ==
  ASSUME PanelInv, FollowChild
  PROVE  PanelInv'
<1>1. Ready(desk) /\ desk \in Desk /\ TimelineShown(desk)
  BY DEF PanelInv, Ready, FollowChild
<1>2. /\ desk.panel \in DOMAIN Histories /\ desk.panel # NoContract
      /\ Route(desk.path) = "contractDetail" /\ desk.path # OtherPage
  BY <1>1, ShownFacts
<1>3. PICK i \in DOMAIN OpenCards : \E c \in OpenCards[i].children :
        PanelDo(Visited(IF c = desk.path THEN Busy
                        ELSE [Busy EXCEPT !.behind = Append(@, desk.path),
                                          !.strayed = TRUE], c))
  BY DEF FollowChild
<1>4. PICK c \in OpenCards[i].children :
        PanelDo(Visited(IF c = desk.path THEN Busy
                        ELSE [Busy EXCEPT !.behind = Append(@, desk.path),
                                          !.strayed = TRUE], c))
  BY <1>3
<1>5. c \in Ids /\ c \in Paths
  <2>1. c \in Ids
    BY <1>2, CardsLead DEF OpenCards
  <2>2. QED
    BY <2>1 DEF Paths
<1>6. Route(c) = "contractDetail"
  BY <1>5, RouteFacts
<1>7. /\ Busy \in Desk
      /\ Busy.path = desk.path /\ Busy.url = desk.url /\ Busy.behind = desk.behind
      /\ Busy.panel = desk.panel /\ Busy.whole = desk.whole /\ Busy.shown = desk.shown
      /\ Busy.asked = desk.asked /\ Busy.strayed = desk.strayed
      /\ Busy.queries = desk.queries
  BY <1>1, BusyFacts
<1>8. CASE c = desk.path
  <2> DEFINE v == Visited(Busy, c)
  <2>1. /\ v \in Desk /\ v.path = c /\ v.queries = Busy.queries
        /\ v.url = Busy.url /\ v.panel = Busy.panel /\ v.whole = Busy.whole
        /\ v.asked = Busy.asked /\ v.shown = Busy.shown /\ v.strayed = Busy.strayed
    BY <1>5, <1>7, <1>8, VisitedFacts
  <2>2. PanelDo(v)
    BY <1>4, <1>8
  <2> HIDE DEF v
  <2>3. Ready(v)
    BY <1>1, <1>7, <1>8, <2>1 DEF Ready
  <2>4. QED
    BY <2>2, <2>3, DrawnKeeps
<1>9. CASE c # desk.path
  <2> DEFINE further == Append(desk.behind, desk.path)
             d == [Busy EXCEPT !.behind = further, !.strayed = TRUE]
             v == Visited(d, c)
  <2>1. further \in Seq(Ids \cup {NoContract})
    BY <1>1, <1>2, BehindFacts
  <2>2. PanelDo(v)
    <3>1. d = [Busy EXCEPT !.behind = Append(@, desk.path), !.strayed = TRUE]
      BY <1>7 DEF Desk
    <3> HIDE DEF d
    <3>2. QED
      BY <1>4, <1>9, <3>1
  <2> HIDE DEF further
  <2>3. /\ d \in Desk
        /\ d.path = desk.path /\ d.url = desk.url /\ d.panel = desk.panel
        /\ d.whole = desk.whole /\ d.shown = desk.shown /\ d.asked = desk.asked
        /\ d.strayed = TRUE /\ d.queries = desk.queries
    BY <1>7, <2>1 DEF Desk
  <2> HIDE DEF d
  <2>4. /\ v \in Desk /\ v.path = c /\ v.queries = d.queries
        /\ v.url = d.url /\ v.panel = d.panel /\ v.whole = d.whole
        /\ v.asked = d.asked /\ v.shown = d.shown /\ v.strayed = d.strayed
    <3>1. Route(c) = Route(d.path)
      BY <1>2, <1>6, <2>3
    <3>2. QED
      BY <1>5, <2>3, <3>1, VisitedFacts
  <2> HIDE DEF v
  <2>5. Ready(v)
    BY <1>1, <1>2, <1>6, <2>3, <2>4 DEF Ready
  <2>6. QED
    BY <2>2, <2>5, DrawnKeeps
<1>10. QED
  BY <1>8, <1>9

LEMMA KeptByFollowUpdate ==
  ASSUME PanelInv, FollowUpdate
  PROVE  PanelInv'
<1>1. Ready(desk) /\ desk \in Desk /\ TimelineShown(desk)
  BY DEF PanelInv, Ready, FollowUpdate
<1>2. Route(desk.path) = "contractDetail" /\ desk.path # OtherPage
  BY <1>1, ShownFacts
<1> DEFINE further == Append(desk.behind, desk.path)
           left == [Busy EXCEPT !.behind = further]
           none == [c \in Ids |-> Unasked]
           fresh == [left EXCEPT !.got = {}, !.queries = none]
<1>3. /\ Busy \in Desk /\ Busy.path = desk.path /\ Busy.behind = desk.behind
      /\ Busy.queries = desk.queries
  BY <1>1, BusyFacts
<1>4. PanelDo(Visited(left, OtherPage)) \/ PanelDo(Visited(fresh, OtherPage))
  <2>1. left = [Busy EXCEPT !.behind = Append(@, desk.path)]
    BY <1>3 DEF Desk
  <2> HIDE DEF left
  <2>2. PICK i \in DOMAIN OpenCards :
          CASE OpenCards[i].link = "update" -> PanelDo(Visited(left, OtherPage))
            [] OpenCards[i].link = "offset" -> PanelDo(Visited(fresh, OtherPage))
            [] OTHER -> FALSE
    BY <2>1 DEF FollowUpdate
  <2> HIDE DEF fresh
  <2>3. QED
    BY <2>2
<1>5. further \in Seq(Ids \cup {NoContract})
  BY <1>1, <1>2, BehindFacts
<1>6. none \in [Ids -> PanelQuery] /\ \A c \in Ids : none[c].data = FALSE
  BY DEF Unasked, PanelQuery
<1> HIDE DEF further, none
<1>7. left \in Desk /\ left.path = desk.path /\ left.queries = desk.queries
  BY <1>3, <1>5 DEF Desk
<1> HIDE DEF left
<1>8. fresh \in Desk /\ fresh.path = desk.path /\ fresh.queries = none
  BY <1>6, <1>7 DEF Desk, PanelQuery
<1> HIDE DEF fresh
<1>9. OtherPage \in Paths
  BY DEF Paths
<1>10. Route(OtherPage) # Route(desk.path)
  BY <1>2, <1>9, RouteFacts
<1>11. Ready(Visited(left, OtherPage))
  <2>1. \A e \in Ids : left.queries[e].data => e \in DOMAIN Histories
    BY <1>1, <1>7 DEF Ready
  <2>2. QED
    BY <1>7, <1>9, <1>10, <2>1, MountedReady
<1>12. Ready(Visited(fresh, OtherPage))
  <2>1. \A e \in Ids : fresh.queries[e].data => e \in DOMAIN Histories
    BY <1>6, <1>8
  <2>2. QED
    BY <1>8, <1>9, <1>10, <2>1, MountedReady
<1>13. QED
  BY <1>4, <1>11, <1>12, DrawnKeeps

LEMMA KeptByGoBack ==
  ASSUME PanelInv, GoBack
  PROVE  PanelInv'
<1> DEFINE last == Len(desk.behind)
           path == desk.behind[last]
           rest == SubSeq(desk.behind, 1, last - 1)
           led == desk.strayed \/ path # desk.path
           d == [Busy EXCEPT !.behind = rest, !.strayed = led]
           v == Visited(d, path)
<1>1. Ready(desk) /\ desk \in Desk /\ desk.behind # <<>>
  BY DEF PanelInv, Ready, GoBack
<1>2. /\ Busy \in Desk
      /\ Busy.path = desk.path /\ Busy.url = desk.url /\ Busy.behind = desk.behind
      /\ Busy.panel = desk.panel /\ Busy.whole = desk.whole /\ Busy.shown = desk.shown
      /\ Busy.asked = desk.asked /\ Busy.strayed = desk.strayed
      /\ Busy.queries = desk.queries
  BY <1>1, BusyFacts
<1>3. PanelDo(v)
  <2>1. d = [Busy EXCEPT !.behind = SubSeq(@, 1, last - 1),
                         !.strayed = @ \/ path # desk.path]
    BY <1>2 DEF Desk
  <2> HIDE DEF d
  <2>2. QED
    BY <2>1 DEF GoBack
<1>4. path \in Ids \cup {NoContract} /\ rest \in Seq(Ids \cup {NoContract})
  <2> DEFINE P == Ids \cup {NoContract}
             b == desk.behind
  <2>1. b \in Seq(P) /\ b # <<>>
    BY <1>1 DEF Desk
  <2> HIDE DEF P, b
  <2>2. Len(b) \in Nat /\ Len(b) # 0 /\ DOMAIN b = 1..Len(b)
    BY <2>1, LenProperties, EmptySeq
  <2>3. b[Len(b)] \in P
    BY <2>1, <2>2, ElementOfSeq
  <2>4. SubSeq(b, 1, Len(b) - 1) \in Seq(P)
    <3>1. \A j \in 1..(Len(b) - 1) : b[j] \in P
      BY <2>1, <2>2, ElementOfSeq
    <3>2. QED
      BY <2>1, <2>2, <3>1, SubSeqProperties
  <2>5. QED
    BY <2>3, <2>4 DEF P, b
<1>5. led \in BOOLEAN /\ path \in Paths
  BY <1>4 DEF Paths
<1>6. ~led => ~desk.strayed /\ path = desk.path
  OBVIOUS
<1> HIDE DEF path, rest, led
<1>7. /\ d \in Desk
      /\ d.path = desk.path /\ d.url = desk.url /\ d.panel = desk.panel
      /\ d.whole = desk.whole /\ d.shown = desk.shown /\ d.asked = desk.asked
      /\ d.strayed = led /\ d.queries = desk.queries
  BY <1>2, <1>4, <1>5 DEF Desk
<1> HIDE DEF d
<1>8. CASE Route(path) = Route(d.path)
  <2>1. /\ v \in Desk /\ v.path = path /\ v.queries = d.queries
        /\ v.url = d.url /\ v.panel = d.panel /\ v.whole = d.whole
        /\ v.asked = d.asked /\ v.shown = d.shown /\ v.strayed = d.strayed
    BY <1>5, <1>7, <1>8, VisitedFacts
  <2> HIDE DEF v
  <2>2. Ready(v)
    BY <1>1, <1>6, <1>7, <1>8, <2>1 DEF Ready
  <2>3. QED
    BY <1>3, <2>2, DrawnKeeps
<1>9. CASE Route(path) # Route(d.path)
  <2>1. \A e \in Ids : d.queries[e].data => e \in DOMAIN Histories
    BY <1>1, <1>7 DEF Ready
  <2>2. Ready(v)
    BY <1>5, <1>7, <1>9, <2>1, MountedReady
  <2> HIDE DEF v
  <2>3. QED
    BY <1>3, <2>2, DrawnKeeps
<1>10. QED
  BY <1>8, <1>9

-----------------------------------------------------------------------------
LEMMA PanelInit ==
  ASSUME ContractsInit(TRUE)
  PROVE  PanelInv
<1>1. PICK path \in Ids \cup {NoContract} :
        desk = [path |-> path, url |-> path, behind |-> <<>>,
                asked |-> 1, shown |-> 0, got |-> {},
                panel |-> NoContract, whole |-> FALSE, tab |-> "details",
                queries |-> [c \in Ids |-> Unasked], folded |-> {},
                strayed |-> FALSE, clicks |-> 0]
  BY DEF ContractsInit
<1> DEFINE none == [c \in Ids |-> Unasked]
<1>2. none \in [Ids -> PanelQuery] /\ \A c \in Ids : none[c].data = FALSE
  BY DEF Unasked, PanelQuery
<1>3. path \in Paths /\ 1 \in DOMAIN Sheets
  BY SheetFacts DEF Paths
<1> HIDE DEF none
<1>4. desk = [path |-> path, url |-> path, behind |-> <<>>,
              asked |-> 1, shown |-> 0, got |-> {},
              panel |-> NoContract, whole |-> FALSE, tab |-> "details",
              queries |-> none, folded |-> {},
              strayed |-> FALSE, clicks |-> 0]
  BY <1>1 DEF none
<1>5. desk \in Desk
  BY <1>2, <1>3, <1>4 DEF Desk, PanelQuery
<1>6. /\ desk.path = path /\ desk.url = path /\ desk.asked = 1 /\ desk.shown = 0
      /\ desk.panel = NoContract /\ desk.queries = none /\ desk.folded = {}
      /\ desk.strayed = FALSE
  BY <1>4
<1>7. Ready(desk)
  BY <1>2, <1>5, <1>6 DEF Ready
<1>8. QED
  BY <1>6, <1>7 DEF PanelInv

LEMMA PanelStep ==
  ASSUME PanelInv, [ContractsNext]_contractsVars
  PROVE  PanelInv'
<1>1. CASE SheetArrives
  BY <1>1, KeptBySheetArrives
<1>2. CASE TurnSheet
  BY <1>2, KeptByTurnSheet
<1>3. CASE SelectContract
  BY <1>3, KeptBySelectContract
<1>4. CASE CloseDetail
  BY <1>4, KeptByCloseDetail
<1>5. CASE OpenTab
  BY <1>5, KeptByOpenTab
<1>6. CASE LifecycleAnswered
  BY <1>6, KeptByLifecycleAnswered
<1>7. CASE FoldCard
  BY <1>7, KeptByFoldCard
<1>8. CASE FollowChild
  BY <1>8, KeptByFollowChild
<1>9. CASE FollowUpdate
  BY <1>9, KeptByFollowUpdate
<1>10. CASE GoBack
  BY <1>10, KeptByGoBack
<1>11. CASE UNCHANGED contractsVars
  <2>1. desk' = desk
    BY <1>11 DEF contractsVars
  <2>2. QED
    BY <2>1 DEF PanelInv, Ready, TimelineShown
<1>12. QED
  BY <1>1, <1>2, <1>3, <1>4, <1>5, <1>6, <1>7, <1>8, <1>9, <1>10, <1>11
  DEF ContractsNext

\* What the panel shows follows the address.
LEMMA PanelGives ==
  ASSUME PanelInv
  PROVE  PanelFollows
<1>1. Ready(desk) /\ desk \in Desk
  BY DEF PanelInv, Ready
<1>2. desk.panel # NoContract <=> Route(desk.path) = "contractDetail" /\ desk.shown # 0
  BY <1>1 DEF PanelInv, Ready
<1>3. desk.panel # NoContract /\ ~desk.strayed => desk.panel = desk.path
  BY <1>1 DEF Ready
<1>4. desk.panel # NoContract /\ ~desk.whole =>
        desk.panel = desk.url /\ desk.panel \notin Sheets[1]
  BY <1>1 DEF Ready
<1>5. TimelineShown(desk) => desk.panel \in DOMAIN Histories
  BY <1>1, ShownFacts
<1>6. TimelineShown(desk) =>
        LET cards == LifecycleCards(Histories[desk.panel])
        IN /\ Cardinality(CardKeys(desk.panel)) = Len(cards)
           /\ \A i \in DOMAIN cards : cards[i].last <=> i = Len(cards)
  BY <1>5, CardsTold
<1>7. QED
  BY <1>2, <1>3, <1>4, <1>5, <1>6 DEF PanelInv, PanelFollows

\* The panel of the contracts page (handleSelectContract, handleCloseDetail,
\* handleNavigateContract, the effect on the route's parameter, the browser's
\* button) is open where a contract is addressed and shows the contract that is
\* addressed unless a link led on from it; the timeline it draws is a
\* contract's, with cards of different keys, and only its own cards are folded.
THEOREM PanelTheorem == PanelSpec => []PanelFollows
<1>1. ContractsInit(TRUE) => PanelInv
  BY PanelInit
<1>2. PanelInv /\ [ContractsNext]_contractsVars => PanelInv'
  BY PanelStep
<1>3. PanelInv => PanelFollows
  BY PanelGives
<1>4. QED
  BY <1>1, <1>2, <1>3, PTL DEF PanelSpec

\* A contract's history is told as the ledger has it, whatever the order in
\* which the answers of the participant come, and the page that shows it follows
\* the address (routes/contracts.ts, routes/workflows.ts, features/contracts).
THEOREM HistoryShownTheorem == HistorySpec /\ PanelSpec => []HistoryShown
<1>1. HistoryFollowed /\ PanelFollows => HistoryShown
  BY DEF HistoryShown
<1>2. QED
  BY <1>1, HistoryTheorem, PanelTheorem, PTL
=============================================================================
