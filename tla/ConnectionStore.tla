--------------------------- MODULE ConnectionStore ---------------------------
(***************************************************************************)
(* The browser's connection to a ledger: stores/connection-store.ts, the   *)
(* buttons that call it, the configuration it keeps in localStorage, and   *)
(* the gateway's session as the browser's requests change it.              *)
(*                                                                         *)
(* An asynchronous function of the store is a flow: every await is one     *)
(* request, which the gateway answers, fails or never sees.  The gateway's *)
(* own awaits are module Sessions; here a POST clears the session when it  *)
(* arrives and stores the new one before it answers.                       *)
(***************************************************************************)
EXTENDS Integers

CONSTANTS
  Participants,   \* ledgers one connects to by their endpoint
  Sandboxes,      \* sandboxes that may be created, one after the other
  MaxFlows,       \* bound: flows under way at the same time
  MaxRetries,     \* attempts of the sandbox page's connect button
  MaxMoves        \* bound: what users, the network and others do unasked,
                  \* counted twice while a request is under way

Flows   == 1..MaxFlows
Targets == Participants \cup Sandboxes
Nothing == "null"          \* no configuration, no bootstrap data, no session
Unknown == "unknown"       \* config = { ledgerApiEndpoint: "" }

\* A ledger has an endpoint.
ASSUME ConnectionConstantsOK ==
  /\ Nothing \notin Targets
  /\ MaxFlows \in Nat \ {0} /\ MaxMoves \in Nat /\ MaxRetries \in Nat \ {0}

VARIABLES
  app,        \* the store: status, config, bootstrap
  saved,      \* localStorage["cantontrace-connection"]
  flow,       \* flow[n]: a running function of the store and its request
  session,    \* the ledger of the gateway's session, or Nothing
  sandboxes,  \* the sandboxes that exist
  moves,      \* counts towards MaxMoves: buttons, page loads, faults
  disturbed   \* history: requests overlapped or were lost, see Disturb

connectionVars == <<app, saved, flow, session, sandboxes, moves, disturbed>>

App == [status    : {"disconnected", "connecting", "connected", "error"},
        config    : Targets \cup {Nothing, Unknown},
        bootstrap : Targets \cup {Nothing}]

FreshApp == [status |-> "disconnected", config |-> Nothing, bootstrap |-> Nothing]

\* at: what the flow awaits; answer: what became of its request.  found is
\* the bootstrap data (its ledger) that a GET or POST answered with.
Flow ==
  [kind   : {"none", "connect", "create", "check", "refresh", "delete", "page"},
   at     : {"none", "post", "create", "get", "verify", "delete", "timer"},
   target : Targets \cup {Nothing},
   tries  : 0..MaxRetries,
   answer : {"none", "working", "ok", "failed", "lost"},
   found  : Targets \cup {Nothing}]

NoFlow == [kind |-> "none", at |-> "none", target |-> Nothing, tries |-> 0,
           answer |-> "none", found |-> Nothing]

NewFlow(kind, at, target) ==
  [NoFlow EXCEPT !.kind = kind, !.at = at, !.target = target]

Awaiting(f, at) == [f EXCEPT !.at = at, !.answer = "none", !.found = Nothing]

CheckFlow == NewFlow("check", "get", Nothing)

\* A loaded page begins with checkExistingConnection.
ConnectionInit(loaded) ==
  /\ app = FreshApp
  /\ saved = Nothing
  /\ flow = [n \in Flows |-> IF n = 1 /\ loaded THEN CheckFlow ELSE NoFlow]
  /\ session = Nothing
  /\ sandboxes = {}
  /\ moves = 0
  /\ disturbed = FALSE

Running(n)   == flow[n].kind # "none"
Idle         == \A n \in Flows : ~Running(n)
Requesting   == \E n \in Flows : Running(n) /\ flow[n].at # "timer"
Free         == {n \in Flows : ~Running(n)}

\* Which of the free names a function gets tells nothing.
FirstFree    == {n \in Free : \A k \in Free : n <= k}

Move ==
  /\ moves' = moves + (IF Requesting THEN 2 ELSE 1)
  /\ moves' <= MaxMoves

\* A request that is sent while another one is under way may overtake it.
Sending == disturbed' = (disturbed \/ Requesting)

-----------------------------------------------------------------------------
(***************************************************************************)
(* The buttons.                                                            *)
(***************************************************************************)

\* connect(config) of the connection dialog.
Connect(target) ==
  /\ Move /\ Sending
  /\ app.status # "connecting"
  /\ \E n \in FirstFree : flow' = [flow EXCEPT ![n] = NewFlow("connect", "post", target)]
  /\ app' = [app EXCEPT !.status = "connecting", !.config = target]
  /\ UNCHANGED <<saved, session, sandboxes>>

\* createSandbox() of the connection dialog.
CreateSandbox ==
  /\ Move /\ Sending
  /\ app.status # "connecting"
  /\ \E n \in FirstFree :
       flow' = [flow EXCEPT ![n] = NewFlow("create", "create", Nothing)]
  /\ app' = [app EXCEPT !.status = "connecting"]
  /\ UNCHANGED <<saved, session, sandboxes>>

\* disconnect(): the DELETE is sent and not awaited.
Disconnect ==
  /\ Move /\ Sending
  /\ app.status = "connected"
  /\ \E n \in FirstFree :
       flow' = [flow EXCEPT ![n] = NewFlow("delete", "delete", Nothing)]
  /\ saved' = Nothing
  /\ app' = FreshApp
  /\ UNCHANGED <<session, sandboxes>>

\* The connect button of the sandbox page: disconnect(), and connect() after
\* a pause, again and again while the sandbox is not ready.
ConnectSandbox(target) ==
  /\ Move /\ Sending
  /\ target \in sandboxes
  /\ \A n \in Flows : flow[n].kind # "page"
  /\ \E n \in FirstFree, k \in Free :
       /\ n < k
       /\ flow' = [flow EXCEPT ![n] = NewFlow("delete", "delete", Nothing),
                               ![k] = NewFlow("page", "timer", target)]
  /\ saved' = Nothing
  /\ app' = FreshApp
  /\ UNCHANGED <<session, sandboxes>>

PageTimer(n) ==
  /\ flow[n].at = "timer"
  /\ Sending
  /\ flow' = [flow EXCEPT ![n] = [Awaiting(flow[n], "post") EXCEPT
                                    !.tries = flow[n].tries + 1]]
  /\ app' = [app EXCEPT !.status = "connecting", !.config = flow[n].target]
  /\ UNCHANGED <<saved, session, sandboxes, moves>>

\* refreshBootstrap(), after a command, an upload or a new party.
RefreshBootstrap ==
  /\ Move /\ Sending
  /\ \E n \in FirstFree :
       flow' = [flow EXCEPT ![n] = NewFlow("refresh", "get", Nothing)]
  /\ UNCHANGED <<app, saved, session, sandboxes>>

\* A page load forgets everything but localStorage and checks the session.
\* Requests under way may still reach the gateway, their answers reach nobody.
Reload ==
  /\ Move
  /\ disturbed' = (disturbed \/ ~Idle)
  /\ app' = FreshApp
  /\ flow' = [n \in Flows |-> IF n = 1 THEN CheckFlow ELSE NoFlow]
  /\ UNCHANGED <<saved, session, sandboxes>>

-----------------------------------------------------------------------------
(***************************************************************************)
(* The gateway.                                                            *)
(***************************************************************************)

Answered(n, answer, found) ==
  flow' = [flow EXCEPT ![n].answer = answer, ![n].found = found]

\* POST /api/v1/connect arrives: the session is cleared.
PostArrives(n) ==
  /\ flow[n].at = "post" /\ flow[n].answer = "none"
  /\ Answered(n, "working", Nothing)
  /\ session' = Nothing
  /\ UNCHANGED <<app, saved, sandboxes, moves, disturbed>>

PostDone(n) ==
  /\ flow[n].answer = "working"
  /\ flow[n].target \in Participants \cup sandboxes
  /\ Answered(n, "ok", flow[n].target)
  /\ session' = flow[n].target
  /\ UNCHANGED <<app, saved, sandboxes, moves, disturbed>>

PostFails(n) ==
  /\ flow[n].answer = "working"
  /\ Answered(n, "failed", Nothing)
  /\ UNCHANGED <<app, saved, session, sandboxes, moves, disturbed>>

DeleteHandled(n) ==
  /\ flow[n].at = "delete" /\ flow[n].answer = "none"
  /\ Answered(n, "ok", Nothing)
  /\ session' = Nothing
  /\ UNCHANGED <<app, saved, sandboxes, moves, disturbed>>

\* GET /api/v1/connect and GET /api/v1/sandboxes/:id.
GetHandled(n) ==
  /\ flow[n].answer = "none"
  /\ \/ flow[n].at = "get" /\ Answered(n, "ok", session)
     \/ /\ flow[n].at = "verify"
        /\ Answered(n, IF flow[n].target \in sandboxes THEN "ok" ELSE "failed",
                    flow[n].found)
  /\ UNCHANGED <<app, saved, session, sandboxes, moves, disturbed>>

\* POST /api/v1/sandboxes.
SandboxCreated(n) ==
  /\ flow[n].at = "create" /\ flow[n].answer = "none"
  /\ \/ \E s \in Sandboxes \ sandboxes :
          /\ Answered(n, "ok", s)
          /\ sandboxes' = sandboxes \cup {s}
     \/ /\ Answered(n, "failed", Nothing)
        /\ UNCHANGED sandboxes
  /\ UNCHANGED <<app, saved, session, moves, disturbed>>

\* A request or its answer is lost.  The browser cannot tell which.
RequestLost(n) ==
  /\ Running(n) /\ flow[n].at # "timer" /\ flow[n].answer # "lost"
  /\ Move
  /\ flow' = [flow EXCEPT ![n].answer = "lost"]
  /\ disturbed' = TRUE
  /\ UNCHANGED <<app, saved, session, sandboxes>>

\* The gateway evicts the session, cleans it up or restarts.
SessionLost ==
  /\ session # Nothing
  /\ Move
  /\ session' = Nothing
  /\ disturbed' = TRUE
  /\ UNCHANGED <<app, saved, flow, sandboxes>>

\* Somebody deletes a sandbox; a session that uses it stays.
SandboxDeleted(s) ==
  /\ s \in sandboxes
  /\ Move
  /\ sandboxes' = sandboxes \ {s}
  /\ UNCHANGED <<app, saved, flow, session, disturbed>>

-----------------------------------------------------------------------------
(***************************************************************************)
(* The answers.                                                            *)
(***************************************************************************)

Ended(n) == flow' = [flow EXCEPT ![n] = NoFlow]

IsOk(n) == flow[n].answer = "ok"

IsAnswered(n, kinds, at) ==
  /\ flow[n].kind \in kinds /\ flow[n].at = at
  /\ flow[n].answer \in {"ok", "failed", "lost"}

UnchangedByAnswer == UNCHANGED <<session, sandboxes, moves>>

ConnectedTo(config, found) ==
  [status |-> "connected", config |-> config, bootstrap |-> found]

SavedNothing(config) == saved                      \* mutant: no saveConfig

\* saveConfig(config)
SavedConfig(config) == config

\* connect, createSandbox or the sandbox page after the POST.
PostAnswered(n) ==
  /\ IsAnswered(n, {"connect", "create", "page"}, "post")
  /\ IF IsOk(n)
     THEN /\ saved' = SavedConfig(flow[n].target)
          /\ app' = ConnectedTo(app.config, flow[n].found)
          /\ Ended(n)
     ELSE /\ saved' = saved
          /\ app' = [app EXCEPT !.status = "error", !.bootstrap = Nothing]
          /\ \/ Ended(n)
             \/ /\ flow[n].kind = "page" /\ flow[n].tries < MaxRetries
                /\ flow[n].answer = "failed"
                /\ flow' = [flow EXCEPT ![n] = Awaiting(flow[n], "timer")]
  /\ UNCHANGED disturbed
  /\ UnchangedByAnswer

\* createSandbox after POST /api/v1/sandboxes.
CreateAnswered(n) ==
  /\ IsAnswered(n, {"create"}, "create")
  /\ IF IsOk(n)
     THEN /\ flow' = [flow EXCEPT ![n] = [Awaiting(flow[n], "post") EXCEPT
                                            !.target = flow[n].found]]
          /\ app' = [app EXCEPT !.config = flow[n].found]
     ELSE /\ Ended(n)
          /\ app' = [app EXCEPT !.status = "error", !.bootstrap = Nothing]
  /\ UNCHANGED <<saved, disturbed>>
  /\ UnchangedByAnswer

Restored(found) == ConnectedTo(IF saved = Nothing THEN Unknown ELSE saved, found)

\* checkExistingConnection after GET /api/v1/connect.
CheckAnswered(n) ==
  /\ IsAnswered(n, {"check"}, "get")
  /\ CASE ~IsOk(n) ->
            Ended(n) /\ UNCHANGED <<app, saved>>
       [] IsOk(n) /\ flow[n].found # Nothing /\ saved \in Sandboxes ->
            /\ flow' = [flow EXCEPT ![n].at = "verify", ![n].answer = "none",
                                    ![n].target = saved]
            /\ UNCHANGED <<app, saved>>
       [] IsOk(n) /\ flow[n].found # Nothing /\ saved \notin Sandboxes ->
            Ended(n) /\ app' = Restored(flow[n].found) /\ UNCHANGED saved
       [] IsOk(n) /\ flow[n].found = Nothing /\ saved \in Participants ->
            /\ flow' = [flow EXCEPT ![n] = [Awaiting(flow[n], "post") EXCEPT
                                              !.target = saved]]
            /\ app' = [app EXCEPT !.status = "connecting", !.config = saved]
            /\ UNCHANGED saved
       [] OTHER ->
            Ended(n) /\ saved' = Nothing /\ UNCHANGED app
  /\ UNCHANGED disturbed
  /\ UnchangedByAnswer

\* ... after the sandbox was looked up; when that request failed on its way
\* the code goes on as if the sandbox existed.
VerifyAnswered(n) ==
  /\ IsAnswered(n, {"check"}, "verify")
  /\ IF flow[n].answer = "failed"
     THEN /\ saved' = Nothing
          /\ flow' = [flow EXCEPT ![n] = Awaiting(flow[n], "delete")]
          /\ UNCHANGED app
     ELSE /\ Ended(n)
          /\ app' = ConnectedTo(flow[n].target, flow[n].found)
          /\ UNCHANGED saved
  /\ UNCHANGED disturbed
  /\ UnchangedByAnswer

\* ... after the automatic POST.
AutoConnectAnswered(n) ==
  /\ IsAnswered(n, {"check"}, "post")
  /\ Ended(n)
  /\ IF IsOk(n)
     THEN /\ app' = ConnectedTo(app.config, flow[n].found)
          /\ UNCHANGED saved
     ELSE /\ app' = [app EXCEPT !.status = "disconnected", !.config = Nothing]
          /\ saved' = Nothing
  /\ UNCHANGED disturbed
  /\ UnchangedByAnswer

\* The DELETE of checkExistingConnection or of disconnect.
DeleteAnswered(n) ==
  /\ IsAnswered(n, {"check", "delete"}, "delete")
  /\ Ended(n)
  /\ app' = IF flow[n].kind = "check" THEN FreshApp ELSE app
  /\ UNCHANGED <<saved, disturbed>>
  /\ UnchangedByAnswer

\* refreshBootstrap after GET /api/v1/connect?refresh=true.
RefreshAnswered(n) ==
  /\ IsAnswered(n, {"refresh"}, "get")
  /\ Ended(n)
  /\ app' = IF IsOk(n) /\ flow[n].found # Nothing
            THEN [app EXCEPT !.bootstrap = flow[n].found] ELSE app
  /\ UNCHANGED <<saved, disturbed>>
  /\ UnchangedByAnswer

Buttons ==
  \/ \E t \in Participants : Connect(t)
  \/ CreateSandbox
  \/ Disconnect
  \/ \E t \in Sandboxes : ConnectSandbox(t)
  \/ RefreshBootstrap

\* Requests the gateway works on without touching event streams.
Gateway(n) == PostDone(n) \/ PostFails(n) \/ GetHandled(n) \/ SandboxCreated(n)

\* Requests that begin with unsubscribeForSession.
Unsubscribing(n) == PostArrives(n) \/ DeleteHandled(n)

Answer(n) ==
  \/ PostAnswered(n) \/ CreateAnswered(n) \/ CheckAnswered(n)
  \/ VerifyAnswered(n) \/ AutoConnectAnswered(n) \/ DeleteAnswered(n)
  \/ RefreshAnswered(n)

-----------------------------------------------------------------------------
ConnectionTypeOK ==
  /\ app \in App
  /\ saved \in Targets \cup {Nothing}
  /\ flow \in [Flows -> Flow]
  /\ session \in Targets \cup {Nothing}
  /\ sandboxes \subseteq Sandboxes
  /\ moves \in 0..MaxMoves /\ disturbed \in BOOLEAN

\* What the browser shows, what it keeps in localStorage and what the gateway
\* holds agree whenever no request is under way, after any sequence of
\* connections that succeed or fail, sandboxes that come and go, and reloads,
\* as long as requests neither overlapped nor got lost: it shows "connected"
\* for the session's own ledger, with its configuration saved for a reload,
\* and it shows "disconnected" only when there is no session and nothing is
\* saved that a reload would bring back.
ShownIsConnected ==
  Idle /\ ~disturbed =>
    /\ app.status = "connected" =>
         /\ session # Nothing
         /\ app.bootstrap = session /\ app.config = session /\ saved = session
    /\ app.status = "disconnected" =>
         session = Nothing /\ app.bootstrap = Nothing /\ saved = Nothing

-----------------------------------------------------------------------------
(***************************************************************************)
(* The inductive invariant behind ShownIsConnected: first what a function  *)
(* of the store may await at all, then how the three records differ while  *)
(* it does, as long as requests neither overlapped nor got lost.           *)
(***************************************************************************)

Awaits == [none    |-> {"none"},
           connect |-> {"post"},
           create  |-> {"create", "post"},
           check   |-> {"get", "verify", "delete", "post"},
           refresh |-> {"get"},
           delete  |-> {"delete"},
           page    |-> {"timer", "post"}]

\* What is awaited fits the function, and the answer what is awaited.
FlowShape(f) ==
  /\ f.at \in Awaits[f.kind]
  /\ f.at \in {"none", "timer"} => f.answer = "none"
  /\ f.answer = "working" => f.at = "post"
  /\ f.at = "timer" => f.tries < MaxRetries
  /\ f.at \in {"post", "verify", "timer"} => f.target \in Targets
  /\ f.at = "post" /\ f.answer = "ok" => f.found = f.target
  /\ f.at = "create" /\ f.answer = "ok" => f.found \in Sandboxes

\* A request fails only where the code takes that into account.
FlowFails(f) ==
  /\ f.answer # "lost"
  /\ f.answer = "failed" => f.at \in {"post", "create", "verify"}

\* The gateway's session may only be missing.
SessionKept == session \in {Nothing, saved}

\* The records agree.
Agreed ==
  /\ app.status # "connecting"
  /\ app.status = "connected" =>
       /\ session # Nothing
       /\ app.bootstrap = session /\ app.config = session /\ saved = session
  /\ app.status = "disconnected" =>
       session = Nothing /\ app.bootstrap = Nothing /\ saved = Nothing
  /\ SessionKept

\* A POST clears the session when it arrives and stores its own at the end.
PostCalm(f) ==
  /\ app.status = "connecting" /\ app.config = f.target
  /\ f.answer = "none" => SessionKept
  /\ f.answer \in {"working", "failed"} => session = Nothing
  /\ f.answer = "ok" => session = f.target

\* The other requests.  A check has found a page that was just loaded.
RequestCalm(f) ==
  /\ f.at = "post" => PostCalm(f)
  /\ f.at = "create" => app.status = "connecting" /\ SessionKept
  /\ f.at = "delete" => /\ app = FreshApp /\ saved = Nothing
                        /\ f.answer = "ok" => session = Nothing
  /\ f.at = "get" /\ f.answer = "ok" => f.found = session
  /\ f.kind = "refresh" => Agreed
  /\ f.kind = "check" =>
       /\ f.at \in {"get", "verify"} => app = FreshApp /\ SessionKept
       /\ f.at = "verify" => /\ f.target = saved /\ session = saved
                             /\ f.found = session
       /\ f.at = "post" => app.bootstrap = Nothing /\ saved = f.target

RequestingFlow(n) == Running(n) /\ flow[n].at # "timer"

Calm ==
  /\ \A m, n \in Flows : RequestingFlow(m) /\ RequestingFlow(n) => m = n
  /\ \A n \in Flows : RequestingFlow(n) =>
       FlowFails(flow[n]) /\ RequestCalm(flow[n])
  /\ ~Requesting => Agreed

ConnectionInv ==
  /\ \A n \in Flows : FlowShape(flow[n])
  /\ ~disturbed => Calm
=============================================================================
