# CantonTrace in TLA+

CantonTrace is a debugging workbench for the Canton ledger: a browser
application, an API gateway (`src/api-gateway`, TypeScript on Fastify) that
talks gRPC to a Canton participant and manages local sandboxes, and an engine
service (`src/engine-service`, Scala) that runs the Daml engine for traces and
simulations. This directory holds TLA+ models of the parts whose behaviour
depends on the order of events, TLC configurations that check them on small
instances, and proofs that TLAPS checks for every instance.

How to run them:

    tlc -workers 2 -config MCEventStream.cfg MCEventStream
    tlc -workers 2 -config Sessions.cfg Sessions
    tlc -workers 2 -config SandboxManager.cfg SandboxManager
    tlc -workers 2 -config Application.cfg MCApplication
    tlc -workers 2 -config DebuggerOffline.cfg Debugger
    tlapm EventStreamProofs.tla          # and SandboxManagerProofs,
                                         # Induction, BrowserProofs,
                                         # ViewsProofs, PartsProofs,
                                         # EngineProofs, TransactionProofs

`PROJECT.json` lists the runs, the source lines behind every definition, and
for every property a plausible bug (an operator of the same module, marked
`mutant`) that makes TLC report a violation of it.

## 1. Inventory of the system

| Component | State it keeps | Operations | What is hard | What makes it correct |
|---|---|---|---|---|
| Event stream manager (`services/event-stream.ts`, `routes/events.ts`, `canton/services/update-service.ts`) | a map of subscriptions: filter, last offset, sockets, `isActive`, `cancel` | open a WebSocket, `filter_update`, close, data/error/end of a gRPC call, 3 s reconnection timer, 10 s grace timer, unsubscribe a session | callbacks of an old call act on the same subscription object as its successor; timers fire on subscriptions that are gone; data arrives after a cancel | one call per subscription; updates in order, once, without gaps; nothing after the end; filters take effect; closed sockets are forgotten |
| Sessions and connections (`middleware/canton-context.ts`, `routes/connection.ts`, `canton/client.ts`, `canton/bootstrap.ts`) | the session map (client, token service, activity) | POST, GET `?refresh=true`, DELETE `/api/v1/connect`; eviction at `MAX_SESSIONS`; idle cleanup | every handler awaits several times and writes the map at the end; overlapping requests of one session | the map keeps its limit; no channel or token service outlives its session; a POST is answered unless the participant never answers it |
| OAuth2 token service (`services/oauth2.ts`) | token, one timer, `stopped` | first token, background refresh, one retry, `stop` | `stop` against a timer, against a request in flight | a stopped service stays quiet; a service a session holds runs |
| Redis cache (`services/cache.ts`) | keys per packages, ACS page, bootstrap data, last offset | get, set with TTL, clear | keys shared between sessions; keys that differ where they are written and read | what is read is what the same session stored |
| Sandbox manager (`services/sandbox-manager.ts`, `routes/sandboxes.ts`) | a map of sandboxes, their processes, a JSON file | create, delete, reset, upload, allocate, restore after a restart | every operation is many awaits; detached processes survive a crash; the exit handler, the readiness loop and delete/reset overlap | limit respected, a deleted sandbox stays deleted, provisioning ends, restarts recover |
| Browser event store (`frontend/src/stores/event-stream-store.ts`) | one WebSocket, reconnection attempts, event list, pause buffer | start, stop, reconnect, pause, resume, socket callbacks | the close event of an old socket arrives after a new one was opened; a timer whose handle was overwritten | one socket; the list is the newest and has no holes but those behind a feed's start; a connected browser ends up streaming or says that it gave up |
| Browser connection store (`connection-store.ts`, `App.tsx`) | connection status, bootstrap data, localStorage | connect, disconnect, restore, refresh | late answers of an earlier request | what is shown, saved and held by the gateway agree |
| Collecting routes (`routes/reassignments.ts`, `completions.ts`, `workflows.ts`, `acs.ts`) | none between requests | collect a stream until end, error, limit or timeout; follow a chain; cut pages | timeout against a late end; pages cut from a ledger that moves | exactly one reply, made of what the ledger has; pages partition the listing |
| CI route (`routes/ci.ts`) | one sandbox and one client per pipeline | create, wait, upload, assert, tear down | a failure at each step; users who delete or reset the sandbox | the sandbox and the DAR are removed; what stays after a failure is known |
| Contracts, privacy, transactions, packages (`routes/*.ts`, `update-service.ts`) | cached package details | rebuild trees from flat events, guess who sees what, assemble a lifecycle, read a package | shapes of several participant versions; the fallback parser's answer in the cache | every event once, and below it what the participant says its consequences are; nobody is shown to see what they do not |
| Simulate, trace, execute (`routes/simulate.ts`, `trace.ts`, `execute.ts`) | none between requests | collect contracts and packages, have a command run, transform the answer | the ledger goes on between the awaits; three routes answer for one command | what is answered is what would have happened at the offset named |
| Engine service (`src/engine-service`) | none between requests | run, trace, parse, decompile | arguments read as text; clauses read out of compiled expressions | the trace is an execution; what is shown of a package is what was compiled |
| Debugger page (`features/debugger`) | form in a store, two results, current step, open rows, decompiled sources | choose, simulate, trace, execute, step, compare | effects that reset fields run in chains; panels outlive the trace they were opened for | the command sent is one of its template; what is shown is of one execution |
| Other pages (`features/events`, `transactions`, `contracts`, `sandbox-manager`, `template-explorer`) | selections, filters, dialogs, query caches | click, filter, search, navigate; polled and late answers | handlers and effects with what they read of an earlier render | what is selected is listed; what the user picked stays; lists are told as they are |
| Errors (`canton/errors.ts`, `routes/errors.ts`, migrations) | the knowledge base | map a failure, explain a code | one failure told on four ways | it is told alike |
| Platform auth (`routes/auth.ts`, `middleware/auth.ts`) | users per session | GitHub login, JWT | little | - |
| Proto loading, payload decoding, decompiler, layout | - | conversions, rendering | no interleaving | - |

How they interact. The browser opens a session cookie and POSTs
`/api/v1/connect`; the gateway creates a `CantonClient` and possibly a token
service, reads the bootstrap data and stores all of it in the session map. All
other routes read the map (`requireCantonContext`). The event route takes the
client out of the map and subscribes; its gRPC callbacks then run on their own,
and POST and DELETE call `unsubscribeForSession` before they disconnect the
client. Eviction and idle cleanup disconnect the client without unsubscribing.
Token services call back into the client they refresh. The sandbox manager is
independent of the sessions; the CI route uses it and a client of its own.
All of the gateway runs on one event loop, so an atomic step is the code from
one await, callback or timer to the next, and concurrency is the interleaving
of those steps. That is the grain of every module here.

## 2. Plan

In the order of importance; each item names its modules.

1. **EventStream**, **Feed** (done): the gateway's streaming core, with proofs
   and an abstract specification it is proved to implement.
2. **Sessions** (done): session map, connect/disconnect/refresh, token service,
   with proofs.
3. **SandboxManager** (done, without the DAR and party lists): create, delete,
   reset with their awaits; processes, ports and the exit handler; the
   persisted file; crash and restart; with proofs.
4. **StreamStore**, **ConnectionStore**, **Browser** (done): the browser's two
   stores against a Feed and a session, with proofs.
5. **StreamedReplies** and **AcsPages** (together **Collecting**),
   **ContractChain**, **ContractHistory**, **CiPipeline** (done): one reply for
   one request, made of a moving ledger.
6. **EventTree**, **TransactionDetail**, **Privacy**, **Debugger**,
   **EngineInput**, **Arguments**, **TypeNames**, **ClauseText**,
   **PackageReply**, **Sorting** (done): what is computed of a transaction, a
   command or a package, each against what the ledger or the package says.
7. **CommandForm**, **TracePanels**, **SimulationTab**, **EventsPage**,
   **SandboxPage**, **TemplateExplorer**, **TransactionsPage**,
   **ContractPanel**, **ErrorReport**, **Views** (done): the pages with rules
   of their own.
8. Left: proofs of the parts that section 9 lists as only model-checked; an
   abstract registry that SandboxManager implements while operations do not
   overlap; the package, bootstrap and ACS keys of
   Redis between two sessions of different participants; a composition of
   EventStream and Sessions with `clientUp <- the session's client is
   connected`; the workflow, dashboard and onboarding pages.

Modules 4 to 7 share no state with each other beyond what is said below, so
**Application** takes one of them for each behaviour.

## 3. EventStream

One session of a browser opens WebSockets. The route gives each of them a
subscription of its own, so `conn[s]` is the record of one WebSocket `s`, its
subscription and its gRPC calls.

| Model | Code |
|---|---|
| `phase` | `idle`: no socket yet; `lookup`: the route awaits `cache.getLastOffset`; `live`: the subscription is in the map; `gone`: it was removed |
| `filter`, `lastOffset`, `isActive`, `cancel`, `websocket` | the fields of `StreamSubscription` |
| `calls` | the server-streaming calls that have not failed or ended, each with the filter it was opened with, the participant's position and whether `cancel()` was called |
| `retries`, `grace` | pending `setTimeout` callbacks of 3 s and 10 s |
| `sent` | what was written to the socket |
| `start`, `asked` | history: where the subscription started, which filter the client asked for last |
| `cached` | the Redis keys of last offsets; the stream writes one per subscription, the route reads `LookupKey` |
| `clientUp` | `client.isConnected()` |

The functions of `event-stream.ts` are operators from connections to
connections with the names of the code (`StartStream`, `OnUpdate`, `OnError`,
`UnsubscribeFromEventStream`, ...), and an action applies them the way one
callback does: `Data` is a whole data event, including the store of the offset,
the write to the socket and the unsubscription when nobody listens. Two
ordinary events of Node and grpc-js matter and are modelled: `close` follows
`error` on a socket, and an error of a call is followed by its `end` event.

What is abstracted. Offsets are small integers; a filter is what it makes of an
offset: `Served` (what the participant sends under it) and `Passes` (what
`passesFilter` lets through). An update whose mapping throws is a member of
`Unmappable`. Several subscribers of one subscription do not occur (ids hold a
UUID), so the set of sockets is one Boolean.

### Runs

| Run | Bounds | Shows |
|---|---|---|
| `event_stream` | one socket, offsets 1..3, two filters, two faults, two filter updates; clients may act early, the server may end calls | `OneCall`, `RunningCallsCancellable`, `NoDuplicates`, `SilentAfterEnd` hold when every update can be mapped, and the stream implements `Feed` (`ImplementsFeed`; 50,942 states) |
| `event_stream_faulty` | the same with update 1 unmappable, three faults | `NoMissedUpdates` holds even when mapping errors make calls run side by side (916,962 states) |
| `event_stream_live` | two faults, two filter updates, fairness | `FilterApplied`, `EventuallyDelivered`, `ClosedSocketForgotten` |
| `event_stream_stop` | as `event_stream_faulty` | finding: `StoppedEntirely` is violated |
| `event_stream_resume` | two sockets | finding: `ResumesAfterReconnection` is violated |

Why the bounds are enough. Subscriptions of a session share only the cached
offsets and the client, so one socket shows every interleaving of the calls,
timers and messages of a subscription; the run on resuming needs two. Offsets
1..3 give a filtered first, a plain middle and a dropped last update; with
`MCServed` and `MCPasses` the filters differ both in what is served and in what
passes. Two faults are enough for a call that fails, reconnects and fails
again, and three for two calls side by side and a failure of one of them;
the proofs below remove the bounds for safety.

Fairness. The event loop runs due timers, pending events and the continuation
of the cache lookup (`cache.ts` answers or catches the error), and a
participant keeps sending what a running call asked for; these are weakly fair.
Nothing is assumed of clients, failures, or session changes. The liveness run
takes `ServerEnds = FALSE` and `EarlyClient = FALSE`: `onEnd` does not
reconnect, and a message or a close that arrives while the route awaits the
cache is lost, so without these assumptions the properties fail; both are
listed as hazards. It takes `Unmappable = {}` because a bound on faults would
otherwise cut off an endless sequence of calls that all meet the same update.

### Proofs (`EventStreamProofs`)

`Spec => []TypeOK` is proved operator by operator (each `...Type` lemma says
what a function of the code does to a well-typed connection) and then action by
action. The inductive invariant `IInv` is a conjunction over connections, since
actions change one connection or apply the same function to all:

  - `Lifecycle`: a subscription that does not exist yet has no calls, one that
    is gone has no socket, and a live one with an open socket has it attached;
  - `CompleteInv`: what `lastOffset` *or any call* has passed has been sent.
    The part on calls is what makes it inductive: data moves `lastOffset` to
    the position of the call;
  - `OneCallInv`, under `Unmappable = {}`: an inactive live subscription has no
    call, there is at most one, and an uncancelled one is the call `sub.cancel`
    cancels;
  - `OrderInv`, under `Unmappable = {}`: `lastOffset` is behind every call and
    ahead of everything sent, and what was sent is increasing.

`OneCallInv` is what carries `OrderInv`: with a second call, data of the slower
one would move `lastOffset` back. From `IInv` follow `NothingMissed` (without
any assumption on `Unmappable`), `SingleCall`, `CallsCancellable` and
`SentInOrder` (for `Unmappable = {}`); `EndedIsSilent` is an action property
that rests on `Lifecycle`. The theorems hold for any number of sockets, filters
and offsets and any bound on faults and filter updates. Their assumptions are
`ConstantsOK` only, which TLC evaluates in every run.

### Feed

`Feed` is what the gateway's end of a socket promises: it is opened after an
offset or ends at once, receives updates in the order of the ledger, none twice
and none required left out in between, until it ends. `ImplementsFeed` maps a
connection of EventStream to it: a socket that is looked up is unopened, one
that is attached is open, `sent` is what it received, and required is what
every filter is served and lets through. Calls, retries, timers and filter
changes must not show. StreamStore takes its socket's other end from it, so
the browser is checked against what the gateway is shown to do.

`StreamImplementsFeed` (`EventStreamProofs`) proves it for `Unmappable = {}`, where a
subscription has one call: the initial state shows feeds nobody has opened, and
every action shows a step of the feeds or none. Each function of the code has a
lemma on what it shows (`Shows`), and an action composes them. The invariant it
needs beyond `IInv` is `StartedAfter`: no call reads, `lastOffset` does not lie
and nothing was sent before the offset the socket was opened at
(`NothingBeforeStart`, without an assumption on `Unmappable`).

## 4. Sessions

The k-th POST creates client `k` and, when an IAM URL is given, token service
`k`; a handler ends an action at each await.

| Model | Code |
|---|---|
| `sessions[sid]` | the entry of the session map: its client and its `oauth2Service` |
| `post[k].stage` | the await at which the k-th POST handler is |
| `post[k].attempt` | `attempt` of the connection loop |
| `connected[k]` | `client.isConnected()` |
| `service[k]` | `stopped`, the pending `setTimeout`, the token request in flight |
| `refreshing[sid]` | a running `GET ?refresh=true` and the client it took before its awaits |
| `overlapped`, `refreshed` | history: sessions whose requests overlapped, or that refreshed their bootstrap data |

`setActiveConnection` evicts the session idle longest. Times are left out, so
any session may be that one, and any may have been idle for 30 minutes:
everything that holds here holds for every clock. `unsubscribeForSession` is
`Disconnect` of EventStream. The contents of the cache, token values and expiry
are left out; the awaits on them are kept. A session has one bootstrap refresh
at a time.

| Run | Bounds | Shows |
|---|---|---|
| `sessions` | two sessions for one place in the map, two POSTs with two attempts each (631,003 states) | `SessionLimit`, `HeldServiceRuns`, `NoLeakedClient`, `NoLeakedService`, `StoppedIsQuiet`, `EveryPostReplied` hold |
| `sessions_refresh` | one session, one POST | finding: `DisconnectStopsRefresh` is violated |

Two sessions and a map of one make eviction, resurrection by a refresh and
overwriting happen; two POSTs are two of one session that overlap, or one of
each. `NoLeakedClient` and `NoLeakedService` are stated for sessions that send
their requests one at a time (`overlapped`): two overlapping POSTs of one
session do overwrite an entry whose client nobody disconnects. No line of the
repository promises anything for that case, so it is a condition of the
property, not a finding.

Fairness: the cache answers or gives up (ioredis, after three tries), the
request to the IAM server is answered or aborted after its 10 or 15 s, the 2 s
wait passes. A call to the participant has no deadline: `makeUnaryCall`
(`shared.ts:59`) sets none, bootstrap passes no options, the reflection streams
of `proto-loader.ts` have no timer. The steps that follow one are therefore not
fair, and `EveryPostReplied` says that a POST is answered unless it waits in one
of its two calls for ever. Requests, failures, timers and token answers are not
fair either.

### Proofs (`PartsProofs`)

`TypeCorrect`, `LimitHolds`, `ServicesRun`, `ClientsOwned`, `ServicesOwned` and
`StoppedStaysQuiet` prove all the safety properties of the run for every number
of sessions, requests, attempts and places in the map, from `ConstantsOK` alone.
`SessionLimit` is inductive next to `TypeOK`: the lemma `SetActiveLimit` is the
argument that replacing, finding room and evicting each keep the limit. The
others need `IInv`:

  - `HeldInv`: the client a session holds was stored by a POST of that very
    session, and its token service, when it has one, is that POST's and runs.
    It makes clients exclusive, so disconnecting one session never touches
    another's client or service;
  - `TakenInv`: the same for the client that a refresh took before its awaits,
    which the session holds or has lost, unless its requests overlapped;
  - `PostInv`: what the stage of a POST says about its client and service;
  - `AloneInv`: a POST of a session without overlapping requests is its only
    running request and finds no entry when it stores its own. This is why
    storing an entry loses nobody's client.

The actions fall into four groups with one lemma each (`LocalStep`,
`QuietStep`, `DropStep`, `StoreStep`).

## 5. SandboxManager

The n-th request that is not refused at once is operation `n`; the sandbox it
creates, the state object it installs and the process it spawns have its number.

| Model | Code |
|---|---|
| `registry[id]`, `object[n]` | the map `sandboxes` and its `SandboxState` objects. A reset installs a new object; the handlers of the old start keep the old one |
| `op[n].stage` | the await at which the operation is, from the search for a port to the last write of the file |
| `op[n].object`, `op[n].pid` | the object and the process the operation captured |
| `process[n]` | `starting` (ports not bound yet), `serving`, `exited` (the exit handler has yet to run), `gone` |
| `file`, `writes[n]` | `sandboxes.json` and the snapshots on their way to it: `persistSandboxes` takes a snapshot at once and writes it later, in any order |
| `disturbed` | history: requests on one sandbox, searches for a port or writes of the file overlapped, or the gateway crashed while an operation was under way or a process was starting |

Processes are detached, so `Restart` leaves them alone and forgets their
handles and exit handlers; a crash during a write may leave the file truncated,
which reads as empty. A port is a block of six that a process binds together.
`lsof` (`sandbox-manager.ts:354`) also lists the gateway when it is connected to
the port, so the sweep of a sandbox that `KillHandle` could not kill may kill the
gateway: for the model that is a `Restart` in the middle of an operation, like
any other crash there outside the conditional properties.
`StartFails` marks both the object the start captured and the one that is
registered by then, as the two catch blocks do. A write of the file that fails
is not modelled (the code logs it and goes on).

| Run | Bounds | Shows |
|---|---|---|
| `sandboxes` | four operations, two sandboxes at most, three ports, two exits, two restarts | `SlotsKept`, `RegistryDurable`, `ProcessesOwned`, `FailsOnItsOwn` hold (711,753 states) |
| `sandboxes_live` | two operations, one exit, one restart | `ProvisioningEnds` holds, also when operations overlap (15,455 states) |
| `sandbox_delete` | one sandbox, one deletion | finding: `DeleteCleansUp` is violated |

The properties of the first run are conditional on `~disturbed`, because
the code does not serialise its operations and no line of the repository says
what overlapping ones should do. The constraint `Undisturbed` keeps TLC from
going on behind a disturbed state, where they say nothing. What is left is
still concurrent: operations on different sandboxes, processes that bind and
exit, exit events that arrive late, failing starts and restarts between
operations. Four operations reach create, create, delete and a create that
finds the freed port, or create, reset, delete and create; a third port makes
the limit, not the ports, refuse a third sandbox. The liveness run has no
constraint. Its fairness: every await of an operation ends (probes, file
writes, timers, child processes, and the readiness loop by its 60 s); exits and
crashes are not fair. It assumes that a single health check ends, which the
code does not enforce; this is listed as a hazard.

### Proofs (`SandboxManagerProofs`)

All the safety properties of the run are theorems, for any number of
operations, sandboxes, ports, exits and restarts. `Shapes` holds without a
condition: `ShapeInv` says what the stage of a request determines of its
record, that a registered sandbox has its ports, and that two processes never
serve on one port. The rest is inductive only while nothing has overlapped, so
`SandboxInv` is `ShapeInv /\ (~disturbed => CalmInv)`, and `disturbed` never
becomes false again. `CalmInv` has these parts:

  - `ApartInv`: at most one request searches for a port, at most one works on a
    sandbox, and a sandbox is registered with an object of its own only once
    its creation has found a port;
  - `ProgressInv`: how far a request has come with its sandbox, stage by stage.
    While a port is probed there is room in the registry and the ports probed
    are free: that is the check that was made some awaits before;
  - `OwnerInv`: a living process is known to the object that is registered, or
    that object was restored from the file and the process listens;
  - `FileInv`: the file, or the one write under way, is a snapshot of the
    registry. It is what makes a restart find what it lost;
  - `SlotsKept` itself.

`SlotsTheorem`, `DurableTheorem` and `OwnedTheorem` follow from it.
`FailsTheorem` is an action property and needs of `OwnerInv` that an exit
handler marks the object its process was spawned for.

## 6. Application: the parts that share no state

`Application` is the sum of the parts below: `part` is chosen at the beginning
and only that part takes steps (`Parts`; the others stay at one initial state).
One run therefore checks them all, and each part is small enough to be explored
to its end. Composed with each other are what interacts: Browser is the two
stores of the browser, its other end of the socket is `Feed` and the gateway's
session is that of Sessions cut down to what answers and sockets show;
ContractHistory runs
on ContractChain's ledger; SimulationTab lives on the page of TracePanels; the
pages use Queries.

Where a property of the run is a conjunction of properties of parts, the parts
are named in `Application.tla`; each of them is stated with a comment in its
module.

### The browser's stores (StreamStore, ConnectionStore, Browser)

The gateway starts a socket's feed at the `currentOffset` of its session
(`events.ts:176`). `info` is that offset and whether the session knows a party:
a POST and a refresh read both anew (`connection.ts:61`), so a socket that
replaces another may start at a later offset, and one without a session or a
party is accepted and closed (4003, 4001).

The functions of `event-stream-store.ts` are operators from stores to stores.
Every socket ever opened keeps its handlers, and a timer whose handle was
overwritten still fires. A function of `connection-store.ts` is a flow that
ends an action at each await; its request is answered, fails, or is lost. The
effect of `App.tsx` that starts and stops the stream belongs to the step that
changes the status.

  - `OneSocket`: at most one socket is connecting or open, and it is the one in
    `ws`. It needs the close in `connectWebSocket` that comes before the new
    socket: without it the orphaned timers leave two.
  - `ListFaithful`: list and pause buffer are the newest of what arrived, below
    the caps, and an update is there only with all required ones before it,
    except what `skipped` records: what a feed's start or a fetched list of
    limited length lies behind, what was cleared, cut off by a cap or lost by a
    full buffer. So a replaced socket loses updates only when the offset has
    moved since its predecessor, which a refresh does.
  - `ShownIsConnected`: status, localStorage and the gateway's session agree
    when nothing is under way, unless requests overlapped or were lost
    (history variables record that; the code does not promise more).
  - `EverythingSettles`: in the end a connected browser streams or, after
    `MAX_RECONNECT_ATTEMPTS` losses in a row, shows that it is disconnected with
    no timer left (`GaveUp`), or it waits for the fetch before its socket. It
    says nothing of a gateway that has no session or no party for it, nor once
    two chains of reconnections replace each other's sockets (`churned`).

`BrowserProofs` proves the first three for any number of
sockets, updates, requests, retries and any caps of list and buffer, with
`BrowserInv`: the types, `ConnectionInv` and `StreamOK`. `ConnectionInv` says
what an answer that a flow still waits for may change; it keeps `Agreed` (what
is shown, saved and held by the gateway) only while no request is under way and
nothing overlapped or was lost (`Calm`). `StreamOK` is `SocketInv` (a socket that
is connecting or open is the one in `ws`) and `ListInv`, which says of the list
and of what every socket has passed that it has no hole but what is in `skipped`,
so that a reconnection can hand over. Two arguments are inductions over the natural numbers: the
library's theorem takes a predicate, which the provers cannot instantiate, so
`Induction` states it for a set (`SetInduction`), from the well-foundedness of
strict inclusion between finite sets.

### Replies (StreamedReplies, AcsPages, ContractChain, ContractHistory)

StreamedReplies has the five collectors with what differs among them: what
settles, how often, whether late messages count. `AnswersFaithful`
(`Collecting`) says that a reply is made of what the ledger has, complete
unless a limit, failure or timeout cut it, and that pages at one offset
partition the list, whatever Redis had cached. ContractChain follows contracts
through a ledger that goes on while it asks; ContractHistory is the lifecycle
route, on participants before and after 3.4 (`HistoryFollowed`).

`AnswersTheorem` (`BrowserProofs`) proves `AnswersFaithful` for all bounds, from
two inductive invariants.

  - `RepliesInv`: the map of the reassignments has an entry for each wanted one
    that was heard of, with the halves that were (`PairedInv`); the other lists
    have what was wanted so far, as long as messages are collected
    (`CollectedInv`); and a call that was cancelled has reached its limit, is
    late or is answered (`CancelledInv`), which is why a reply its failure
    settles may be short. The count of a list is the size of the set of its
    items because an entry is listed once (`ListedOnce`) and the map never
    shrinks below the limit it reached (`PairedNext`).
  - `PagesInv`: a cached snapshot is the filtered list of its offset, an answer
    is the part of it at the page's token (`PartOf`), and the tokens behind the
    page are the multiples of the page size (`TurnedTo`), unless the user
    clicked while a page was loading (`hurried`). That a commit leaves earlier
    offsets alone is what lets a cached snapshot stay true.

`HistoryTheorem` (`BrowserProofs`) proves `HistoryFollowed` for every ledger,
from `HistoryInv`. Of the ledger it needs that a contract is created and
archived at most once and is not used before it is created (`LedgerInv`), which
every transaction keeps. Of the loop it needs that what the updates listed so
far create is either still queued or was visited, that each listed update
archives a visited contract, and that when updates are named every update that
had archived a visited contract before the request came is listed or being
fetched (`ChainLoop`): when the queue is empty nothing is missing.

### The contract page (ContractPanel)

`/contracts` and `/contracts/$contractId` are two routes of one page, so going
from the list to a contract mounts the page anew and going from one contract to
the next does not: the panel, its folded cards and the queries of the first
outlive the change of address. `PanelFollows` says which contract the panel
shows then, when it may be a placeholder, and whose cards are folded.
`HistoryShown` is `HistoryFollowed` and `PanelFollows`. The cards offered are
those of `AcsPages` (three contracts on two pages) and one id that is taken for
a contract and is none; the user makes five moves.

`PanelTheorem` (`BrowserProofs`) proves `PanelFollows` for every list, history
and number of moves. Every change ends in `PanelDrawn`, so there is one lemma
for it (`DrawnKeeps`) and one per action that says the desk it hands over is
`Ready`. The strengthening is what the effect that opens the panel relies on:
the address it was opened for has the route of the current one, and a list that
is still missing is the first page, which is why a placeholder is never a
contract of that page. `HistoryShownTheorem` puts both together.

### The pipeline (CiPipeline)

Each await of `POST /ci/run` and its catch block, against users of the sandbox
page. `CiLeavesOnly` says exactly what may be left once the request is answered:
a sandbox only where a user's reset, begun meanwhile, registered it again; a DAR
only where the disk failed; a connected client only where a step has thrown,
because the catch block (`ci.ts:192`) deletes the sandbox and disconnects
nothing. That client is a leak of the code which the property admits.
`CiTheorem` (`PartsProofs`) proves it; the attempt found a throwing step of the
model that forgot a DAR which a full disk had left, and `CiPipeline` was
corrected. That the request ends is not claimed: its calls have no deadline.

### Transactions and privacy (EventTree, TransactionDetail, Privacy, TransactionsPage, Views)

A transaction is a forest of at most `MaxTxEvents` events, described in one of
the shapes of the participants. `TreeKept`, the part of `EventsDrawn` about it:
the tree has every event once and in order, the state diff has what was consumed
and created, and what is below an event is, by the shape (`BelowAsGiven`):

  - where the participant names the children, its children and nothing else;
  - for flat events with distinct ids, and for ACS deltas, nothing: the mapping
    makes them roots;
  - for flat events whose ids collide, everything that follows an exercise. That
    is its consequences and also what is none of them: `update-service.ts:614`
    never pops `exerciseStack`, so independent exercises are drawn one in the
    other, although the comment above speaks of reconstructed parents.

`TransactionShown` (`Views`): nobody is shown to see what the ledger does not
show them, and the tabs of the page follow when the user goes from one
transaction to the next. A list that the code sorts is `Sorted` from a set and
an order (`Sorting`).

`TransactionTheorem` (`ViewsProofs`) proves `TransactionShown` for every
transaction, any parties and every ledger, from `PrivacyTheorem` and
`TxPageTheorem`.

  - The lemmas about `Sorted` come first: the more elements come before one the
    later it stands (`RankGrows`), so the ranks of a total order are a bijection
    and the list has every element once, in order (`SortedFacts`).
  - `PrivacyInv` says that what is above an event was executed before it and
    that an analysis is the one of the whole transaction for the parties it was
    asked for. Both routes to who sees an event (the matrix and the witnesses)
    are then compared with `Projection`.
  - `TxPageInv` has one part for each of page, privacy tab and workflow tab, and
    each says what that tab may hold while another transaction is on its way:
    what is ticked and compared is of the transaction whose analysis has come
    (`PrivacySound`), and a correlation the page gave is the default of the
    transaction shown (`FlowSound`). Rows that a party sees stand together
    because a sorted list has no inversions (`RowsFacts`).

`DetailTheorem` (`TransactionProofs`) proves `TreeKept` for transactions of any
length, every shape and all ids the mapping may find.

  - An execution writes its events so that those below event `i` are the ones
    from `i` to before the first later event that is not below it (`After`,
    `Span`). What each shape keeps of a transaction has this property
    (`GivenInShape`), and so do the parents the mapping makes up when ids
    collide, which put all that follows an exercise below it (`PutsForest`,
    `PutsFollow`, `BelowHolds`).
  - `Standing` says what is at each id: the event of that number, with what is
    put under it, behind its archive if it consumes. Adding archives establishes
    it, and adding them again changes nothing (`AddedStands`, `DrawnStands`);
    normalising a result leaves it true.
  - The drawing is the one function that unfolds heads and children, as in the
    debugger. The function that gives event `i` its span unfolds them as well,
    so it is the drawing: order, count and what is below an event are read off
    it (`OrderFollows`, `RightBelow`, `NumbersBelow`, `CausesFollow`).
  - `DetailInv` carries this through the request: what is shown is computed from
    the transaction executed so far, and lookups change payloads only.

### Packages (TypeNames, ClauseText, PackageReply, TemplateExplorer)

TypeNames is the text of a type from the package to the input that is drawn
for it. ClauseText reads parties and conditions out of the wrapped expressions
of a template; `builtinToOperator` takes sums for comparisons, so a sum that a
condition names may be shown in its place, and the property says so.
PackageReply is a package of Daml-LF 2.x (`parsePackageFromProto2`): tables of
strings, dotted names and types that grow as definitions are written in any
order, the places in them that the archive holds, and the reader that resolves
them to modules, templates, fields, choices and parameters, with the engine
service coming and going and the cache in between. Reference definitions: the
type itself, the fields and comparisons the clause was compiled from, and
`Compiled` (`AsDeclared`). Two limits are part of the property: a choice whose
argument is a type of another package (Archive) shows the argument as its one
parameter or, since types are looked up by their names without package and
module, the fields of a type of the module that has that name. Left out are archives of
Daml-LF 1.x, read by `parsePackageMessage`, keys, interfaces and type listings.
TemplateExplorer is the page: `PickKept` says that what effects select for late
answers and addresses never replaces what the user picked.

### The debugger (CommandForm, Arguments, EngineInput, Debugger, TracePanels, SimulationTab)

CommandForm: the fields with the contract, the links into the form (a contract's
or transaction's loads the page, the explorer's keeps the stores), the package
that is selected by itself with its fallback to the first listed and its
reselection when the list changes, and the effects that reset fields below a
changed one, in the order React runs them. `FormCoherent`: what is sent is of
one template. It is not claimed once values from a URL have switched the effects
off and a package or template was replaced; and no effect resets the contract,
so it is of the template only where the URL brought it. Arguments: one value on its three ways to the
ledger (`FieldsFaithful`, with TypeNames). EngineInput: contracts and packages
are collected while the ledger goes on (`EngineFed`). Debugger: what the engine
makes of a command becomes steps and trees; TracePanels and SimulationTab: what
the panels hold from one answer to the next (`EventsDrawn`, with the tree of the
transaction page). `EngineFed`, `FormCoherent` and, of `EventsDrawn`, the parts
`ExecutionShown` (Debugger) and `SimulationFollows` (SimulationTab) are proved,
below; the tree of the transaction page is proved above.

### Events, errors, sandboxes (EventsPage, ErrorReport, Views, SandboxPage)

`LedgerTold` (`Views`): the tables and cards list what the polls brought,
selections keep to their rows as far as keys allow, a failure has the same code
and category on every way, and an explanation is that of the code.
`SandboxSelected`: the panel never stays on a sandbox that is gone, through
dialogs, polls and loops that end late. A page that is left goes on waiting for
its mutations and calls (`departed`) beside the next one, whose hooks are new.

`LedgerToldTheorem` (`ViewsProofs`) proves `LedgerTold` for any updates, filters,
ledger, failures and bounds, from `EventsTheorem` and `ErrorTheorem`.

  - The stream: an event is drawn at its place, the number of its update and its
    number in it. The places that pass the filters are a finite set, newest
    first is a total order of them, and `SortedFacts` makes a list of them
    (`CardsFacts`). The store takes an update once (`NoneTwice`), so a place
    belongs to one update. The key of a card names its update, which is why the
    panel stays right although the number in the key goes stale (`ListSound`).
  - The tables: an invariant about what is shown is not inductive, because an
    answer that is on its way is shown later, under another filter. `TableSound`
    therefore bounds every answer of every filter, had or on its way: it says
    nothing that the ledger does not say by now, and of errors only what passes
    its filter. The ledger only grows, so old answers stay below it. What is
    shown is one of these answers (`ShownFacts`).
  - `DetailSound` keeps the copy of the selected reassignment at the row. The
    attempt found a fault of the model, which TLC confirms with `MaxFetches = 4`:
    a poll after a failed first answer clears the error and so brings back the
    rows of the filter before, and `PollTable` did not run the effect of
    `page.tsx:599` on them, which React does. It was corrected.
  - The errors: an explanation, had or on its way, is the guess from the words of
    its code (`ExplanationsSound`), because the knowledge base is asked for a
    table that is not there (`GuessFacts`).

### Bounds and fairness of `application`

The bounds are in `Application.cfg`, one constant for each. The reasons:

| Part | Bounds | Why enough |
|---|---|---|
| browser | two sockets, two updates, two flows, one retry, one reconnection attempt, three moves of the gateway and participants; a ledger with parties and a sandbox without | a replaced socket needs two; a flow that overtakes another needs two; an update that must and one that may arrive; with one attempt and three moves the store gives up |
| replies, pages | three messages, limit 2, two offsets, pages of one | a message before, at and after the limit; a page before and after the one shown |
| history | three contracts, three transactions | a chain with a fork or a rejoin |
| contracts | three contracts on two pages, one stranger, five clicks | a contract the first page lists, one it does not, and a way back |
| ci | every await may fail, one user | steps are sequential |
| detail, privacy | four and three events, two parties | a nested exercise beside a root; a party that sees a part only |
| debugger, panels, simTab | three nodes, two traces, three simulations, one click between answers | a longer and a shorter answer; one that arrives after the next was asked for |
| form, argument, field, input | two packages, three templates that share some choices; every scalar, optional and list of it; types of three levels; two package versions and two commits | an effect that should reset a field meets a value that is still allowed and one that is not; conversions look one level down |
| clause, package | three wraps; two modules whose definitions are written in every order | every wrapper around every other; a type that another module or the argument of Archive has the name of |
| events, errors, sandboxPage, explorer, txPage | two or three rows, sandboxes, packages, transactions | selections, replaced keys and late answers need two of each |

Fairness is stated where something must happen by itself, and nowhere else:
`Pending` in the browser (timers, sockets that open and close, requests the
gateway answers without its participant), `CancelledCallEnds` (grpc-js ends a
cancelled call) and `TimeoutFires` (timers). Nothing that waits for a call to
the participant is fair, since none has a deadline: a POST, a refresh, a fetched
list, the histories and chains of contracts and the steps of the pipeline may
hang. Users, ledgers and failures have no fairness either. `getRecentUpdates`
has no timer and is not part of `EverythingSettles`.

| Run | Bounds | Shows |
|---|---|---|
| `application` | above | the sixteen invariants of the parts and `EverythingSettles` (956,013 states) |
| `debugger_offline` | one command of at most two nodes | finding: `SuccessAdmitted` is violated |

### Proofs about the parts (`PartsProofs`, `EngineProofs`)

Each part is proved for its own specification, whose steps are the ones
`Application` takes when it runs that part: `Application` itself reaches
recursive operators (below), so no theorem can be stated in it.

  - `CiTheorem`: `CiLeavesOnly`. `CiHolds` says, by the step the request is
    at, whether it owns a client and a file that it has yet to give back.
  - `EngineTheorem` (in `EngineProofs`): `EngineFed`. The ledger only grows (`LedgerGrown`), and
    from the moment the offset is fixed the job has the contract as of that
    offset (`Fixed` in `JobInv`), whatever the ledger does afterwards.
  - `FormTheorem`: `FormCoherent`. The effects are a chain of operators; a lemma
    on each says what it restores. The invariant distinguishes a form whose
    fields fit each other (`Fitting`) from one that still shows the address
    (`Linked`), on which the effects do not run. It holds for every catalogue,
    order of selections, links and lists, within the condition above.
  - `PageTheorem`: `SandboxSelected`, with the loops' and requests' types; an
    attempt that has not asked yet has tries left.
  - `ExplorerTheorem`: `PickKept`. What is in the map of packages has been asked
    for and has come (`MapFilled`); what was picked is in the map
    (`PickedKnown`); and an address that waits has nothing to open
    (`Addressed`), so it cannot replace a pick that was made meanwhile. Seven
    lemmas take the effects of the page in the order they run.
  - `SimulationTheorem` (in `EngineProofs`): `SimulationFollows`, for a command
    of any number of nodes. `SimTabInv` says which numbers are given out, that
    what a comparison shows is younger than the result above it, and that the
    panel starts from the request of that result. For the contracts beside the
    tree the rows have to be computed: a drawing is a function that unfolds
    heads and children, and where every child ranks below its parent there is
    one and only one (`UnfoldExists`, `UnfoldUnique`), by the induction over the
    naturals of `Induction`. `TraceableOK` is what it assumes of the catalogue.
  - `DebuggerTheorem` (in `EngineProofs`): `DebuggerTypeOK` and
    `ExecutionShown`, for any number of nodes and requests. The walk that writes
    the steps and the drawing of the tree, with archives added or not, unfold
    the same nodes, so what the steps tell is what the rows tell
    (`TreeTells`); that rests on lemmas about lists of lists (what
    `FlattenSeq` makes of a concatenation, what is spread over one). The steps
    before and after the walk tell nothing (`Quiet`). `DbgInv` says that the
    trace shown is one execution (`OneExecution`) with the current step within
    it, and that a simulation shown is one that was asked for.

## 7. Findings

  - A response whose mapping throws is reported as a stream error while the
    call goes on; the reconnection opens a second call and `sub.cancel` forgets
    the first, which survives the subscription (`event_stream_stop`).
  - The last offset is stored under the subscription's id, which is new for
    every socket, and looked up under a key of session and parties, so nothing
    is ever resumed (`event_stream_resume`, against `redis-schema.md:121`).
  - `GET /api/v1/connect?refresh=true` stores the session without its token
    service; a later DELETE does not stop the background refresh, although its
    comment says so (`sessions_refresh`, against `connection.ts:300`).
  - A sandbox that is deleted while its start awaits the writing of the
    configuration file leaves a process that is spawned afterwards and that
    nothing stops (`sandbox_delete`, against `sandbox-manager.ts:396`).
  - An offline simulation takes every answer of the engine service with status
    200 for a success, although a refused command is answered with 200 and
    `success = false` (`debugger_offline`, `simulate.ts:377` against
    `SimulationResult.scala:11`).

## 8. Observations

Met while modelling, kept by the models as they are, and not stated as runs
because no line of the repository promises otherwise, or because they are a
single place that reading settles.

Gateway.

  - `routes/errors.ts:54` asks for a table `canton_errors` that no migration
    creates (002 creates `error_codes`). Every lookup fails, is logged, and the
    explanation is guessed from the words of the code; codes without such words
    get 404. The errors tab sends no category.
  - The details of a failed call never match (`shared.ts:141`), and
    `decodeRetryInfo` reads a nested message as text, so Retry never waits.
  - The pipeline never has user rights on a participant without user
    management, so `contract_exists` cannot pass there (`ci.ts:142`).
  - A WebSocket without a session is closed with 4003 and the browser goes on
    reconnecting. `getRecentUpdates` has no timeout. A second failed token
    refresh is only logged.
  - DELETE `/connect` clears the cached keys and offsets of every session
    (`connection.ts:304`); the package list is under one key for all, where
    `redis-schema.md:185` says per connection.
  - A package that the fallback parser read stays cached for a day after the
    engine is back and may replace a full answer. The fallback looks for
    modules under field 2, DalfParser's reader of Daml-LF 1.x under field 1.
  - The lifecycle of a contract takes event ids for ids of child contracts
    (`contracts.ts:222`), finds the archiving update only in ids that begin
    with `#`, and lists non-consuming exercises of the archiving transaction
    only. Correlations stream from the bootstrap offset.
  - Traces name disclosed contracts by package name and without signatories;
    simulations pass none. Of several versions of a package the first listed is
    taken. An online simulation reads its offset before it prepares.
  - Arguments: contract ids, records and dates are sent online as text and
    refused; text that looks like a number or has `::` becomes a number or a
    party; unset Booleans show False and are not sent; text in lists reaches
    the engine with escapes; "null" and "None" are read as none.
  - `decodePayload` has no caller; `disconnect()` of the browser calls a
    `require` the bundle does not have.

Pages.

  - Debugger: an exercise's row links the text of its result as a contract; the
    authority tab finds authority missing for admitted commands; the code panel
    asks at step 1, where no template is known, shows the package's first one,
    and does not clear it for another trace; rows stay open by their number
    across traces; Reset leaves banners and the current step; the what-if panel
    compares ids that are fresh for each simulation, so it lists everything.
    A form with a choice and without a contract sends a create with the
    arguments of the choice (`command-service.ts:290`).
  - Transactions: the default search passes a whole trace parent where the
    gateway compares the id inside it, so nothing is found; the default is a
    fresh object at each render and replaces the user's own search. The tree
    greys by witnesses while the matrix ticks stakeholders.
  - Events: keys of cards hold their index in a list that grows at its front,
    so the highlighted card may be another event; the unseen counter counts
    filter changes; "assigned" never matches "unassigned"; errors are opened by
    command id, which resubmissions share.
  - Sandboxes: handlers read the selection and connection of the render they
    were made in; the success of a deletion closes whichever dialog is open; a
    created sandbox that an earlier poll listed is not selected; the dialog says
    a reset preserves packages and parties, which `resetSandbox` does not.
  - Templates: "collapsed by default" against an initial `true`; a package that
    is expanded before the one before it has been answered leaves that one
    empty until toggled twice. A `mode=trace` link sets a mode that the simulate
    route's schema refuses.
  - Contracts: two comments of the page (`page.tsx:40`, `:121`) say the panel
    opens with the lifecycle tab, which `detailTab` never is. Opening a
    contract of a later page mounts the page anew: first page, no time travel,
    and a panel without template and payload. "View Lifecycle" of a child takes
    an event id (`contracts.ts:222`, `:236`) and changes the address only.
    `/transactions?offset=` is a link the transactions page does not read. The
    time-travel presets send seconds as an offset ("5 min ago" is 300). Folded
    cards stay folded by their key when the contract changes.
  - Clauses: a condition of several comparisons shows the first, a condition on
    a sum that it names the sum; parties that depend on a condition are left
    out; in an archive of Daml-LF 1.x a module without templates is given those
    of the package.

## 9. What is only model-checked, and what is not modelled

Proved for all values of the constants are the safety properties of
EventStream, its refinement of Feed, those of Sessions and SandboxManager, of
the browser's stores, the replies and pages the gateway collects, the chains and
histories of contracts with their page, the privacy analysis, the transaction
page, the events page with the errors told there, the pipeline, the engine's
input, the command form, the debugger's traces and trees, the simulation tab, the
sandbox page and the template explorer (sections 3 to 6).

Only model-checked are:

  - liveness under fairness, for which the provers have no ENABLED;
  - of `EventsDrawn`, the panels of a trace (`PanelsFollow`), with their types;
  - `FieldsFaithful` and `PackageRead`: Arguments, TypeNames, ClauseText and
    PackageReply are recursive over data, so what they compute on every input is
    an induction over data that the provers do not have; they are checked on
    all inputs up to a bound against a reference definition. They are the only
    modules with RECURSIVE operators. `Application` reaches them, which is why
    theorems are stated of the parts.

Induction over the natural numbers is within reach in the form of `Induction`,
and is used for the newest updates of the browser's list and for what is drawn
of a tree. tlapm tells the operators of FiniteSets apart in a module that also
instantiates SequencesExt; facts about cardinality that are needed there are
lemmas of `Induction` (`SameCount`).

Not modelled, with the reason in `PROJECT.json`: login and JWT checks, the
decompiler and the source extractor, proto loading and payload decoding, the
package list and bootstrap keys of Redis, the dashboard, settings, onboarding
and workflow pages. Most of the implementation that no definition stands for
is markup of React components (30,000 of 47,600 lines are `.tsx`): layout,
wording and widgets without state of their own.
