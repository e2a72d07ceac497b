---------------------------- MODULE EventStream ----------------------------
(***************************************************************************)
(* The gateway's live event stream: services/event-stream.ts together with *)
(* the WebSocket route that creates subscriptions (routes/events.ts) and   *)
(* UpdateService.getUpdates, the gRPC call a subscription reads from.      *)
(*                                                                         *)
(* One browser session opens WebSockets.  The route gives every one of     *)
(* them a subscription of its own (the id holds a fresh UUID), so s \in    *)
(* Subs names a WebSocket and its subscription, and sub.websockets holds   *)
(* that socket or nothing.  A subscription reads the ledger through a      *)
(* server-streaming call; callbacks of an old call stay registered and act *)
(* on the same subscription object, which is what makes the code delicate. *)
(*                                                                         *)
(* The single-threaded event loop runs one callback at a time, so an       *)
(* action is one callback: a socket event, a call's data, error or end     *)
(* event, a timer, a request, or the continuation of the only await (the   *)
(* cache lookup in the route).                                             *)
(***************************************************************************)
EXTENDS Integers, Sequences

CONSTANTS
  Subs,             \* WebSockets of one session, each with its subscription
  Filters,          \* the EventStreamFilters clients ask for
  MaxOffset,        \* ledger offsets are 1..MaxOffset
  Served,           \* Served[f]: offsets the participant sends under f
  Passes,           \* Passes[f]: offsets that pass passesFilter under f
  Unmappable,       \* offsets whose response mapping throws
  BootstrapOffset,  \* bootstrapInfo.currentOffset, the fallback start
  EarlyClient,      \* may a client close or send before "subscribed"?
  ServerEnds,       \* may the participant end a call without an error?
  MaxFaults,        \* bound: calls that fail, end or meet a mapping error
  MaxUpdates        \* bound: filter_update messages

Offsets   == 1..MaxOffset
Positions == 0..MaxOffset

ASSUME ConstantsOK ==
  /\ MaxOffset \in Nat /\ MaxFaults \in Nat /\ MaxUpdates \in Nat
  /\ Filters # {}
  /\ Served \in [Filters -> SUBSET Offsets]
  /\ Passes \in [Filters -> SUBSET Offsets]
  /\ Unmappable \subseteq Offsets
  /\ BootstrapOffset \in Positions
  /\ EarlyClient \in BOOLEAN /\ ServerEnds \in BOOLEAN

NoOffset == -1      \* getLastOffset found nothing
NoCall   == 0       \* sub.cancel = null

\* The Redis keys of last offsets: setLastOffset writes the subscription id,
\* the route reads a key made of the session and its parties.
LookupKey == "session-parties"

VARIABLES
  conn,      \* conn[s]: a WebSocket, its subscription and its gRPC calls
  cached,    \* cached[k]: the last offset stored under key k
  clientUp,  \* client.isConnected() of the session's Canton client
  faults,    \* counts towards MaxFaults
  updates    \* counts towards MaxUpdates

vars == <<conn, cached, clientUp, faults, updates>>

Call == [id        : Nat \ {0},  \* the n-th getUpdates call of s
         filter    : Filters,    \* the filter it was opened with
         cursor    : Positions,  \* last offset the participant sent on it
         cancelled : BOOLEAN]    \* stream.cancel() was called

Connection ==
  [phase      : {"idle", "lookup", "live", "gone"},   \* "live": in the map
   sock       : {"none", "open", "closing", "closed"},
   asked      : Filters,     \* the filter the client last asked for
   start      : Positions,   \* the offset the subscription started after
   filter     : Filters,     \* sub.filter
   lastOffset : Positions,   \* sub.lastOffset
   websocket  : BOOLEAN,     \* sub.websockets holds the socket
   isActive   : BOOLEAN,     \* sub.isActive
   cancel     : Nat,         \* sub.cancel: the call it cancels, or NoCall
   opened     : Nat,         \* calls opened so far
   calls      : SUBSET Call, \* calls that have not failed or ended
   retries    : Nat,         \* pending 3 s reconnection timers
   grace      : BOOLEAN,     \* the 10 s grace timer is pending
   sent       : Seq(Offsets)]\* updates written to the socket, in order

Idle ==
  LET any == CHOOSE f \in Filters : TRUE
  IN [phase |-> "idle", sock |-> "none", asked |-> any, start |-> 0,
      filter |-> any, lastOffset |-> 0, websocket |-> FALSE,
      isActive |-> FALSE, cancel |-> NoCall, opened |-> 0, calls |-> {},
      retries |-> 0, grace |-> FALSE, sent |-> <<>>]

-----------------------------------------------------------------------------
(***************************************************************************)
(* What the functions of event-stream.ts do to a connection c.             *)
(***************************************************************************)

\* sub.cancel(): a no-op on a call that has already failed or ended.
CancelCall(c) ==
  [c EXCEPT !.calls = {IF x.id = c.cancel THEN [x EXCEPT !.cancelled = TRUE]
                                          ELSE x : x \in c.calls}]

UnsubscribeLeavingSocket(c) ==                     \* mutant: socket kept
  IF c.phase # "live" THEN c
  ELSE [CancelCall(c) EXCEPT !.phase = "gone", !.isActive = FALSE]

UnsubscribeFromEventStream(c) ==
  IF c.phase # "live" THEN c
  ELSE [CancelCall(c) EXCEPT
          !.phase = "gone", !.websocket = FALSE, !.isActive = FALSE,
          !.sock = IF c.websocket /\ c.sock = "open"
                   THEN "closing" ELSE c.sock]

OpenCall(c, from) ==
  [c EXCEPT !.isActive = TRUE,
            !.opened   = c.opened + 1,
            !.cancel   = c.opened + 1,
            !.calls    = c.calls \cup {[id |-> c.opened + 1,
                                        filter |-> c.filter,
                                        cursor |-> from,
                                        cancelled |-> FALSE]}]

StartStreamPastOffset(c, up) ==                    \* mutant: offset + 1
  IF c.isActive THEN c
  ELSE IF ~up THEN UnsubscribeFromEventStream(c)
  ELSE OpenCall(c, c.lastOffset + 1)

\* begin_exclusive is lastOffset; an active subscription is left alone.
StartStream(c, up) ==
  IF c.isActive THEN c
  ELSE IF ~up THEN UnsubscribeFromEventStream(c)
  ELSE OpenCall(c, c.lastOffset)

UpdateFilterInactive(c, f, up) ==                  \* mutant: isActive := FALSE
  StartStream([CancelCall(c) EXCEPT !.filter = f, !.cancel = NoCall,
                                    !.isActive = FALSE], up)

UpdateFilterKeepingCall(c, f, up) ==               \* mutant: no cancel()
  StartStream([c EXCEPT !.filter = f, !.cancel = NoCall], up)

\* The restart is a no-op while isActive is still TRUE: the new filter waits
\* for the CANCELLED error of the old call and the reconnection timer.
UpdateStreamFilter(c, f, up) ==
  IF c.phase # "live" THEN c
  ELSE StartStream([CancelCall(c) EXCEPT !.filter = f, !.cancel = NoCall], up)

OnErrorNoTimer(c) == [c EXCEPT !.isActive = FALSE] \* mutant: no reconnection

\* The onError callback.  grpc-js emits "end" right after "error"; the onEnd
\* callback then repeats isActive := FALSE and changes nothing more.
OnError(c) == [c EXCEPT !.isActive = FALSE, !.retries = c.retries + 1]

OnEnd(c) == [c EXCEPT !.isActive = FALSE]

OnUpdateUntracked(c, o) ==                         \* mutant: offset not kept
  IF o \notin Passes[c.filter] THEN c
  ELSE [c EXCEPT !.sent = IF c.websocket /\ c.sock = "open"
                          THEN Append(c.sent, o) ELSE c.sent]

\* The onUpdate callback for a mapped update at offset o.
OnUpdate(c, o) ==
  IF o \notin Passes[c.filter] THEN c
  ELSE LET d == [c EXCEPT !.lastOffset = o,
                          !.sent = IF c.websocket /\ c.sock = "open"
                                   THEN Append(c.sent, o) ELSE c.sent]
       IN IF c.websocket THEN d ELSE UnsubscribeFromEventStream(d)

-----------------------------------------------------------------------------
Init ==
  /\ conn = [s \in Subs |-> Idle]
  /\ cached = [k \in Subs \cup {LookupKey} |-> NoOffset]
  /\ clientUp = TRUE
  /\ faults = 0
  /\ updates = 0

Become(s, c) == conn' = [conn EXCEPT ![s] = c]

Fault == /\ faults < MaxFaults
         /\ faults' = faults + 1

\* The start of the route: requireCantonContext holds, no offset was given,
\* and the handler awaits cache.getLastOffset.
OpenSocket(s, f) ==
  /\ conn[s].phase = "idle"
  /\ clientUp
  /\ Become(s, [conn[s] EXCEPT !.phase = "lookup", !.sock = "open",
                               !.asked = f, !.filter = f])
  /\ UNCHANGED <<cached, clientUp, faults, updates>>

\* subscribeToEventStream creates the subscription, attaches the socket's
\* handlers and starts the stream.
Subscribed(c, from) ==
  StartStream([c EXCEPT !.phase = "live", !.websocket = TRUE,
                        !.start = from, !.lastOffset = from], clientUp)

StartOffset ==
  IF cached[LookupKey] # NoOffset THEN cached[LookupKey] ELSE BootstrapOffset

SubscribeToEventStream(s) ==
  /\ conn[s].phase = "lookup"
  /\ Become(s, Subscribed(conn[s], StartOffset))
  /\ UNCHANGED <<cached, clientUp, faults, updates>>

\* With an explicit ?offset= the route does not wait for the cache.
SubscribeFromOffset(s, f, from) ==
  /\ conn[s].phase = "idle"
  /\ clientUp
  /\ Become(s, Subscribed([conn[s] EXCEPT !.sock = "open", !.asked = f,
                                          !.filter = f], from))
  /\ UNCHANGED <<cached, clientUp, faults, updates>>

-----------------------------------------------------------------------------
(***************************************************************************)
(* The gRPC calls.  A cancelled call may still emit data that was on its   *)
(* way; it then fails with CANCELLED (or ends, had the server ended it).   *)
(***************************************************************************)

\* o is the next update the participant sends on call x.
NextUpdate(x, o) ==
  /\ o \in Served[x.filter]
  /\ o > x.cursor
  /\ \A p \in Served[x.filter] : p > x.cursor => o <= p

Advanced(c, x, o) ==
  [c EXCEPT !.calls = (c.calls \ {x}) \cup {[x EXCEPT !.cursor = o]}]

\* getUpdates: a "data" event that maps reaches onUpdate.
Data(s) ==
  \E x \in conn[s].calls, o \in Offsets \ Unmappable :
    /\ NextUpdate(x, o)
    /\ Become(s, OnUpdate(Advanced(conn[s], x, o), o))
    /\ cached' = IF o \in Passes[conn[s].filter]
                 THEN [cached EXCEPT ![s] = o] ELSE cached
    /\ UNCHANGED <<clientUp, faults, updates>>

\* getUpdates: a "data" event whose mapping throws reaches onError, and the
\* call goes on.
MappingError(s) ==
  \E x \in conn[s].calls, o \in Unmappable :
    /\ NextUpdate(x, o)
    /\ Fault
    /\ Become(s, OnError(Advanced(conn[s], x, o)))
    /\ UNCHANGED <<cached, clientUp, updates>>

CallFails(s) ==
  \E x \in conn[s].calls :
    /\ ~x.cancelled
    /\ Fault
    /\ Become(s, OnError([conn[s] EXCEPT !.calls = conn[s].calls \ {x}]))
    /\ UNCHANGED <<cached, clientUp, updates>>

CallCancelled(s) ==
  \E x \in conn[s].calls :
    /\ x.cancelled
    /\ Become(s, OnError([conn[s] EXCEPT !.calls = conn[s].calls \ {x}]))
    /\ UNCHANGED <<cached, clientUp, faults, updates>>

CallEnds(s) ==
  \E x \in conn[s].calls :
    /\ ServerEnds
    /\ Fault
    /\ Become(s, OnEnd([conn[s] EXCEPT !.calls = conn[s].calls \ {x}]))
    /\ UNCHANGED <<cached, clientUp, updates>>

ReconnectUnchecked(c) == StartStream(c, clientUp)  \* mutant: no has(sub.id)

\* The body of the reconnection timer.
Reconnect(c) ==
  IF c.phase = "live" /\ c.websocket THEN StartStream(c, clientUp) ELSE c

RetryTimer(s) ==
  /\ conn[s].retries > 0
  /\ Become(s, Reconnect([conn[s] EXCEPT !.retries = conn[s].retries - 1]))
  /\ UNCHANGED <<cached, clientUp, faults, updates>>

-----------------------------------------------------------------------------
(***************************************************************************)
(* The WebSocket.                                                          *)
(***************************************************************************)

HasHandlers(c) == c.phase \in {"live", "gone"}

\* A filter_update message.  It is lost while no handler is attached.
FilterUpdate(s, f) ==
  /\ conn[s].sock = "open"
  /\ HasHandlers(conn[s]) \/ EarlyClient
  /\ updates < MaxUpdates
  /\ updates' = updates + 1
  /\ Become(s, UpdateStreamFilter([conn[s] EXCEPT !.asked = f], f, clientUp))
  /\ UNCHANGED <<cached, clientUp, faults>>

\* The client or the network starts to close the socket.
SocketClosing(s) ==
  /\ conn[s].sock = "open"
  /\ HasHandlers(conn[s]) \/ EarlyClient
  /\ Become(s, [conn[s] EXCEPT !.sock = "closing"])
  /\ UNCHANGED <<cached, clientUp, faults, updates>>

\* An "error" event, which the "close" event follows.
SocketError(s) ==
  /\ conn[s].sock = "open"
  /\ HasHandlers(conn[s])
  /\ Become(s, [conn[s] EXCEPT !.sock = "closing", !.websocket = FALSE])
  /\ UNCHANGED <<cached, clientUp, faults, updates>>

ForgetNothing(c) == [c EXCEPT !.websocket = FALSE] \* mutant: no grace timer

\* The "close" handler.
OnClose(c) == [c EXCEPT !.websocket = FALSE, !.grace = TRUE]

SocketClosed(s) ==
  LET c == [conn[s] EXCEPT !.sock = "closed"] IN
  /\ conn[s].sock = "closing"
  /\ Become(s, IF HasHandlers(c) THEN OnClose(c) ELSE c)
  /\ UNCHANGED <<cached, clientUp, faults, updates>>

GraceTimer(s) ==
  LET c == [conn[s] EXCEPT !.grace = FALSE] IN
  /\ conn[s].grace
  /\ Become(s, IF c.websocket THEN c ELSE UnsubscribeFromEventStream(c))
  /\ UNCHANGED <<cached, clientUp, faults, updates>>

-----------------------------------------------------------------------------
(***************************************************************************)
(* The session's Canton client goes away.                                  *)
(***************************************************************************)

\* POST or DELETE /api/v1/connect: unsubscribeForSession, then disconnect.
Disconnect ==
  /\ clientUp
  /\ clientUp' = FALSE
  /\ conn' = [s \in Subs |-> UnsubscribeFromEventStream(conn[s])]
  /\ UNCHANGED <<cached, faults, updates>>

\* A session that is evicted or times out: disconnectSession leaves the
\* subscriptions in place.
Expire ==
  /\ clientUp
  /\ clientUp' = FALSE
  /\ UNCHANGED <<conn, cached, faults, updates>>

Next ==
  \/ \E s \in Subs, f \in Filters : OpenSocket(s, f)
  \/ \E s \in Subs : SubscribeToEventStream(s)
  \/ \E s \in Subs, f \in Filters, o \in Positions : SubscribeFromOffset(s, f, o)
  \/ \E s \in Subs : Data(s)
  \/ \E s \in Subs : MappingError(s)
  \/ \E s \in Subs : CallFails(s)
  \/ \E s \in Subs : CallCancelled(s)
  \/ \E s \in Subs : CallEnds(s)
  \/ \E s \in Subs : RetryTimer(s)
  \/ \E s \in Subs, f \in Filters : FilterUpdate(s, f)
  \/ \E s \in Subs : SocketClosing(s)
  \/ \E s \in Subs : SocketError(s)
  \/ \E s \in Subs : SocketClosed(s)
  \/ \E s \in Subs : GraceTimer(s)
  \/ Disconnect
  \/ Expire

Spec == Init /\ [][Next]_vars

\* The event loop runs every timer that is due, every pending event of a
\* call or a socket and the continuation of the cache lookup; a participant
\* keeps sending what a running call asked for.  Clients, faults and session
\* changes are not fair.
Fairness ==
  \A s \in Subs :
    /\ WF_vars(SubscribeToEventStream(s))
    /\ WF_vars(Data(s))
    /\ WF_vars(CallCancelled(s))
    /\ WF_vars(RetryTimer(s))
    /\ WF_vars(SocketClosed(s))
    /\ WF_vars(GraceTimer(s))

FairSpec == Spec /\ Fairness

-----------------------------------------------------------------------------
(***************************************************************************)
(* Safety.                                                                 *)
(***************************************************************************)

\* Every variable has its type.
TypeOK ==
  /\ conn \in [Subs -> Connection]
  /\ cached \in [Subs \cup {LookupKey} -> Positions \cup {NoOffset}]
  /\ clientUp \in BOOLEAN
  /\ faults \in 0..MaxFaults
  /\ updates \in 0..MaxUpdates

\* A subscription never reads the ledger through two calls at once, not even
\* through a cancelled call that has not failed yet beside its successor:
\* their callbacks share isActive and lastOffset.  It is what isActive is
\* for, and it holds as long as no response mapping throws.
OneCall ==
  \A s \in Subs : \A x, y \in conn[s].calls : x = y

\* A running call belongs to a subscription that can still cancel it: when
\* a subscription has been unsubscribed, no call of it keeps running.
RunningCallsCancellable ==
  \A s \in Subs : \A x \in conn[s].calls :
    x.cancelled \/ (conn[s].phase = "live" /\ conn[s].cancel = x.id)

\* Unsubscribing stops a subscription entirely: all of its calls are
\* cancelled (the comment of unsubscribeFromEventStream).
StoppedEntirely ==
  \A s \in Subs : conn[s].phase = "gone" =>
    \A x \in conn[s].calls : x.cancelled

\* No update is written to a socket twice or out of order, whatever failures,
\* reconnections and filter changes happen in between.
NoDuplicates ==
  \A s \in Subs : \A i, j \in DOMAIN conn[s].sent :
    i < j => conn[s].sent[i] < conn[s].sent[j]

\* The updates every filter asks for, and that can be mapped.
Always == {o \in Offsets \ Unmappable :
             \A f \in Filters : o \in Served[f] \cap Passes[f]}

SentSet(c) == {c.sent[i] : i \in DOMAIN c.sent}

\* Reconnecting at lastOffset skips nothing: while the socket is open, every
\* update up to lastOffset that all the filters let through has been written
\* to it, even when mapping errors make several calls run side by side.
NoMissedUpdates ==
  \A s \in Subs :
    conn[s].phase = "live" /\ conn[s].sock = "open" =>
      \A o \in Always :
        conn[s].start < o /\ o <= conn[s].lastOffset => o \in SentSet(conn[s])

\* Once a subscription has ended, nothing more is written to its socket,
\* though callbacks of its calls and its timers may still run.
SilentAfterEnd ==
  [][\A s \in Subs : conn[s].phase = "gone" =>
       conn'[s].phase = "gone" /\ conn'[s].sent = conn[s].sent]_vars

\* A socket that reconnects without an offset resumes after what the session
\* has already received (redis-schema.md: "resume streaming after
\* reconnection without missing or duplicating events").
ResumesAfterReconnection ==
  [][\A s, t \in Subs :
       /\ conn[t].phase = "lookup" /\ conn'[t].phase = "live"
       /\ conn[s].phase = "gone"
       => \A o \in SentSet(conn[s]) : o <= conn'[t].start]_vars

-----------------------------------------------------------------------------
(***************************************************************************)
(* Liveness.                                                               *)
(***************************************************************************)

Attached(s) == conn[s].phase = "live" /\ conn[s].sock = "open"

\* A filter the client asks for is eventually the filter of a running call,
\* though the code only cancels the old call and relies on its CANCELLED
\* error and the reconnection timer to open the new one.
FilterApplied ==
  \A s \in Subs, f \in Filters :
    Attached(s) /\ conn[s].asked = f ~>
      \/ ~Attached(s) \/ conn[s].asked # f
      \/ \E x \in conn[s].calls : ~x.cancelled /\ x.filter = f

\* An update every filter asks for reaches every socket that stays, across
\* failed calls and filter changes.
EventuallyDelivered ==
  \A s \in Subs, o \in Always :
    Attached(s) /\ conn[s].start < o ~>
      ~Attached(s) \/ o \in SentSet(conn[s])

\* The subscription of a closed socket is eventually dropped.
ClosedSocketForgotten ==
  \A s \in Subs :
    conn[s].sock = "closed" ~> conn[s].phase # "live"
-----------------------------------------------------------------------------
(***************************************************************************)
(* The promise of the stream.                                              *)
(***************************************************************************)

\* What the client sees of a connection.
Seen(c) ==
  [status   |-> CASE c.phase \in {"idle", "lookup"}            -> "unopened"
                  [] c.phase = "live" /\ c.sock = "open"       -> "open"
                  [] OTHER                                     -> "ended",
   after    |-> c.start,
   received |-> c.sent]

Listening == INSTANCE Feed WITH
  Sockets  <- Subs,
  Updates  <- Offsets,
  Required <- Always,
  feed     <- [s \in Subs |-> Seen(conn[s])]

\* The subscriptions, with all of their calls, retries, filter changes and
\* timers, implement a feed: in order, nothing twice, nothing skipped, and
\* nothing after the end.  It needs every update to be mappable.
ImplementsFeed == Listening!Spec

-----------------------------------------------------------------------------
(***************************************************************************)
(* The inductive invariants behind the safety properties, one connection   *)
(* at a time.                                                              *)
(***************************************************************************)

\* Before a subscription exists nothing of it does, and a socket belongs to
\* websockets only while the subscription is in the map.
Lifecycle(c) ==
  /\ c.phase \in {"idle", "lookup"} =>
       c.calls = {} /\ ~c.isActive /\ c.sent = <<>>
  /\ c.phase # "live" => ~c.websocket
  /\ c.phase = "live" /\ c.sock = "open" => c.websocket

\* isActive guards the only call, and the only running call is the one
\* sub.cancel cancels.
OneCallInv(c) ==
  /\ c.phase = "live" /\ ~c.isActive => c.calls = {}
  /\ \A x, y \in c.calls : x = y
  /\ \A x \in c.calls : x.cancelled \/ (c.phase = "live" /\ c.cancel = x.id)

\* lastOffset is ahead of everything sent and behind every call.
OrderInv(c) ==
  /\ \A x \in c.calls : c.lastOffset <= x.cursor
  /\ \A i \in DOMAIN c.sent : c.sent[i] <= c.lastOffset
  /\ \A i, j \in DOMAIN c.sent : i < j => c.sent[i] < c.sent[j]

\* What lastOffset or a call has passed has been sent.
Reached(c, o) == o <= c.lastOffset \/ \E x \in c.calls : o <= x.cursor

CompleteInv(c) ==
  c.phase = "live" /\ c.sock = "open" =>
    \A o \in Always : c.start < o /\ Reached(c, o) => o \in SentSet(c)

\* The inductive invariant: mapping errors break the order, never the rest.
ConnInv(c) ==
  /\ Lifecycle(c)
  /\ CompleteInv(c)
  /\ Unmappable = {} => OneCallInv(c) /\ OrderInv(c)

IInv == \A s \in Subs : ConnInv(conn[s])

\* A subscription never goes back before the offset it was opened at, not
\* even when mapping errors make several calls run side by side.
StartedAfter(c) ==
  /\ c.start <= c.lastOffset
  /\ \A x \in c.calls : c.start <= x.cursor
  /\ \A i \in DOMAIN c.sent : c.start < c.sent[i]

StartInv == \A s \in Subs : StartedAfter(conn[s])
=============================================================================
