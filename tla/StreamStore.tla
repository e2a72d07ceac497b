----------------------------- MODULE StreamStore -----------------------------
(***************************************************************************)
(* The browser's event stream: stores/event-stream-store.ts with the       *)
(* WebSocket that lib/api.ts opens for it.                                 *)
(*                                                                         *)
(* The store keeps one WebSocket in the variable ws, but the handlers of   *)
(* every socket it ever opened stay registered and act on the same store,  *)
(* and so do timers it no longer holds the handle of.  What the gateway    *)
(* does at its end of a socket is a Feed, which EventStream implements.    *)
(*                                                                         *)
(* The functions of the file are operators from stores to stores, so that  *)
(* Browser can run them inside the steps of the connection store.          *)
(*                                                                         *)
(* The updates of all ledgers are numbered as one sequence.  A stream that *)
(* names its parties or its offset itself is left out, and with it what    *)
(* only is said while a connection fails: the "error" handler shows        *)
(* "reconnecting" until the close event that follows it.                   *)
(***************************************************************************)
EXTENDS Integers, Sequences

CONSTANTS
  Sockets,      \* identities of WebSockets; a closed one may be used again
  Updates,      \* the updates of the ledgers
  Required,     \* the updates that pass every filter
  MaxEvents,    \* MAX_EVENTS
  MaxBuffer,    \* MAX_BUFFER
  RecentLimit,  \* the limit=50 of the fetched lists
  MaxAttempts   \* MAX_RECONNECT_ATTEMPTS

ASSUME StoreConstantsOK ==
  /\ Updates \subseteq Nat \ {0} /\ Required \subseteq Updates
  /\ MaxEvents \in Nat \ {0} /\ MaxBuffer \in Nat /\ MaxAttempts \in Nat
  /\ RecentLimit \in 0..MaxEvents

NoSocket == "none"

Offsets == Updates \cup {0}

VARIABLE stream   \* the store, its module-level variables and its sockets

Listener == INSTANCE Feed WITH feed <- [i \in Sockets |-> stream.sockets[i].feed]

\* "closing": close() was called or the connection is lost, and the close
\* event is still to come.
Socket == [state : {"closed", "connecting", "open", "closing"},
           feed  : [status : {"unopened", "open", "ended"},
                    after : Offsets, received : Seq(Updates)]]

ClosedSocket == [state |-> "closed", feed |-> Listener!Unopened]

\* Nothing arrives on it any more.
ClosingSocket == [ClosedSocket EXCEPT !.state = "closing"]

Stream ==
  [sockets  : [Sockets -> Socket],
   ws       : Sockets \cup {NoSocket},
   status   : {"connected", "reconnecting", "disconnected"},
   attempts : 0..MaxAttempts,   \* reconnectAttempts
   timer    : BOOLEAN,          \* reconnectTimer names a pending timer
   orphans  : Nat,              \* pending timers it no longer names
   starting : Nat,              \* startCollection calls awaiting their fetch
   loading  : Nat,              \* loadRecent calls awaiting their fetch
   busy     : BOOLEAN,          \* isLoadingRecent
   events   : Seq(Updates),
   paused   : BOOLEAN,
   buffer   : Seq(Updates),     \* bufferRef
   arrived  : Seq(Updates),     \* history: what was to be shown, in order
   lost     : BOOLEAN,          \* history: the pause buffer overflowed
   skipped  : SUBSET Required,  \* history: updates the list need not hold
   churned  : BOOLEAN]          \* history: see CloseEvent

EmptyStream ==
  [sockets |-> [i \in Sockets |-> ClosedSocket], ws |-> NoSocket,
   status |-> "disconnected", attempts |-> 0, timer |-> FALSE, orphans |-> 0,
   starting |-> 0, loading |-> 0, busy |-> FALSE, events |-> <<>>, paused |-> FALSE,
   buffer |-> <<>>, arrived |-> <<>>, lost |-> FALSE, skipped |-> {},
   churned |-> FALSE]

Alive(t, i) == i # NoSocket /\ t.sockets[i].state \in {"connecting", "open"}

\* The newest n elements of a list.
Newest(list, n) ==
  IF Len(list) <= n THEN list ELSE SubSeq(list, Len(list) - n + 1, Len(list))

SeenIn(list) == {list[i] : i \in DOMAIN list}

\* The history of what need not be held (any more).
Excuse(t, gone) == [t EXCEPT !.skipped = t.skipped \cup (gone \cap Required)]

\* Everything up to an offset.
UpTo(offset) == {u \in Updates : u <= offset}

\* The history keeps no more than can be on display beside the buffer.
Remember(list, buffer) == Newest(list, MaxEvents + Len(buffer))

-----------------------------------------------------------------------------
(***************************************************************************)
(* The WebSocket.                                                          *)
(***************************************************************************)

\* ws.close() and ws := null.
CloseWs(t) ==
  [t EXCEPT !.ws = NoSocket,
            !.sockets = [i \in Sockets |->
               IF i = t.ws /\ Alive(t, i) THEN ClosingSocket ELSE t.sockets[i]]]

ForgetWs(t) == [t EXCEPT !.ws = NoSocket]          \* mutant: no ws.close()

\* The identity a new WebSocket gets.
FreeSocket(t) ==
  CHOOSE i \in Sockets : t.sockets[i].state = "closed" /\ i # t.ws

HasFreeSocket(t) ==
  \E i \in Sockets : t.sockets[i].state = "closed" /\ i # t.ws

ConnectOverOld(t) ==                               \* mutant: old socket kept
  LET u == ForgetWs(t)
      i == FreeSocket(t)
  IN [u EXCEPT !.timer = FALSE, !.status = "reconnecting", !.ws = i,
               !.sockets[i] = [state |-> "connecting",
                               feed |-> Listener!Unopened]]

ConnectWebSocket(t) ==
  LET u == CloseWs(t)
      i == FreeSocket(t)
  IN [u EXCEPT !.timer = FALSE, !.status = "reconnecting", !.ws = i,
               !.sockets[i] = [state |-> "connecting",
                               feed |-> Listener!Unopened]]

DisconnectWebSocket(t) ==
  [CloseWs(t) EXCEPT !.timer = FALSE, !.attempts = 0,
                     !.status = "disconnected"]

\* The "open" handler.
OnOpen(t) == [t EXCEPT !.status = "connected", !.attempts = 0]

OnCloseForever(t) ==                               \* mutant: never gives up
  [t EXCEPT !.status = "disconnected", !.attempts = t.attempts + 1,
            !.timer = TRUE, !.orphans = t.orphans + (IF t.timer THEN 1 ELSE 0)]

\* The "close" handler.  Overwriting reconnectTimer orphans the timer in it.
OnClose(t) ==
  LET d == [t EXCEPT !.status = "disconnected"]
  IN IF t.attempts = MaxAttempts THEN d
     ELSE [d EXCEPT !.attempts = t.attempts + 1, !.timer = TRUE,
                    !.orphans = t.orphans + (IF t.timer THEN 1 ELSE 0)]

-----------------------------------------------------------------------------
(***************************************************************************)
(* The event list.                                                         *)
(***************************************************************************)

\* The list becomes another one, as far as its cap allows.
SetEvents(t, list) ==
  LET kept == Newest(list, MaxEvents)
  IN [Excuse(t, SeenIn(list) \ SeenIn(kept)) EXCEPT !.events = kept]

AddEvent(t, u) == SetEvents(t, Append(t.events, u))

\* The onEvent callback of a message that holds an update.
OnEvent(t, u) ==
  CASE ~t.paused ->
         [AddEvent(t, u) EXCEPT !.arrived = Remember(Append(t.arrived, u), <<>>)]
    [] t.paused /\ Len(t.buffer) < MaxBuffer ->
         [t EXCEPT !.buffer  = Append(t.buffer, u),
                   !.arrived = Append(t.arrived, u)]
    [] OTHER ->
         [Excuse(t, {u}) EXCEPT !.lost = TRUE]

ClearEvents(t) ==
  [Excuse(t, SeenIn(t.events) \cup SeenIn(t.buffer)) EXCEPT
     !.events = <<>>, !.buffer = <<>>, !.arrived = <<>>, !.lost = FALSE]

Pause(t) == [t EXCEPT !.paused = TRUE, !.buffer = <<>>]

ResumeForgetting(t) ==                             \* mutant: no flush
  [t EXCEPT !.buffer = <<>>, !.paused = FALSE]

Resume(t) ==
  [SetEvents(t, t.events \o t.buffer) EXCEPT
     !.buffer = <<>>, !.paused = FALSE, !.arrived = Remember(t.arrived, <<>>)]

\* The elements of a list that are not in a set.
Excluding(list, out) ==
  LET kept[n \in 0..Len(list)] ==
        IF n = 0 THEN <<>>
        ELSE IF list[n] \in out THEN kept[n - 1] ELSE Append(kept[n - 1], list[n])
  IN kept[Len(list)]

\* What GET /api/v1/events/recent answers when the ledger's end is at the
\* offset end, already reversed: the newest RecentLimit updates.
Recent(end) ==
  Newest(Excluding([n \in 1..end |-> n], (1..end) \ Updates), RecentLimit)

\* The history of a fetched list, which does not reach back for ever.
WithFetched(t, end) == Excuse(t, UpTo(end) \ SeenIn(Recent(end)))

StartFetchedOver(t, end) ==                        \* mutant: overwrites
  ConnectWebSocket([t EXCEPT !.starting = t.starting - 1, !.events = Recent(end)])

\* The fetch of startCollection has answered: recent updates are only used
\* when nothing is shown yet, and the socket is opened whatever happened.
StartFetched(t, end) ==
  LET s == [t EXCEPT !.starting = t.starting - 1, !.busy = FALSE]
  IN ConnectWebSocket(
       IF t.events # <<>> THEN s
       ELSE [WithFetched(s, end) EXCEPT !.events  = Recent(end),
                                    !.arrived = Recent(end) \o t.arrived])

\* The fetch of loadRecent has answered: updates that are not shown yet are
\* put in front of the list.
RecentFetched(t, end) ==
  LET added == Excluding(Recent(end), SeenIn(t.events))
  IN [SetEvents(WithFetched(t, end), added \o t.events) EXCEPT
        !.loading = t.loading - 1, !.busy = FALSE,
        !.arrived = Remember(added \o t.arrived, t.buffer)]

StartCollection(t) == [t EXCEPT !.starting = t.starting + 1, !.busy = TRUE]

StopCollection(t) == DisconnectWebSocket(t)

-----------------------------------------------------------------------------
(***************************************************************************)
(* The steps of the store that the connection store has no part in.        *)
(***************************************************************************)

\* The gateway accepts the upgrade and starts a feed at the offset its session
\* has as currentOffset.  Without a session (4003) or without a party in it
\* (4001) it closes the socket at once; the browser has seen it open by then.
OpenEvent(i, accepted, offset) ==
  /\ stream.sockets[i].state = "connecting"
  /\ stream' = OnOpen([Excuse(stream, UpTo(offset)) EXCEPT !.sockets[i] =
                 [state |-> "open",
                  feed  |-> [status   |-> IF accepted THEN "open" ELSE "ended",
                             after    |-> offset,
                             received |-> <<>>]]])

\* An update on an open socket, as the gateway's feed may deliver it.
Message(i, u) ==
  LET f == stream.sockets[i].feed IN
  /\ stream.sockets[i].state = "open"
  /\ Listener!MayDeliver(f, u)
  /\ stream' = OnEvent([stream EXCEPT !.sockets[i].feed.received =
                          Append(f.received, u)], u)

\* The gateway has closed its end.
ServerCloses(i) ==
  /\ stream.sockets[i].state = "open"
  /\ stream.sockets[i].feed.status = "ended"
  /\ stream' = [stream EXCEPT !.sockets[i] = ClosingSocket]

\* The connection breaks or cannot be made.
Drops(i) ==
  /\ Alive(stream, i)
  /\ stream' = [stream EXCEPT !.sockets[i] = ClosingSocket]

\* churned: the close event of a replaced socket arrives while its successor
\* is alive.  The handler does not look which socket it belongs to, so its
\* timer will replace the successor, whose close event comes late as well.
CloseEvent(i) ==
  LET churn == stream.churned \/ (stream.ws # i /\ Alive(stream, stream.ws)) IN
  /\ stream.sockets[i].state = "closing"
  /\ stream' = OnClose([stream EXCEPT !.sockets[i] = ClosedSocket,
                                      !.churned = churn])

TimerFires ==
  /\ stream.timer
  /\ HasFreeSocket(stream)
  /\ stream' = ConnectWebSocket(stream)

OrphanFires ==
  /\ stream.orphans > 0
  /\ HasFreeSocket(stream)
  /\ stream' = ConnectWebSocket([stream EXCEPT !.orphans = stream.orphans - 1])

Started(end) ==
  /\ stream.starting > 0
  /\ HasFreeSocket(stream)
  /\ stream' = StartFetched(stream, end)

Loaded(end) ==
  /\ stream.loading > 0
  /\ stream' = RecentFetched(stream, end)

\* The buttons of the events page.  "Reconnect" is shown while the stream is
\* disconnected; "load recent" is disabled while a list is being loaded.
ReconnectButton ==
  /\ stream.status = "disconnected"
  /\ HasFreeSocket(stream)
  /\ stream' = ConnectWebSocket([stream EXCEPT !.attempts = 0])

LoadButton ==
  /\ ~stream.busy
  /\ stream' = [stream EXCEPT !.loading = stream.loading + 1, !.busy = TRUE]

PauseButton ==
  stream' = IF stream.paused THEN Resume(stream) ELSE Pause(stream)

ClearButton ==
  /\ stream.events # <<>> \/ stream.buffer # <<>>
  /\ stream' = ClearEvents(stream)

-----------------------------------------------------------------------------
(***************************************************************************)
(* Safety of the store.                                                    *)
(***************************************************************************)

\* At most one WebSocket is connecting or open, and it is the one in ws,
\* though timers without a handle, fetches that answer late and close events
\* of replaced sockets all open new ones.  Two would show updates twice.
OneSocket ==
  \A i \in Sockets : Alive(stream, i) => stream.ws = i

\* The list and the pause buffer hold the newest of what arrived since the
\* list was cleared, in the order of arrival and up to the cap of the list,
\* across pauses, resumptions, reconnections and fetched lists.
NewestShown ==
  LET held  == Len(stream.buffer)
      shown == SubSeq(stream.arrived, 1, Len(stream.arrived) - held)
  IN ~stream.lost =>
       /\ held <= Len(stream.arrived)
       /\ stream.events = Newest(shown, MaxEvents)
       /\ stream.buffer = Newest(stream.arrived, held)

\* The sockets' feeds are complete one by one; together they leave no hole
\* in what the browser holds: an update is there only with all required ones
\* that precede it, except those that a feed's start or a fetched list lies
\* behind, and those that were cleared, cut off by a cap or lost when the
\* buffer was full.  So a replaced socket loses updates only when the offset
\* that feeds start at has moved since its predecessor.
NoHoles ==
  LET held == SeenIn(stream.events) \cup SeenIn(stream.buffer)
  IN \A u \in held, r \in Required : r < u => r \in held \cup stream.skipped

-----------------------------------------------------------------------------
(***************************************************************************)
(* The inductive invariant behind them, said of a store: what is held has  *)
(* no holes because every feed has passed only what is accounted for.      *)
(***************************************************************************)

HeldIn(t) == SeenIn(t.events) \cup SeenIn(t.buffer)

Accounted(t) == HeldIn(t) \cup t.skipped

\* The required updates that the feed of a socket has passed.
PassedHeld(t, i) ==
  t.sockets[i].feed.status = "open" =>
    \A r \in Required :
      r <= Listener!Position(t.sockets[i].feed) => r \in Accounted(t)

NewestIn(t) ==
  LET held  == Len(t.buffer)
      shown == SubSeq(t.arrived, 1, Len(t.arrived) - held)
  IN /\ held <= Len(t.arrived)
     /\ t.events = Newest(shown, MaxEvents)
     /\ t.buffer = Newest(t.arrived, held)

NoHolesIn(t) ==
  \A u \in HeldIn(t), r \in Required : r < u => r \in Accounted(t)

ListInv(t) ==
  /\ t.paused \/ t.buffer = <<>>
  /\ Len(t.events) <= MaxEvents
  /\ ~t.lost => NewestIn(t)
  /\ NoHolesIn(t) /\ \A i \in Sockets : PassedHeld(t, i)

SocketInv(t) == \A i \in Sockets : Alive(t, i) => t.ws = i

StreamInv == SocketInv(stream) /\ ListInv(stream)
=============================================================================
