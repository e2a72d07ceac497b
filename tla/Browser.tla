------------------------------- MODULE Browser -------------------------------
(***************************************************************************)
(* The browser application: the connection store and the event stream      *)
(* store, tied together by EventStreamManager of App.tsx, which starts the *)
(* stream when the status becomes "connected" and stops it when it stops   *)
(* being so.  Status changes render synchronously, so its effect belongs   *)
(* to the step that changes the status.                                    *)
(*                                                                         *)
(* disconnect() also tries to stop and clear the stream itself, through a  *)
(* require() that the bundle does not define: the exception is ignored and *)
(* nothing of it happens.                                                  *)
(***************************************************************************)
EXTENDS ConnectionStore, StreamStore

CONSTANT Partyless   \* the ledgers that have no party when they are connected to

VARIABLE info   \* of the session's bootstrapInfo, what event streams depend on

browserVars == <<connectionVars, stream, info>>

\* currentOffset, and whether a party is named by the user's rights or known.
\* An offset that no stream starts at is left out.
NoInfo == [offset |-> 0, parties |-> FALSE]

BootstrapInfo == {NoInfo} \cup [offset : Offsets, parties : {TRUE}]

BrowserInit(loaded) ==
  /\ ConnectionInit(loaded)
  /\ stream = EmptyStream
  /\ info = NoInfo

\* The effect of EventStreamManager.
Managed(t, old, new) ==
  CASE new = "connected" /\ old # "connected" -> StartCollection(t)
    [] new # "connected" /\ old = "connected" -> StopCollection(t)
    [] OTHER                                  -> t

Manage == stream' = Managed(stream, app.status, app'.status)

\* unsubscribeForSession: the gateway ends the feeds of all open sockets.
EndFeeds(t) ==
  [t EXCEPT !.sockets = [i \in Sockets |->
     IF t.sockets[i].feed.status = "open"
     THEN [t.sockets[i] EXCEPT !.feed.status = "ended"] ELSE t.sockets[i]]]

SameInfo == UNCHANGED info

Unmanaged == UNCHANGED connectionVars /\ SameInfo

Connecting ==
  /\ Buttons \/ \E n \in Flows : PageTimer(n)
  /\ Manage /\ SameInfo

Answering(n) ==
  /\ Answer(n)
  /\ Manage /\ SameInfo

\* A POST that succeeds reads the end of the ledger and its parties.
Bootstraps(n) ==
  /\ PostDone(n)
  /\ info' \in BootstrapInfo
  /\ info'.parties <=> session' \notin Partyless

\* refreshBootstrap reads both again, whether or not all of it succeeds.
Refreshes(n) ==
  /\ GetHandled(n)
  /\ flow[n].kind = "refresh" /\ session # Nothing
  /\ info' \in BootstrapInfo
  /\ info.offset <= info'.offset

\* Requests that are answered without asking the participant.
AnswersAlone(n) ==
  /\ GetHandled(n)
  /\ flow[n].kind # "refresh" \/ session = Nothing
  /\ SameInfo

\* The gateway has no session any more.
Unsubscribes(n) ==
  /\ Unsubscribing(n)
  /\ stream' = EndFeeds(stream)
  /\ info' = NoInfo

Serving(n) ==
  \/ Bootstraps(n) /\ UNCHANGED stream
  \/ Refreshes(n) /\ UNCHANGED stream
  \/ AnswersAlone(n) /\ UNCHANGED stream
  \/ (PostFails(n) \/ SandboxCreated(n)) /\ UNCHANGED stream /\ SameInfo
  \/ Unsubscribes(n)

Disturbing ==
  /\ \/ SessionLost /\ info' = NoInfo
     \/ (\E s \in Sandboxes : SandboxDeleted(s)) /\ SameInfo
     \/ (\E n \in Flows : RequestLost(n)) /\ SameInfo
  /\ UNCHANGED stream

ReloadPage ==
  /\ Reload
  /\ stream' = EmptyStream
  /\ SameInfo

EventsPage ==
  /\ Move
  /\ ReconnectButton \/ LoadButton \/ PauseButton \/ ClearButton
  /\ UNCHANGED <<app, saved, flow, session, sandboxes, disturbed>> /\ SameInfo

SocketDrops ==
  /\ Move
  /\ \E i \in Sockets : Drops(i)
  /\ UNCHANGED <<app, saved, flow, session, sandboxes, disturbed>> /\ SameInfo

\* A session whose ledger has a party to read for.
Readable == session # Nothing /\ info.parties

Opens(i)       == OpenEvent(i, Readable, info.offset) /\ Unmanaged
Receives(i)    == (\E u \in Updates : Message(i, u)) /\ Unmanaged
LosesServer(i) == ServerCloses(i) /\ Unmanaged
Closes(i)      == CloseEvent(i) /\ Unmanaged
Timer          == TimerFires /\ Unmanaged
Orphan         == OrphanFires /\ Unmanaged

\* Where the ledger may end when a list of recent updates is fetched, which a
\* failed fetch, a missing session or one without a party leaves empty.
Ends == {0} \cup (IF Readable THEN Updates ELSE {})

Starts == (\E end \in Ends : Started(end)) /\ Unmanaged
Loads  == (\E end \in Ends : Loaded(end)) /\ Unmanaged

BrowserNext ==
  \/ Connecting \/ ReloadPage \/ EventsPage \/ Disturbing \/ SocketDrops
  \/ \E n \in Flows : Answering(n) \/ Serving(n)
  \/ \E i \in Sockets : Opens(i) \/ Receives(i) \/ LosesServer(i) \/ Closes(i)
  \/ Timer \/ Orphan \/ Starts \/ Loads

BrowserSpec == BrowserInit(TRUE) /\ [][BrowserNext]_browserVars

\* What happens while it is due: the gateway answers what it need not ask the
\* participant for, requests that are answered or lost go on, sockets open,
\* close events arrive, timers fire.  The participant may stay silent for ever,
\* its calls have no deadline, and with them a POST, a refresh and a fetched
\* list.  Users, losses and messages are not fair.
Pending ==
  \/ \E n \in Flows : \/ Answering(n) \/ (PageTimer(n) /\ Manage /\ SameInfo)
                      \/ AnswersAlone(n) /\ UNCHANGED stream
                      \/ Unsubscribes(n)
  \/ \E i \in Sockets : Opens(i) \/ LosesServer(i) \/ Closes(i)
  \/ Timer \/ Orphan

-----------------------------------------------------------------------------
\* Every variable has its type.
BrowserTypeOK ==
  /\ ConnectionTypeOK /\ stream \in Stream
  /\ info \in BootstrapInfo

\* What the browser holds of the stream is the newest and has no holes.
ListFaithful == NewestShown /\ NoHoles

Streaming ==
  /\ stream.ws # NoSocket
  /\ stream.sockets[stream.ws].state = "open"
  /\ stream.sockets[stream.ws].feed.status = "open"

\* The store has used up its attempts and tells so.
GaveUp ==
  /\ stream.status = "disconnected" /\ stream.attempts = MaxAttempts
  /\ ~stream.timer /\ stream.orphans = 0

\* A connected browser has an open socket with a live feed, or it shows that
\* it has given up, or it still waits for the list it fetches before it opens
\* one.  That is not so once the stream has churned (CloseEvent), which
\* replaces good sockets for ever, nor when the gateway has lost the session
\* or knows no party in it, which refuses every socket.
StreamSettled ==
  \/ Streaming \/ GaveUp \/ stream.starting > 0
  \/ app.status # "connected" \/ ~Readable \/ stream.churned
=============================================================================
