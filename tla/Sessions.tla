------------------------------ MODULE Sessions ------------------------------
(***************************************************************************)
(* The gateway's connection management: the session map and its limit      *)
(* (middleware/canton-context.ts), the POST, DELETE and GET handlers of    *)
(* /api/v1/connect (routes/connection.ts), the life of a CantonClient      *)
(* (canton/client.ts) and of the OAuth2TokenService that keeps its token   *)
(* fresh (services/oauth2.ts).                                             *)
(*                                                                         *)
(* The k-th POST creates client k and, when an IAM URL is given, token     *)
(* service k.  Every await of a handler ends an action, so other requests, *)
(* timers and the periodic cleanup run between two steps of a handler.     *)
(*                                                                         *)
(* unsubscribeForSession, which POST and DELETE call first, is Disconnect  *)
(* of module EventStream.  Times are left out: any session may be the one  *)
(* that has been idle longest, and any may have been idle for 30 minutes.  *)
(***************************************************************************)
EXTENDS Integers, FiniteSets

CONSTANTS
  Sids,          \* browser sessions
  MaxSessions,   \* MAX_SESSIONS
  MaxAttempts,   \* maxAttempts of the connection loop
  MaxConnects    \* bound: POST requests

ASSUME ConstantsOK ==
  /\ IsFiniteSet(Sids) /\ Sids # {}
  /\ MaxSessions \in Nat \ {0}
  /\ MaxAttempts \in Nat \ {0}
  /\ MaxConnects \in Nat

Posts == 1..MaxConnects
None  == 0

VARIABLES
  sessions,   \* sessions[sid]: the entry of the session map, or NoSession
  post,       \* post[k]: the k-th POST /api/v1/connect
  connected,  \* connected[k]: CantonClient k is connected
  service,    \* service[k]: OAuth2TokenService k
  refreshing, \* refreshing[sid]: the running GET ?refresh=true of sid
  overlapped, \* history: sessions that sent a request while one was running
  refreshed   \* history: sessions whose bootstrap data was refreshed

vars == <<sessions, post, connected, service, refreshing, overlapped, refreshed>>

history == <<overlapped, refreshed>>

Session   == [client : Posts, oauth2Service : Posts \cup {None}]
NoSession == [client |-> None, oauth2Service |-> None]

\* "clearing": awaiting the cache; "token": awaiting the IAM server;
\* "waiting": 2 s before the next attempt; "connecting", "bootstrapping":
\* awaiting the participant; "storing": awaiting the cache, then the reply.
Running == {"clearing", "token", "waiting", "connecting", "bootstrapping",
            "storing"}
Post == [stage : Running \cup {"unsent", "replied"}, sid : Sids,
         iam : BOOLEAN, attempt : 0..MaxAttempts]

\* timer: the pending setTimeout; request: the token request in flight.
Service == [state   : {"none", "running", "stopped"},
            timer   : {"none", "refresh", "retry"},
            request : {"none", "first", "refresh", "retry"}]

\* client: the client the handler took; last: it awaits its last call.
Refreshing == [client : Posts, last : BOOLEAN]
NoRefresh  == [client |-> None, last |-> FALSE]

Init ==
  /\ sessions = [s \in Sids |-> NoSession]
  /\ post = [k \in Posts |-> [stage |-> "unsent", sid |-> CHOOSE s \in Sids : TRUE,
                              iam |-> FALSE, attempt |-> 0]]
  /\ connected = [k \in Posts |-> FALSE]
  /\ service = [k \in Posts |-> [state |-> "none", timer |-> "none",
                                 request |-> "none"]]
  /\ refreshing = [s \in Sids |-> NoRefresh]
  /\ overlapped = {}
  /\ refreshed = {}

-----------------------------------------------------------------------------
(***************************************************************************)
(* canton-context.ts and OAuth2TokenService.stop.                          *)
(***************************************************************************)

Active == {s \in Sids : sessions[s] # NoSession}

\* stop(): a request in flight goes on.
Stop(sv) == [sv EXCEPT !.state = "stopped", !.timer = "none"]

\* disconnectSession for every session of S.
DisconnectSessions(S) ==
  LET gone == {sessions[s] : s \in S \cap Active} IN
  /\ service' = [k \in Posts |-> IF \E e \in gone : e.oauth2Service = k
                                 THEN Stop(service[k]) ELSE service[k]]
  /\ connected' = [k \in Posts |-> connected[k] /\ ~\E e \in gone : e.client = k]

EvictAboveLimit(s) ==                              \* mutant: > for >=
  IF sessions[s] = NoSession /\ Cardinality(Active) > MaxSessions
  THEN {{t} : t \in Active} ELSE {{}}

\* The sets of sessions that setActiveConnection may evict to make room for s.
Evictable(s) ==
  IF sessions[s] = NoSession /\ Cardinality(Active) >= MaxSessions
  THEN {{t} : t \in Active} ELSE {{}}

\* setActiveConnection: the entry is replaced, whatever it was.
SetActiveConnection(s, entry) ==
  \E evicted \in Evictable(s) :
    /\ DisconnectSessions(evicted)
    /\ sessions' = [t \in Sids |-> IF t = s THEN entry
                                   ELSE IF t \in evicted THEN NoSession
                                   ELSE sessions[t]]

\* The periodic cleanup finds s idle.
Cleanup(s) ==
  /\ s \in Active
  /\ DisconnectSessions({s})
  /\ sessions' = [sessions EXCEPT ![s] = NoSession]
  /\ UNCHANGED <<post, refreshing, history>>

-----------------------------------------------------------------------------
(***************************************************************************)
(* POST /api/v1/connect.                                                   *)
(***************************************************************************)

Busy(s) == \/ \E k \in Posts : post[k].sid = s /\ post[k].stage \in Running
           \/ refreshing[s] # NoRefresh

\* The history of a request of s.
Request(s) ==
  /\ overlapped' = IF Busy(s) THEN overlapped \cup {s} ELSE overlapped
  /\ UNCHANGED refreshed

Stage(k, stage) == post' = [post EXCEPT ![k].stage = stage]

\* Up to the first await: the existing connection of the session goes.
Connect(k, s, iam) ==
  /\ post[k].stage = "unsent"
  /\ \A j \in 1..(k - 1) : post[j].stage # "unsent"
  /\ Request(s)
  /\ post' = [post EXCEPT ![k] = [stage |-> "clearing", sid |-> s,
                                  iam |-> iam, attempt |-> 0]]
  /\ DisconnectSessions({s})
  /\ sessions' = [sessions EXCEPT ![s] = NoSession]
  /\ UNCHANGED refreshing

\* The cache is cleared.  With an IAM URL the handler asks for a token: a
\* service is created and its first request sent.  (Discovery that finds no
\* credentials ends the request before a service exists.)
CacheCleared(k) ==
  /\ post[k].stage = "clearing"
  /\ IF post[k].iam
     THEN \/ /\ Stage(k, "token")
             /\ service' = [service EXCEPT ![k] = [state |-> "running",
                                                   timer |-> "none",
                                                   request |-> "first"]]
          \/ Stage(k, "replied") /\ UNCHANGED service
     ELSE post' = [post EXCEPT ![k].stage = "connecting", ![k].attempt = 1]
          /\ UNCHANGED service
  /\ UNCHANGED <<sessions, connected, refreshing, history>>

\* getToken returns: the refresh is scheduled and the client is created.
TokenAcquired(k) ==
  /\ post[k].stage = "token"
  /\ service' = [service EXCEPT ![k].timer = "refresh", ![k].request = "none"]
  /\ post' = [post EXCEPT ![k].stage = "connecting", ![k].attempt = 1]
  /\ UNCHANGED <<sessions, connected, refreshing, history>>

TokenFailed(k) ==
  /\ post[k].stage = "token"
  /\ service' = [service EXCEPT ![k] = [Stop(service[k]) EXCEPT !.request = "none"]]
  /\ Stage(k, "replied")
  /\ UNCHANGED <<sessions, connected, refreshing, history>>

\* client.connect() returns.
ClientConnected(k) ==
  /\ post[k].stage = "connecting"
  /\ connected' = [connected EXCEPT ![k] = TRUE]
  /\ Stage(k, "bootstrapping")
  /\ UNCHANGED <<sessions, service, refreshing, history>>

AttemptTooMany(k) ==                               \* mutant: <= for <
  /\ post[k].stage \in {"connecting", "bootstrapping"}
  /\ post[k].attempt <= MaxAttempts
  /\ connected' = [connected EXCEPT ![k] = FALSE]
  /\ post' = [post EXCEPT ![k].stage = "waiting",
                          ![k].attempt = post[k].attempt + 1]
  /\ UNCHANGED <<sessions, service, refreshing, history>>

RetryForever(k) ==                                 \* mutant: attempt kept
  /\ post[k].stage \in {"connecting", "bootstrapping"}
  /\ connected' = [connected EXCEPT ![k] = FALSE]
  /\ post' = [post EXCEPT ![k].stage = "waiting"]
  /\ UNCHANGED <<sessions, service, refreshing, history>>

\* connect() or bootstrap() throws a retryable error: the client is
\* disconnected and 2 s pass.
AttemptFails(k) ==
  /\ post[k].stage \in {"connecting", "bootstrapping"}
  /\ post[k].attempt < MaxAttempts
  /\ connected' = [connected EXCEPT ![k] = FALSE]
  /\ post' = [post EXCEPT ![k].stage = "waiting",
                          ![k].attempt = post[k].attempt + 1]
  /\ UNCHANGED <<sessions, service, refreshing, history>>

NextAttempt(k) ==
  /\ post[k].stage = "waiting"
  /\ Stage(k, "connecting")
  /\ UNCHANGED <<sessions, connected, service, refreshing, history>>

GiveUpLeavingService(k) ==                         \* mutant: no stop()
  /\ post[k].stage \in {"connecting", "bootstrapping"}
  /\ connected' = [connected EXCEPT ![k] = FALSE]
  /\ Stage(k, "replied")
  /\ UNCHANGED <<sessions, service, refreshing, history>>

GiveUpLeavingClient(k) ==                          \* mutant: no disconnect()
  /\ post[k].stage \in {"connecting", "bootstrapping"}
  /\ service' = [service EXCEPT ![k] = IF post[k].iam THEN Stop(service[k])
                                       ELSE service[k]]
  /\ Stage(k, "replied")
  /\ UNCHANGED <<sessions, connected, refreshing, history>>

\* It throws another error, or was the last attempt.
GiveUp(k) ==
  /\ post[k].stage \in {"connecting", "bootstrapping"}
  /\ service' = [service EXCEPT ![k] = IF post[k].iam THEN Stop(service[k])
                                       ELSE service[k]]
  /\ connected' = [connected EXCEPT ![k] = FALSE]
  /\ Stage(k, "replied")
  /\ UNCHANGED <<sessions, refreshing, history>>

\* bootstrap() returns and the connection is stored.
Bootstrapped(k) ==
  /\ post[k].stage = "bootstrapping"
  /\ SetActiveConnection(post[k].sid,
       [client |-> k, oauth2Service |-> IF post[k].iam THEN k ELSE None])
  /\ Stage(k, "storing")
  /\ UNCHANGED <<refreshing, history>>

Reply(k) ==
  /\ post[k].stage = "storing"
  /\ Stage(k, "replied")
  /\ UNCHANGED <<sessions, connected, service, refreshing, history>>

-----------------------------------------------------------------------------
(***************************************************************************)
(* DELETE /api/v1/connect (its awaits change only the cache), and          *)
(* GET /api/v1/connect?refresh=true.                                       *)
(***************************************************************************)

Disconnect(s) ==
  /\ Request(s)
  /\ s \in Active
  /\ DisconnectSessions({s})
  /\ sessions' = [sessions EXCEPT ![s] = NoSession]
  /\ UNCHANGED <<post, refreshing>>

\* The handler keeps the client it found; one refresh of a session at a time.
RefreshStart(s) ==
  /\ Request(s)
  /\ refreshing[s] = NoRefresh
  /\ s \in Active
  /\ connected[sessions[s].client]
  /\ refreshing' = [refreshing EXCEPT ![s] = [client |-> sessions[s].client,
                                              last |-> FALSE]]
  /\ UNCHANGED <<sessions, post, connected, service>>

\* The parties and packages arrive and the ledger end is requested; the
\* accessor throws when the client has been disconnected meanwhile.
RefreshGoesOn(s) ==
  /\ refreshing[s] # NoRefresh /\ ~refreshing[s].last
  /\ refreshing' = IF connected[refreshing[s].client]
                   THEN [refreshing EXCEPT ![s].last = TRUE]
                   ELSE [refreshing EXCEPT ![s] = NoRefresh]
  /\ UNCHANGED <<sessions, post, connected, service, history>>

RefreshFails(s) ==
  /\ refreshing[s] # NoRefresh
  /\ refreshing' = [refreshing EXCEPT ![s] = NoRefresh]
  /\ UNCHANGED <<sessions, post, connected, service, history>>

RefreshWithService(s) ==                           \* mutant: keeps the service
  /\ refreshing[s].last
  /\ SetActiveConnection(s, [client |-> refreshing[s].client,
                             oauth2Service |->
                               IF post[refreshing[s].client].iam
                               THEN refreshing[s].client ELSE None])
  /\ refreshing' = [refreshing EXCEPT ![s] = NoRefresh]
  /\ refreshed' = refreshed \cup {s}
  /\ UNCHANGED <<post, overlapped>>

\* The ledger end arrives.  setActiveConnection is called without the token
\* service.
RefreshStored(s) ==
  /\ refreshing[s].last
  /\ SetActiveConnection(s, [client |-> refreshing[s].client,
                             oauth2Service |-> None])
  /\ refreshing' = [refreshing EXCEPT ![s] = NoRefresh]
  /\ refreshed' = refreshed \cup {s}
  /\ UNCHANGED <<post, overlapped>>

-----------------------------------------------------------------------------
(***************************************************************************)
(* The background refresh of a token service.                              *)
(***************************************************************************)

TimerUnchecked(sv) ==                              \* mutant: no stopped test
  [sv EXCEPT !.timer = "none", !.request = sv.timer]

\* The timer's callback: a stopped service does nothing more.
TimerFires(sv) ==
  IF sv.state = "stopped" THEN [sv EXCEPT !.timer = "none"]
  ELSE [sv EXCEPT !.timer = "none", !.request = sv.timer]

Timer(k) ==
  /\ service[k].timer # "none"
  /\ service' = [service EXCEPT ![k] = TimerFires(service[k])]
  /\ UNCHANGED <<sessions, post, connected, refreshing, history>>

\* The token is applied to the client; scheduleRefresh does nothing when the
\* service has been stopped.
TokenRefreshed(k) ==
  /\ service[k].request \in {"refresh", "retry"}
  /\ service' = [service EXCEPT
       ![k].request = "none",
       ![k].timer = IF service[k].state = "stopped" THEN "none" ELSE "refresh"]
  /\ UNCHANGED <<sessions, post, connected, refreshing, history>>

\* After a failed refresh one retry is scheduled, without a stopped test,
\* unless the old token has expired; a failed retry is only logged.
RefreshRejected(k) ==
  /\ service[k].request \in {"refresh", "retry"}
  /\ \E timer \in IF service[k].request = "refresh"
                  THEN {"retry", "none"} ELSE {"none"} :
       service' = [service EXCEPT ![k].request = "none", ![k].timer = timer]
  /\ UNCHANGED <<sessions, post, connected, refreshing, history>>

-----------------------------------------------------------------------------
Next ==
  \/ \E k \in Posts, s \in Sids, iam \in BOOLEAN : Connect(k, s, iam)
  \/ \E k \in Posts : CacheCleared(k)
  \/ \E k \in Posts : TokenAcquired(k)
  \/ \E k \in Posts : TokenFailed(k)
  \/ \E k \in Posts : ClientConnected(k)
  \/ \E k \in Posts : AttemptFails(k)
  \/ \E k \in Posts : NextAttempt(k)
  \/ \E k \in Posts : GiveUp(k)
  \/ \E k \in Posts : Bootstrapped(k)
  \/ \E k \in Posts : Reply(k)
  \/ \E s \in Sids : Disconnect(s)
  \/ \E s \in Sids : Cleanup(s)
  \/ \E s \in Sids : RefreshStart(s)
  \/ \E s \in Sids : RefreshGoesOn(s)
  \/ \E s \in Sids : RefreshFails(s)
  \/ \E s \in Sids : RefreshStored(s)
  \/ \E k \in Posts : Timer(k)
  \/ \E k \in Posts : TokenRefreshed(k)
  \/ \E k \in Posts : RefreshRejected(k)

Spec == Init /\ [][Next]_vars

\* The awaits of a POST that end: the cache's, the IAM server's, which has a
\* timeout, and the 2 s wait.  A call to the participant has no deadline, so the
\* steps that wait for one are not fair.
Fairness ==
  \A k \in Posts :
    /\ WF_vars(CacheCleared(k))
    /\ WF_vars(TokenAcquired(k) \/ TokenFailed(k))
    /\ WF_vars(NextAttempt(k))
    /\ WF_vars(Reply(k))

FairSpec == Spec /\ Fairness

-----------------------------------------------------------------------------
(***************************************************************************)
(* Properties.                                                             *)
(***************************************************************************)

\* Every variable has its type.
TypeOK ==
  /\ sessions \in [Sids -> Session \cup {NoSession}]
  /\ post \in [Posts -> Post]
  /\ connected \in [Posts -> BOOLEAN]
  /\ service \in [Posts -> Service]
  /\ refreshing \in [Sids -> Refreshing \cup {NoRefresh}]
  /\ overlapped \subseteq Sids /\ refreshed \subseteq Sids

\* The session map never outgrows MAX_SESSIONS, although the room is made in
\* one place, a refresh may bring back a session that was evicted, and any
\* number of requests may be waiting to store a connection.
SessionLimit == Cardinality(Active) <= MaxSessions

\* A token service held by a session is running, and its client connected: a
\* session never keeps a connection whose token nobody refreshes because of
\* somebody else's disconnect.
HeldServiceRuns ==
  \A s \in Active :
    LET e == sessions[s] IN
    e.oauth2Service # None =>
      /\ service[e.oauth2Service].state = "running"
      /\ connected[e.client] /\ e.client = e.oauth2Service

InProgress(k) == post[k].stage \in Running \ {"storing"}

Held(k) == \E s \in Sids : sessions[s].client = k

\* No gRPC channel leaks, whatever fails, is evicted, expires or is refreshed:
\* a connected client belongs to a session or to a POST that has yet to store
\* it, as long as its session sends its requests one at a time.
NoLeakedClient ==
  \A k \in Posts :
    connected[k] => InProgress(k) \/ Held(k) \/ post[k].sid \in overlapped

\* No background token refresh leaks: a running service belongs to a session
\* or to a POST that has yet to store it, as long as the session sends its
\* requests one at a time and does not refresh its bootstrap data.
NoLeakedService ==
  \A k \in Posts :
    service[k].state = "running" =>
      \/ InProgress(k)
      \/ \E s \in Sids : sessions[s].oauth2Service = k
      \/ post[k].sid \in overlapped \cup refreshed

\* A stopped service sends no further request and is never started again:
\* only what was in flight when it was stopped comes to an end.
StoppedIsQuiet ==
  [][\A k \in Posts : service[k].state = "stopped" =>
       /\ service'[k].state = "stopped"
       /\ service'[k].request \in {service[k].request, "none"}]_vars

\* Disconnecting a session stops its OAuth2 refresh (connection.ts:300): when
\* the session of a running service has gone, the service has been stopped.
DisconnectStopsRefresh ==
  [][\A s \in Sids : s \in Active /\ sessions'[s] = NoSession =>
       service'[sessions[s].client].state # "running"]_vars

\* Every POST is answered, except one that waits for ever in a call to the
\* participant: its attempts are used up, however they fail and whatever other
\* requests do to its session.
EveryPostReplied ==
  \A k \in Posts :
    post[k].stage = "clearing" ~>
      \/ post[k].stage = "replied"
      \/ [](post[k].stage \in {"connecting", "bootstrapping"})

-----------------------------------------------------------------------------
(***************************************************************************)
(* The inductive invariant behind the safety properties.                   *)
(***************************************************************************)

\* A session holds the client of one of its own POSTs, which has stored it.
HeldInv ==
  \A s \in Active :
    LET e == sessions[s] IN
    /\ post[e.client].sid = s
    /\ post[e.client].stage \in {"storing", "replied"}
    /\ e.oauth2Service \in {None, e.client}
    /\ e.oauth2Service # None =>
         service[e.client].state = "running" /\ connected[e.client]

\* So does a refresh; and the session holds the same client or none.
TakenInv ==
  \A s \in Sids : refreshing[s] # NoRefresh =>
    LET c == refreshing[s].client IN
    /\ c \in Posts
    /\ post[c].sid = s
    /\ post[c].stage \in {"storing", "replied"}
    /\ s \notin overlapped => sessions[s].client \in {None, c}

\* How far a POST has come tells the state of its client and its service.
PostInv ==
  \A k \in Posts :
    /\ post[k].stage \in {"unsent", "clearing"} => service[k].state = "none"
    /\ post[k].stage \in {"unsent", "clearing", "token"} => ~connected[k]
    /\ ~post[k].iam => service[k].state = "none"
    /\ post[k].iam /\ InProgress(k) /\ post[k].stage # "clearing" =>
         service[k].state = "running"
    /\ post[k].stage = "bootstrapping" => connected[k]
    /\ post[k].stage = "token" => post[k].iam

\* A POST whose session sends its requests one at a time is the only one, and
\* finds no entry when it stores its own.
AloneInv ==
  \A k \in Posts :
    post[k].stage \in Running /\ post[k].sid \notin overlapped =>
      /\ refreshing[post[k].sid] = NoRefresh
      /\ \A j \in Posts :
           post[j].stage \in Running /\ post[j].sid = post[k].sid => j = k
      /\ InProgress(k) => sessions[post[k].sid] = NoSession

IInv == /\ HeldInv /\ TakenInv /\ PostInv /\ AloneInv
        /\ NoLeakedClient /\ NoLeakedService
=============================================================================
