----------------------------- MODULE PartsProofs -----------------------------
(***************************************************************************)
(* Proofs about parts of the system that share no state: the sessions of   *)
(* the gateway, the request of the CI pipeline, the form of the debugger,  *)
(* the sandbox page and the template explorer.  Each is proved for its own *)
(* specification, for every value of its bounds; the steps of all but the  *)
(* sessions are the ones Application takes when that part runs.            *)
(***************************************************************************)
EXTENDS Sessions, CiPipeline, CommandForm, SandboxPage, TemplateExplorer,
        Induction, SequenceTheorems

-----------------------------------------------------------------------------
(***************************************************************************)
(* The sessions.                                                           *)
(***************************************************************************)

LEMMA PostsFacts ==
  /\ Posts \subseteq Nat \ {0}
  /\ None \notin Posts
BY ConstantsOK DEF Posts, None

\* What an entry of the session map is.
LEMMA EntryType ==
  ASSUME TypeOK, NEW s \in Active
  PROVE  /\ s \in Sids
         /\ sessions[s] \in Session
         /\ sessions[s].client \in Posts
         /\ sessions[s].oauth2Service \in Posts \cup {None}
BY DEF TypeOK, Active, Session

\* disconnectSession, one client and one service at a time: only those that
\* the sessions held are touched.
LEMMA DisconnectFacts ==
  ASSUME TypeOK, NEW S \in SUBSET Sids, DisconnectSessions(S)
  PROVE  /\ service' \in [Posts -> Service]
         /\ connected' \in [Posts -> BOOLEAN]
         /\ \A k \in Posts : connected'[k] <=>
              connected[k] /\ \A s \in S \cap Active : sessions[s].client # k
         /\ \A k \in Posts :
              (\A s \in S \cap Active : sessions[s].oauth2Service # k)
                => service'[k] = service[k]
         /\ \A k \in Posts :
              (\E s \in S \cap Active : sessions[s].oauth2Service = k)
                => service'[k] = Stop(service[k])
<1> DEFINE gone == {sessions[s] : s \in S \cap Active}
<1>1. /\ service' = [k \in Posts |-> IF \E e \in gone : e.oauth2Service = k
                                     THEN Stop(service[k]) ELSE service[k]]
      /\ connected' = [k \in Posts |-> connected[k] /\ ~\E e \in gone : e.client = k]
  BY DEF DisconnectSessions
<1>2. \A k \in Posts : Stop(service[k]) \in Service
  BY DEF TypeOK, Stop, Service
<1>3. \A k \in Posts : /\ (\E e \in gone : e.oauth2Service = k)
                            <=> \E s \in S \cap Active : sessions[s].oauth2Service = k
                       /\ (\E e \in gone : e.client = k)
                            <=> \E s \in S \cap Active : sessions[s].client = k
  OBVIOUS
<1> HIDE DEF gone
<1>4. QED
  BY <1>1, <1>2, <1>3 DEF TypeOK

\* setActiveConnection evicts a set of sessions and stores the entry.
LEMMA SetActiveFacts ==
  ASSUME TypeOK, NEW s \in Sids, NEW entry \in Session,
         SetActiveConnection(s, entry)
  PROVE  \E evicted \in Evictable(s) :
           /\ evicted \in SUBSET (Active \ {s})
           /\ DisconnectSessions(evicted)
           /\ sessions' \in [Sids -> Session \cup {NoSession}]
           /\ sessions'[s] = entry
           /\ \A t \in Sids \ {s} :
                sessions'[t] = IF t \in evicted THEN NoSession ELSE sessions[t]
<1>1. PICK evicted \in Evictable(s) :
        /\ DisconnectSessions(evicted)
        /\ sessions' = [t \in Sids |-> IF t = s THEN entry
                                       ELSE IF t \in evicted THEN NoSession
                                       ELSE sessions[t]]
  BY DEF SetActiveConnection
<1>2. evicted \in SUBSET (Active \ {s})
  BY DEF Evictable, Active
<1>3. QED
  BY <1>1, <1>2 DEF TypeOK

LEMMA SetActiveType ==
  ASSUME TypeOK, NEW s \in Sids, NEW entry \in Session,
         SetActiveConnection(s, entry)
  PROVE  /\ sessions' \in [Sids -> Session \cup {NoSession}]
         /\ service' \in [Posts -> Service]
         /\ connected' \in [Posts -> BOOLEAN]
<1>1. PICK evicted \in Evictable(s) :
        /\ evicted \in SUBSET (Active \ {s})
        /\ DisconnectSessions(evicted)
        /\ sessions' \in [Sids -> Session \cup {NoSession}]
  BY SetActiveFacts
<1>2. evicted \in SUBSET Sids
  BY <1>1 DEF Active
<1>3. QED
  BY <1>1, <1>2, DisconnectFacts

-----------------------------------------------------------------------------
\* Type correctness: whatever the requests, timers and answers, the session
\* map, the handlers and the services keep their types.
THEOREM TypeCorrect == Spec => []TypeOK
<1>1. Init => TypeOK
  <2>1. (CHOOSE s \in Sids : TRUE) \in Sids
    BY ConstantsOK
  <2>2. 0 \in 0..MaxAttempts
    BY ConstantsOK
  <2>3. QED
    BY <2>1, <2>2 DEF Init, TypeOK, Post, Running, Service, Refreshing, NoRefresh
<1>2. TypeOK /\ [Next]_vars => TypeOK'
  <2> SUFFICES ASSUME TypeOK, [Next]_vars PROVE TypeOK'
    OBVIOUS
  <2> USE DEF TypeOK
  <2>r. ASSUME NEW s \in Sids, Request(s)
        PROVE  overlapped' \subseteq Sids /\ refreshed' \subseteq Sids
    BY <2>r DEF Request
  <2>p. ASSUME NEW k \in Posts, NEW stage \in Running \cup {"unsent", "replied"},
               Stage(k, stage)
        PROVE  post' \in [Posts -> Post]
    BY <2>p DEF Stage, Post
  <2>s. ASSUME NEW s \in Sids
        PROVE  [sessions EXCEPT ![s] = NoSession] \in [Sids -> Session \cup {NoSession}]
    OBVIOUS
  <2>1. ASSUME NEW k \in Posts, NEW s \in Sids, NEW iam \in BOOLEAN,
               Connect(k, s, iam)
        PROVE  TypeOK'
    <3>1. post' \in [Posts -> Post]
      BY <2>1, ConstantsOK DEF Connect, Post, Running
    <3>2. service' \in [Posts -> Service] /\ connected' \in [Posts -> BOOLEAN]
      BY <2>1, DisconnectFacts, {s} \in SUBSET Sids DEF Connect
    <3>3. QED
      BY <2>1, <2>r, <3>1, <3>2 DEF Connect
  <2>2. ASSUME NEW k \in Posts, CacheCleared(k) PROVE TypeOK'
    <3>1. CASE post[k].iam
      <4>1. service' \in [Posts -> Service]
        BY <2>2, <3>1 DEF CacheCleared, Service
      <4>2. post' \in [Posts -> Post]
        BY <2>2, <2>p, <3>1 DEF CacheCleared, Running
      <4>3. QED
        BY <2>2, <4>1, <4>2 DEF CacheCleared, history
    <3>2. CASE ~post[k].iam
      <4>1. post' \in [Posts -> Post]
        BY <2>2, <3>2, ConstantsOK DEF CacheCleared, Post, Running
      <4>2. QED
        BY <2>2, <3>2, <4>1 DEF CacheCleared, history
    <3>3. QED
      BY <3>1, <3>2
  <2>3. ASSUME NEW k \in Posts, TokenAcquired(k) PROVE TypeOK'
    <3>1. post' \in [Posts -> Post]
      <4>1. post' = [post EXCEPT ![k].stage = "connecting", ![k].attempt = 1]
        BY <2>3 DEF TokenAcquired
      <4>2. 1 \in 0..MaxAttempts
        BY ConstantsOK
      <4>3. [post[k] EXCEPT !.stage = "connecting", !.attempt = 1] \in Post
        BY <4>2 DEF Post, Running
      <4>4. QED
        BY <4>1, <4>3
    <3>2. service' \in [Posts -> Service]
      BY <2>3, ZenonT(60) DEF TokenAcquired, Service
    <3>3. QED
      BY <2>3, <3>1, <3>2 DEF TokenAcquired, history
  <2>4. ASSUME NEW k \in Posts, TokenFailed(k) PROVE TypeOK'
    <3>1. service' \in [Posts -> Service]
      BY <2>4 DEF TokenFailed, Service, Stop
    <3>2. QED
      BY <2>4, <2>p, <3>1 DEF TokenFailed, history
  <2>5. ASSUME NEW k \in Posts, ClientConnected(k) PROVE TypeOK'
    BY <2>5, <2>p DEF ClientConnected, history, Running
  <2>6. ASSUME NEW k \in Posts, AttemptFails(k) PROVE TypeOK'
    <3>1. post' \in [Posts -> Post]
      BY <2>6, ConstantsOK DEF AttemptFails, Post, Running
    <3>2. QED
      BY <2>6, <3>1 DEF AttemptFails, history
  <2>7. ASSUME NEW k \in Posts, NextAttempt(k) PROVE TypeOK'
    BY <2>7, <2>p DEF NextAttempt, history, Running
  <2>8. ASSUME NEW k \in Posts, GiveUp(k) PROVE TypeOK'
    <3>1. service' \in [Posts -> Service]
      BY <2>8 DEF GiveUp, Service, Stop
    <3>2. QED
      BY <2>8, <2>p, <3>1 DEF GiveUp, history
  <2>9. ASSUME NEW k \in Posts, Bootstrapped(k) PROVE TypeOK'
    <3> DEFINE entry == [client |-> k, oauth2Service |-> IF post[k].iam THEN k ELSE None]
    <3>1. entry \in Session /\ post[k].sid \in Sids
      BY DEF Session, Post
    <3>2. SetActiveConnection(post[k].sid, entry)
      BY <2>9 DEF Bootstrapped
    <3> HIDE DEF entry
    <3>3. QED
      BY <2>9, <2>p, <3>1, <3>2, SetActiveType DEF Bootstrapped, history, Running
  <2>10. ASSUME NEW k \in Posts, Reply(k) PROVE TypeOK'
    BY <2>10, <2>p DEF Reply, history
  <2>11. ASSUME NEW s \in Sids, Disconnect(s) PROVE TypeOK'
    <3>1. service' \in [Posts -> Service] /\ connected' \in [Posts -> BOOLEAN]
      BY <2>11, DisconnectFacts, {s} \in SUBSET Sids DEF Disconnect
    <3>2. QED
      BY <2>11, <2>r, <3>1 DEF Disconnect
  <2>12. ASSUME NEW s \in Sids, Cleanup(s) PROVE TypeOK'
    <3>1. service' \in [Posts -> Service] /\ connected' \in [Posts -> BOOLEAN]
      BY <2>12, DisconnectFacts, {s} \in SUBSET Sids DEF Cleanup
    <3>2. QED
      BY <2>12, <3>1 DEF Cleanup, history
  <2>13. ASSUME NEW s \in Sids, RefreshStart(s) PROVE TypeOK'
    <3>1. sessions[s].client \in Posts
      BY <2>13, EntryType DEF RefreshStart
    <3>2. QED
      BY <2>13, <2>r, <3>1 DEF RefreshStart, Refreshing
  <2>14. ASSUME NEW s \in Sids, RefreshGoesOn(s) PROVE TypeOK'
    BY <2>14 DEF RefreshGoesOn, Refreshing, NoRefresh, history
  <2>15. ASSUME NEW s \in Sids, RefreshFails(s) PROVE TypeOK'
    BY <2>15 DEF RefreshFails, Refreshing, NoRefresh, history
  <2>16. ASSUME NEW s \in Sids, RefreshStored(s) PROVE TypeOK'
    <3> DEFINE entry == [client |-> refreshing[s].client, oauth2Service |-> None]
    <3>1. entry \in Session
      BY <2>16 DEF RefreshStored, Refreshing, NoRefresh, Session
    <3>2. SetActiveConnection(s, entry)
      BY <2>16 DEF RefreshStored
    <3> HIDE DEF entry
    <3>3. QED
      BY <2>16, <3>1, <3>2, SetActiveType DEF RefreshStored
  <2>17. ASSUME NEW k \in Posts, Timer(k) PROVE TypeOK'
    BY <2>17, ZenonT(60) DEF Timer, TimerFires, Service, history
  <2>18. ASSUME NEW k \in Posts, TokenRefreshed(k) PROVE TypeOK'
    BY <2>18, ZenonT(60) DEF TokenRefreshed, Service, history
  <2>19. ASSUME NEW k \in Posts, RefreshRejected(k) PROVE TypeOK'
    <3>1. PICK timer \in {"retry", "none"} :
            service' = [service EXCEPT ![k].request = "none", ![k].timer = timer]
      BY <2>19 DEF RefreshRejected
    <3>2. service' \in [Posts -> Service]
      BY <3>1 DEF Service
    <3>3. QED
      BY <2>19, <3>2 DEF RefreshRejected, history
  <2>20. CASE UNCHANGED vars
    BY <2>20 DEF vars
  <2>21. QED
    BY <2>1, <2>2, <2>3, <2>4, <2>5, <2>6, <2>7, <2>8, <2>9, <2>10, <2>11,
       <2>12, <2>13, <2>14, <2>15, <2>16, <2>17, <2>18, <2>19, <2>20 DEF Next
<1>3. QED
  BY <1>1, <1>2, PTL DEF Spec

-----------------------------------------------------------------------------
LEMMA ActiveFinite ==
  ASSUME TypeOK
  PROVE  IsFiniteSet(Active) /\ Cardinality(Active) \in Nat
<1>1. IsFiniteSet(Active)
  BY ConstantsOK, FS_Subset DEF Active
<1>2. QED
  BY <1>1, FS_CardinalityType

\* setActiveConnection keeps the limit: it replaces an entry, finds room, or
\* evicts a session first.
LEMMA SetActiveLimit ==
  ASSUME TypeOK, SessionLimit, NEW s \in Sids, NEW entry \in Session,
         SetActiveConnection(s, entry)
  PROVE  SessionLimit'
<1> USE DEF SessionLimit
<1>0. /\ IsFiniteSet(Active) /\ Cardinality(Active) \in Nat
      /\ MaxSessions \in Nat
  BY ActiveFinite, ConstantsOK
<1>1. entry # NoSession
  BY PostsFacts DEF Session, NoSession
<1>2. PICK evicted \in Evictable(s) :
        /\ evicted \in SUBSET (Active \ {s})
        /\ sessions'[s] = entry
        /\ \A t \in Sids \ {s} :
             sessions'[t] = IF t \in evicted THEN NoSession ELSE sessions[t]
  BY SetActiveFacts
<1>3. Active' = (Active \ evicted) \cup {s}
  BY <1>1, <1>2 DEF Active
<1>4. CASE s \in Active
  <2>1. Active' \subseteq Active
    BY <1>3, <1>4
  <2>2. QED
    BY <1>0, <2>1, FS_Subset, FS_CardinalityType
<1>5. CASE s \notin Active /\ Cardinality(Active) < MaxSessions
  <2>1. evicted = {}
    BY <1>0, <1>2, <1>5 DEF Evictable
  <2>2. Cardinality(Active \cup {s}) = Cardinality(Active) + 1
    BY <1>0, <1>5, FS_AddElement
  <2>3. QED
    BY <1>0, <1>3, <1>5, <2>1, <2>2
<1>6. CASE s \notin Active /\ ~(Cardinality(Active) < MaxSessions)
  <2>1. PICK t \in Active : evicted = {t}
    BY <1>0, <1>2, <1>6 DEF Evictable, Active
  <2>2. /\ IsFiniteSet(Active \ {t})
        /\ Cardinality(Active \ {t}) = Cardinality(Active) - 1
    BY <1>0, <2>1, FS_RemoveElement
  <2>3. Cardinality((Active \ {t}) \cup {s}) = Cardinality(Active \ {t}) + 1
    BY <1>6, <2>2, FS_AddElement
  <2>4. QED
    BY <1>0, <1>3, <2>1, <2>2, <2>3
<1>7. QED
  BY <1>4, <1>5, <1>6

\* The session map never outgrows MAX_SESSIONS, for any number of sessions,
\* requests and places.
THEOREM LimitHolds == Spec => []SessionLimit
<1>1. Init => SessionLimit
  <2>1. ASSUME Init PROVE Active = {}
    BY <2>1 DEF Init, Active
  <2>2. QED
    BY <2>1, ConstantsOK, FS_EmptySet DEF SessionLimit
<1>2. TypeOK /\ SessionLimit /\ [Next]_vars => SessionLimit'
  <2> SUFFICES ASSUME TypeOK, SessionLimit, [Next]_vars PROVE SessionLimit'
    OBVIOUS
  <2>a. ASSUME Active' \subseteq Active PROVE SessionLimit'
    BY <2>a, ActiveFinite, FS_Subset, FS_CardinalityType, ConstantsOK DEF SessionLimit
  <2>b. ASSUME NEW s \in Sids, sessions' = [sessions EXCEPT ![s] = NoSession]
        PROVE  SessionLimit'
    BY <2>a, <2>b DEF TypeOK, Active
  <2>c. ASSUME UNCHANGED sessions PROVE SessionLimit'
    BY <2>a, <2>c DEF Active
  <2>1. ASSUME NEW k \in Posts, Bootstrapped(k) PROVE SessionLimit'
    <3> DEFINE entry == [client |-> k, oauth2Service |-> IF post[k].iam THEN k ELSE None]
    <3>1. entry \in Session /\ post[k].sid \in Sids
      BY DEF Session, Post, TypeOK
    <3>2. SetActiveConnection(post[k].sid, entry)
      BY <2>1 DEF Bootstrapped
    <3> HIDE DEF entry
    <3>3. QED
      BY <3>1, <3>2, SetActiveLimit
  <2>2. ASSUME NEW s \in Sids, RefreshStored(s) PROVE SessionLimit'
    <3> DEFINE entry == [client |-> refreshing[s].client, oauth2Service |-> None]
    <3>1. entry \in Session
      BY <2>2 DEF RefreshStored, Refreshing, NoRefresh, Session, TypeOK
    <3>2. SetActiveConnection(s, entry)
      BY <2>2 DEF RefreshStored
    <3> HIDE DEF entry
    <3>3. QED
      BY <3>1, <3>2, SetActiveLimit
  <2>3. ASSUME NEW k \in Posts, NEW s \in Sids, NEW iam \in BOOLEAN,
               Connect(k, s, iam)
        PROVE  SessionLimit'
    BY <2>3, <2>b DEF Connect
  <2>4. ASSUME NEW s \in Sids, Disconnect(s) \/ Cleanup(s) PROVE SessionLimit'
    BY <2>4, <2>b DEF Disconnect, Cleanup
  <2>5. ASSUME NEW k \in Posts,
               \/ CacheCleared(k) \/ TokenAcquired(k) \/ TokenFailed(k)
               \/ ClientConnected(k) \/ AttemptFails(k) \/ NextAttempt(k)
               \/ GiveUp(k) \/ Reply(k) \/ Timer(k) \/ TokenRefreshed(k)
               \/ RefreshRejected(k)
        PROVE  SessionLimit'
    BY <2>5, <2>c DEF CacheCleared, TokenAcquired, TokenFailed, ClientConnected,
       AttemptFails, NextAttempt, GiveUp, Reply, Timer, TokenRefreshed, RefreshRejected
  <2>6. ASSUME NEW s \in Sids, RefreshStart(s) \/ RefreshGoesOn(s) \/ RefreshFails(s)
        PROVE  SessionLimit'
    BY <2>6, <2>c DEF RefreshStart, RefreshGoesOn, RefreshFails
  <2>7. CASE UNCHANGED vars
    BY <2>7, <2>c DEF vars
  <2>8. QED
    BY <2>1, <2>2, <2>3, <2>4, <2>5, <2>6, <2>7 DEF Next
<1>3. QED
  BY <1>1, <1>2, TypeCorrect, PTL DEF Spec

-----------------------------------------------------------------------------
(***************************************************************************)
(* The inductive invariant IInv.  The actions fall into four groups: a     *)
(* POST that is not yet stored changes its own client and service; timers  *)
(* and answers change no state of a service; some actions disconnect a     *)
(* session; and two store an entry.                                        *)
(***************************************************************************)

\* A held client has been stored by a POST of the session that holds it, so
\* two sessions never hold the same client.
LEMMA HeldFacts ==
  ASSUME TypeOK, HeldInv, NEW s \in Active
  PROVE  /\ s \in Sids
         /\ sessions[s].client \in Posts
         /\ ~InProgress(sessions[s].client)
         /\ \A t \in Active : sessions[t].client = sessions[s].client => t = s
         /\ \A t \in Active, k \in Posts :
              sessions[t].oauth2Service = k => sessions[t].client = k
BY EntryType, PostsFacts DEF HeldInv, InProgress, Running

\* A step of a POST that has not stored its connection.
LEMMA LocalStep ==
  ASSUME TypeOK, IInv, TypeOK', NEW k \in Posts,
         UNCHANGED <<sessions, refreshing, history>>,
         InProgress(k),
         post'[k].stage \in {"token", "connecting", "waiting", "bootstrapping", "replied"},
         post'[k].sid = post[k].sid, post'[k].iam = post[k].iam,
         \A j \in Posts \ {k} : /\ post'[j] = post[j]
                                /\ service'[j] = service[j]
                                /\ connected'[j] = connected[j],
         post'[k].stage = "token" => post[k].iam /\ ~connected'[k],
         post'[k].stage = "bootstrapping" => connected'[k],
         post'[k].stage = "replied" =>
           ~connected'[k] /\ service'[k].state # "running",
         ~post[k].iam => service'[k].state = "none",
         post[k].iam /\ post'[k].stage # "replied" => service'[k].state = "running"
  PROVE  IInv'
<1> USE DEF history
<1>0. Active' = Active
  BY DEF Active
<1>1. \A s \in Active : sessions[s].client # k
  BY HeldFacts DEF IInv
<1>2. HeldInv'
  BY <1>0, <1>1, EntryType DEF IInv, HeldInv
<1>3. TakenInv'
  BY DEF IInv, TakenInv, InProgress, Running
<1>4. PostInv'
  BY DEF IInv, PostInv, InProgress, Running
<1>5. AloneInv'
  BY DEF IInv, AloneInv, InProgress, Running
<1>6. NoLeakedClient'
  BY DEF IInv, NoLeakedClient, InProgress, Running, Held
<1>7. NoLeakedService'
  BY DEF IInv, NoLeakedService, InProgress, Running
<1>8. QED
  BY <1>2, <1>3, <1>4, <1>5, <1>6, <1>7 DEF IInv

\* A step that changes at most a timer, a request, or a refresh that goes on
\* or ends.
LEMMA QuietStep ==
  ASSUME TypeOK, IInv, TypeOK',
         UNCHANGED <<sessions, post, connected, overlapped>>,
         refreshed \subseteq refreshed',
         \A j \in Posts : service'[j].state = service[j].state,
         \A s \in Sids : \/ refreshing'[s] = NoRefresh
                         \/ /\ refreshing[s] # NoRefresh
                            /\ refreshing'[s].client = refreshing[s].client
  PROVE  IInv'
<1>0. Active' = Active
  BY DEF Active
<1>1. HeldInv'
  BY <1>0, EntryType DEF IInv, HeldInv
<1>2. TakenInv'
  BY DEF IInv, TakenInv
<1>3. PostInv'
  BY DEF IInv, PostInv, InProgress
<1>4. AloneInv'
  BY DEF IInv, AloneInv, InProgress, TypeOK, Post
<1>5. NoLeakedClient'
  BY DEF IInv, NoLeakedClient, InProgress, Held
<1>6. NoLeakedService'
  BY DEF IInv, NoLeakedService, InProgress
<1>7. QED
  BY <1>1, <1>2, <1>3, <1>4, <1>5, <1>6 DEF IInv

\* A step that disconnects session s and may open a POST of s.
LEMMA DropStep ==
  ASSUME TypeOK, IInv, TypeOK', NEW s \in Sids,
         DisconnectSessions({s}),
         sessions' = [sessions EXCEPT ![s] = NoSession],
         UNCHANGED <<refreshing, refreshed>>,
         overlapped \subseteq overlapped',
         \A j \in Posts :
           \/ post'[j] = post[j]
           \/ /\ post[j].stage = "unsent" /\ post'[j].stage = "clearing"
              /\ post'[j].sid = s
              /\ Busy(s) => s \in overlapped',
         \A i, j \in Posts : post'[i] # post[i] /\ post'[j] # post[j] => i = j
  PROVE  IInv'
<1>0. /\ Active' = Active \ {s}
      /\ \A t \in Active' : sessions'[t] = sessions[t]
      /\ sessions'[s] = NoSession
  BY DEF Active, TypeOK
<1>1. /\ \A k \in Posts : connected'[k] <=>
           connected[k] /\ (s \in Active => sessions[s].client # k)
      /\ \A k \in Posts : (s \in Active => sessions[s].oauth2Service # k)
           => service'[k] = service[k]
      /\ \A k \in Posts : s \in Active /\ sessions[s].oauth2Service = k
           => service'[k].state = "stopped"
  <2>1. \A k \in Posts : Stop(service[k]).state = "stopped"
    BY DEF Stop, TypeOK, Service
  <2>2. QED
    BY <2>1, DisconnectFacts, {s} \in SUBSET Sids
<1>2. \A k \in Posts :
        post[k].stage \notin {"storing", "replied"} \/ post'[k] # post[k] =>
          connected'[k] = connected[k] /\ service'[k] = service[k]
  <2>1. \A k \in Posts : s \in Active /\ sessions[s].client = k =>
          post[k].stage \in {"storing", "replied"} /\ post'[k] = post[k]
    BY DEF IInv, HeldInv
  <2>2. \A k \in Posts : s \in Active /\ sessions[s].oauth2Service = k =>
          sessions[s].client = k
    BY HeldFacts DEF IInv
  <2>3. QED
    BY <1>1, <2>1, <2>2 DEF TypeOK
<1>3. HeldInv'
  <2> SUFFICES ASSUME NEW t \in Active'
               PROVE  LET e == sessions[t] IN
                      /\ post'[e.client].sid = t
                      /\ post'[e.client].stage \in {"storing", "replied"}
                      /\ e.oauth2Service \in {None, e.client}
                      /\ e.oauth2Service # None =>
                           service'[e.client].state = "running" /\ connected'[e.client]
    BY <1>0 DEF HeldInv
  <2> DEFINE c == sessions[t].client
  <2>1. /\ t \in Active /\ c \in Posts
        /\ s \in Active => sessions[s].client # c /\ sessions[s].oauth2Service # c
    BY <1>0, HeldFacts DEF IInv
  <2>2. post'[c] = post[c] /\ service'[c] = service[c] /\ connected'[c] = connected[c]
    BY <1>1, <2>1 DEF IInv, HeldInv, TypeOK
  <2>3. QED
    BY <2>1, <2>2 DEF IInv, HeldInv
<1>4. TakenInv'
  BY <1>0 DEF IInv, TakenInv, TypeOK, NoSession
<1>5. PostInv'
  <2> SUFFICES ASSUME NEW k \in Posts
               PROVE
                 /\ post'[k].stage \in {"unsent", "clearing"} => service'[k].state = "none"
                 /\ post'[k].stage \in {"unsent", "clearing", "token"} => ~connected'[k]
                 /\ ~post'[k].iam => service'[k].state = "none"
                 /\ post'[k].iam /\ InProgress(k)' /\ post'[k].stage # "clearing" =>
                      service'[k].state = "running"
                 /\ post'[k].stage = "bootstrapping" => connected'[k]
                 /\ post'[k].stage = "token" => post'[k].iam
    BY DEF PostInv
  <2>1. CASE post[k].stage \in {"storing", "replied"} /\ post'[k] = post[k]
    <3>1. s \in Active /\ sessions[s].oauth2Service = k => service[k].state = "running"
      BY PostsFacts, HeldFacts DEF IInv, HeldInv
    <3>2. ~post[k].iam => service[k].state = "none"
      BY DEF IInv, PostInv
    <3>3. ~post[k].iam => service'[k] = service[k]
      BY <1>1, <3>1, <3>2
    <3>4. ~InProgress(k)'
      BY <2>1 DEF InProgress, Running
    <3>5. QED
      BY <2>1, <3>2, <3>3, <3>4
  <2>2. CASE post[k].stage \notin {"storing", "replied"} /\ post'[k] = post[k]
    BY <1>2, <2>2 DEF IInv, PostInv, InProgress
  <2>3. CASE post'[k] # post[k]
    BY <1>2, <2>3 DEF IInv, PostInv, InProgress
  <2>4. QED
    BY <2>1, <2>2, <2>3
<1>6. AloneInv'
  BY <1>0 DEF IInv, AloneInv, InProgress, Running, Busy, TypeOK, Post
<1>7. NoLeakedClient'
  <2> SUFFICES ASSUME NEW k \in Posts, connected'[k]
               PROVE  InProgress(k)' \/ Held(k)' \/ post'[k].sid \in overlapped'
    BY DEF NoLeakedClient
  <2>1. connected[k] /\ (s \in Active => sessions[s].client # k)
    BY <1>1
  <2>2. post'[k] = post[k]
    BY <2>1 DEF IInv, PostInv
  <2>3. ASSUME NEW t \in Sids, sessions[t].client = k
        PROVE  sessions'[t].client = k
    <3>1. t \in Active
      BY <2>3, PostsFacts DEF Active, NoSession
    <3>2. QED
      BY <1>0, <2>1, <2>3, <3>1
  <2>4. QED
    BY <2>1, <2>2, <2>3 DEF IInv, NoLeakedClient, Held, InProgress
<1>8. NoLeakedService'
  <2> SUFFICES ASSUME NEW k \in Posts, service'[k].state = "running"
               PROVE  \/ InProgress(k)'
                      \/ \E t \in Sids : sessions'[t].oauth2Service = k
                      \/ post'[k].sid \in overlapped' \cup refreshed'
    BY DEF NoLeakedService
  <2>1. service[k].state = "running" /\ (s \in Active => sessions[s].oauth2Service # k)
    BY <1>1
  <2>2. post'[k] = post[k]
    BY <2>1 DEF IInv, PostInv
  <2>3. ASSUME NEW t \in Sids, sessions[t].oauth2Service = k
        PROVE  sessions'[t].oauth2Service = k
    <3>1. t \in Active
      BY <2>3, PostsFacts DEF Active, NoSession
    <3>2. QED
      BY <1>0, <2>1, <2>3, <3>1
  <2>4. QED
    BY <2>1, <2>2, <2>3 DEF IInv, NoLeakedService, InProgress
<1>9. QED
  BY <1>3, <1>4, <1>5, <1>6, <1>7, <1>8 DEF IInv

\* A step that stores an entry for s, whose client is one of s's own POSTs.
LEMMA StoreStep ==
  ASSUME TypeOK, IInv, TypeOK', NEW s \in Sids, NEW c \in Posts,
         NEW serviceOf \in {None, c},
         SetActiveConnection(s, [client |-> c, oauth2Service |-> serviceOf]),
         UNCHANGED overlapped, refreshed \subseteq refreshed',
         post[c].sid = s, post'[c].sid = s, post'[c].iam = post[c].iam,
         post'[c].stage \in {"storing", "replied"},
         \A j \in Posts \ {c} : post'[j] = post[j],
         post'[c] = post[c] \/ post[c].stage = "bootstrapping",
         serviceOf = c => service[c].state = "running" /\ connected[c],
         service[c].state = "running" => serviceOf = c \/ s \in refreshed',
         \A t \in Sids : refreshing'[t] \in {refreshing[t], NoRefresh},
         s \notin overlapped =>
           /\ sessions[s].client \in {None, c}
           /\ \A j \in Posts : InProgress(j) /\ post[j].sid = s => j = c
           /\ refreshing'[s] = NoRefresh
  PROVE  IInv'
<1> DEFINE entry == [client |-> c, oauth2Service |-> serviceOf]
<1>0. entry \in Session /\ entry.client = c /\ entry.oauth2Service = serviceOf
  BY DEF Session
<1>1. PICK E \in Evictable(s) :
        /\ E \in SUBSET (Active \ {s})
        /\ DisconnectSessions(E)
        /\ sessions'[s] = entry
        /\ \A t \in Sids \ {s} :
             sessions'[t] = IF t \in E THEN NoSession ELSE sessions[t]
  BY <1>0, SetActiveFacts
<1>2. Active' = (Active \ E) \cup {s}
  BY <1>0, <1>1, PostsFacts DEF Active, NoSession
<1>3. /\ \A k \in Posts : connected'[k] <=>
           connected[k] /\ \A t \in E : sessions[t].client # k
      /\ \A k \in Posts :
           (\A t \in E : sessions[t].oauth2Service # k) => service'[k] = service[k]
      /\ \A k \in Posts :
           (\E t \in E : sessions[t].oauth2Service = k)
             => service'[k].state = "stopped"
  <2>1. E \in SUBSET Sids /\ E \cap Active = E
    BY <1>1 DEF Active
  <2>2. \A k \in Posts : Stop(service[k]).state = "stopped"
    BY DEF Stop, TypeOK, Service
  <2>3. QED
    BY <1>1, <2>1, <2>2, DisconnectFacts
<1> HIDE DEF entry
\* The clients of the evicted sessions are theirs alone.
<1>4. \A t \in Active \ {s} : sessions[t].client # c
  BY HeldFacts DEF IInv, HeldInv
<1>5. ASSUME NEW k \in Posts, \A t \in E : sessions[t].client # k
      PROVE  connected'[k] = connected[k] /\ service'[k] = service[k]
  <2>1. \A t \in E : sessions[t].oauth2Service # k
    BY <1>1, <1>5, HeldFacts DEF IInv
  <2>2. QED
    BY <1>3, <1>5, <2>1 DEF TypeOK
<1>6. connected'[c] = connected[c] /\ service'[c] = service[c]
  BY <1>1, <1>4, <1>5
<1>7. \A k \in Posts : (\E t \in E : sessions[t].client = k) =>
        post[k].stage \in {"storing", "replied"} /\ k # c
  BY <1>1, <1>4 DEF IInv, HeldInv
<1>8. HeldInv'
  <2> SUFFICES ASSUME NEW t \in Active'
               PROVE  /\ post'[sessions'[t].client].sid = t
                      /\ post'[sessions'[t].client].stage \in {"storing", "replied"}
                      /\ sessions'[t].oauth2Service \in {None, sessions'[t].client}
                      /\ sessions'[t].oauth2Service # None =>
                           /\ service'[sessions'[t].client].state = "running"
                           /\ connected'[sessions'[t].client]
    BY DEF HeldInv
  <2>1. CASE t = s
    BY <1>0, <1>1, <1>6, <2>1
  <2>2. CASE t # s
    <3> DEFINE d == sessions[t].client
    <3>1. t \in Active /\ t \in Sids /\ t \notin E /\ sessions'[t] = sessions[t]
      BY <1>1, <1>2, <2>2 DEF Active
    <3>2. d \in Posts /\ d # c /\ \A u \in E : sessions[u].client # d
      BY <1>1, <1>4, <2>2, <3>1, HeldFacts DEF IInv
    <3>3. post'[d] = post[d] /\ connected'[d] = connected[d] /\ service'[d] = service[d]
      BY <1>5, <3>2
    <3>4. QED
      BY <3>1, <3>3 DEF IInv, HeldInv
  <2>3. QED
    BY <2>1, <2>2
<1>9. TakenInv'
  <2> SUFFICES ASSUME NEW t \in Sids, refreshing'[t] # NoRefresh
               PROVE  /\ refreshing'[t].client \in Posts
                      /\ post'[refreshing'[t].client].sid = t
                      /\ post'[refreshing'[t].client].stage \in {"storing", "replied"}
                      /\ t \notin overlapped' =>
                           sessions'[t].client \in {None, refreshing'[t].client}
    BY DEF TakenInv
  <2>1. refreshing'[t] = refreshing[t]
    OBVIOUS
  <2>2. t \notin overlapped => t # s
    OBVIOUS
  <2>3. t # s => sessions'[t].client \in {None, sessions[t].client}
    BY <1>1 DEF NoSession
  <2>4. QED
    BY <2>1, <2>2, <2>3 DEF IInv, TakenInv
<1>10. PostInv'
  <2> SUFFICES ASSUME NEW k \in Posts
               PROVE
                 /\ post'[k].stage \in {"unsent", "clearing"} => service'[k].state = "none"
                 /\ post'[k].stage \in {"unsent", "clearing", "token"} => ~connected'[k]
                 /\ ~post'[k].iam => service'[k].state = "none"
                 /\ post'[k].iam /\ InProgress(k)' /\ post'[k].stage # "clearing" =>
                      service'[k].state = "running"
                 /\ post'[k].stage = "bootstrapping" => connected'[k]
                 /\ post'[k].stage = "token" => post'[k].iam
    BY DEF PostInv
  <2>1. CASE k = c
    BY <1>6, <2>1 DEF IInv, PostInv, InProgress, Running
  <2>2. CASE k # c /\ \A t \in E : sessions[t].client # k
    <3>1. post'[k] = post[k] /\ connected'[k] = connected[k] /\ service'[k] = service[k]
      BY <1>5, <2>2
    <3>2. QED
      BY <3>1 DEF IInv, PostInv, InProgress
  <2>3. CASE k # c /\ \E t \in E : sessions[t].client = k
    <3>1. post'[k] = post[k] /\ post[k].stage \in {"storing", "replied"}
      BY <1>7, <2>3
    <3>2. (\E t \in E : sessions[t].oauth2Service = k) => service[k].state = "running"
      BY <1>1, PostsFacts, HeldFacts DEF IInv, HeldInv
    <3>3. ~post[k].iam => service[k].state = "none"
      BY DEF IInv, PostInv
    <3>4. ~post[k].iam => service'[k] = service[k]
      BY <1>3, <3>2, <3>3
    <3>5. ~InProgress(k)'
      BY <3>1 DEF InProgress, Running
    <3>6. QED
      BY <3>1, <3>3, <3>4, <3>5
  <2>4. QED
    BY <2>1, <2>2, <2>3
<1>11. AloneInv'
  <2> SUFFICES ASSUME NEW k \in Posts, post'[k].stage \in Running,
                      post'[k].sid \notin overlapped'
               PROVE  /\ refreshing'[post'[k].sid] = NoRefresh
                      /\ \A j \in Posts :
                           post'[j].stage \in Running /\ post'[j].sid = post'[k].sid => j = k
                      /\ InProgress(k)' => sessions'[post'[k].sid] = NoSession
    BY DEF AloneInv
  <2>1. \A j \in Posts : /\ post'[j].sid = post[j].sid /\ post[j].sid \in Sids
                         /\ post'[j].stage \in Running => post[j].stage \in Running
    BY DEF TypeOK, Post, Running
  <2>2. /\ refreshing[post[k].sid] = NoRefresh
        /\ \A j \in Posts :
             post[j].stage \in Running /\ post[j].sid = post[k].sid => j = k
        /\ InProgress(k) => sessions[post[k].sid] = NoSession
    BY <2>1 DEF IInv, AloneInv
  <2>3. ASSUME InProgress(k)' PROVE sessions'[post'[k].sid] = NoSession
    <3>1. k # c
      BY <2>3 DEF InProgress, Running
    <3>2. InProgress(k)
      BY <2>3, <3>1 DEF InProgress
    <3>3. post[k].sid # s
      BY <2>1, <3>1, <3>2
    <3>4. QED
      BY <1>1, <2>1, <2>2, <3>2, <3>3
  <2>4. QED
    BY <2>1, <2>2, <2>3
<1>12. NoLeakedClient'
  <2> SUFFICES ASSUME NEW k \in Posts, connected'[k], k # c
               PROVE  InProgress(k)' \/ Held(k)' \/ post'[k].sid \in overlapped'
    BY <1>0, <1>1 DEF NoLeakedClient, Held
  <2>1. connected[k] /\ \A t \in E : sessions[t].client # k
    BY <1>3
  <2>2. ASSUME NEW t \in Sids, sessions[t].client = k
        PROVE  Held(k)' \/ post'[k].sid \in overlapped'
    <3>1. t \in Active /\ t \notin E
      BY <2>1, <2>2, PostsFacts DEF Active, NoSession
    <3>2. CASE t = s
      BY <2>2, <3>1, <3>2, PostsFacts DEF IInv, HeldInv
    <3>3. CASE t # s
      BY <1>1, <2>2, <3>1, <3>3 DEF Held
    <3>4. QED
      BY <3>2, <3>3
  <2>3. QED
    BY <2>1, <2>2 DEF IInv, NoLeakedClient, Held, InProgress
<1>13. NoLeakedService'
  <2> SUFFICES ASSUME NEW k \in Posts, service'[k].state = "running"
               PROVE  \/ InProgress(k)'
                      \/ \E t \in Sids : sessions'[t].oauth2Service = k
                      \/ post'[k].sid \in overlapped' \cup refreshed'
    BY DEF NoLeakedService
  <2>1. service[k].state = "running" /\ \A t \in E : sessions[t].oauth2Service # k
    BY <1>3
  <2>2. CASE k = c
    BY <1>0, <1>1, <2>1, <2>2
  <2>3. CASE k # c
    <3>1. ASSUME NEW t \in Sids, sessions[t].oauth2Service = k
          PROVE  \/ \E u \in Sids : sessions'[u].oauth2Service = k
                 \/ post'[k].sid \in overlapped'
      <4>1. t \in Active /\ t \notin E
        BY <2>1, <3>1, PostsFacts DEF Active, NoSession
      <4>2. sessions[t].client = k
        BY <3>1, <4>1, HeldFacts DEF IInv
      <4>3. CASE t = s
        BY <2>3, <4>1, <4>2, <4>3, PostsFacts DEF IInv, HeldInv
      <4>4. CASE t # s
        BY <1>1, <3>1, <4>1, <4>4
      <4>5. QED
        BY <4>3, <4>4
    <3>2. QED
      BY <2>1, <2>3, <3>1 DEF IInv, NoLeakedService, InProgress
  <2>4. QED
    BY <2>2, <2>3
<1>14. QED
  BY <1>8, <1>9, <1>10, <1>11, <1>12, <1>13 DEF IInv

LEMMA InitIInv == Init => IInv
<1> SUFFICES ASSUME Init PROVE IInv
  OBVIOUS
<1>1. Active = {} /\ \A s \in Sids : sessions[s] = NoSession
  BY DEF Init, Active
<1>2. HeldInv /\ TakenInv
  BY <1>1 DEF Init, HeldInv, TakenInv
<1>3. PostInv /\ AloneInv /\ NoLeakedClient /\ NoLeakedService
  BY DEF Init, PostInv, AloneInv, NoLeakedClient, NoLeakedService, InProgress, Running
<1>4. QED
  BY <1>2, <1>3 DEF IInv

LEMMA StepIInv == TypeOK /\ TypeOK' /\ IInv /\ [Next]_vars => IInv'
<1> SUFFICES ASSUME TypeOK, TypeOK', IInv, [Next]_vars PROVE IInv'
  OBVIOUS
<1> USE DEF history
<1>1. ASSUME NEW k \in Posts, NEW s \in Sids, NEW iam \in BOOLEAN, Connect(k, s, iam)
      PROVE  IInv'
  <2>1. /\ \A j \in Posts \ {k} : post'[j] = post[j]
        /\ post[k].stage = "unsent" /\ post'[k].stage = "clearing" /\ post'[k].sid = s
    BY <1>1 DEF Connect, TypeOK
  <2>2. overlapped \subseteq overlapped' /\ (Busy(s) => s \in overlapped')
    BY <1>1 DEF Connect, Request
  <2>3. QED
    BY <1>1, <2>1, <2>2, DropStep DEF Connect, Request
<1>2. ASSUME NEW k \in Posts, CacheCleared(k) PROVE IInv'
  <2>1. InProgress(k) /\ service[k].state = "none" /\ ~connected[k]
    BY <1>2 DEF CacheCleared, IInv, PostInv, InProgress, Running
  <2>2. CASE post[k].iam /\ post'[k].stage = "token"
    <3>1. /\ \A j \in Posts \ {k} : post'[j] = post[j] /\ service'[j] = service[j]
          /\ post'[k].sid = post[k].sid /\ post'[k].iam = post[k].iam
          /\ service'[k].state = "running"
      <4>1. /\ post' = [post EXCEPT ![k].stage = "token"]
            /\ service' = [service EXCEPT ![k] = [state |-> "running", timer |-> "none",
                                                  request |-> "first"]]
        <5>1. CASE Stage(k, "replied")
          BY <2>2, <5>1 DEF Stage, TypeOK, Post
        <5>2. QED
          BY <1>2, <2>2, <5>1 DEF CacheCleared, Stage
      <4>2. QED
        BY <4>1 DEF TypeOK, Post
    <3>2. QED
      BY <1>2, <2>1, <2>2, <3>1, LocalStep DEF CacheCleared
  <2>3. CASE ~(post[k].iam /\ post'[k].stage = "token")
    <3>1. /\ \A j \in Posts \ {k} : post'[j] = post[j]
          /\ post'[k].sid = post[k].sid /\ post'[k].iam = post[k].iam
          /\ post'[k].stage \in {"connecting", "replied"}
          /\ post'[k].stage = "connecting" => ~post[k].iam
          /\ UNCHANGED service
      BY <1>2, <2>3 DEF CacheCleared, Stage, TypeOK, Post
    <3>2. QED
      BY <1>2, <2>1, <3>1, LocalStep DEF CacheCleared
  <2>4. QED
    BY <2>2, <2>3
<1>3. ASSUME NEW k \in Posts, TokenAcquired(k) PROVE IInv'
  <2>1. InProgress(k)
    BY <1>3 DEF TokenAcquired, InProgress, Running
  <2>2. /\ \A j \in Posts \ {k} : post'[j] = post[j] /\ service'[j] = service[j]
        /\ post'[k].sid = post[k].sid /\ post'[k].iam = post[k].iam
        /\ post'[k].stage = "connecting"
        /\ service'[k].state = service[k].state
    BY <1>3 DEF TokenAcquired, TypeOK, Post, Service
  <2>3. /\ ~post[k].iam => service[k].state = "none"
        /\ post[k].iam => service[k].state = "running"
    BY <1>3, <2>1 DEF TokenAcquired, IInv, PostInv
  <2>4. QED
    BY <1>3, <2>1, <2>2, <2>3, LocalStep DEF TokenAcquired
<1>4. ASSUME NEW k \in Posts, TokenFailed(k) PROVE IInv'
  <2>1. InProgress(k) /\ ~connected[k]
    BY <1>4 DEF TokenFailed, InProgress, Running, IInv, PostInv
  <2>2. /\ \A j \in Posts \ {k} : post'[j] = post[j] /\ service'[j] = service[j]
        /\ post'[k].sid = post[k].sid /\ post'[k].iam = post[k].iam
        /\ post'[k].stage = "replied"
        /\ service'[k].state = "stopped"
    BY <1>4 DEF TokenFailed, Stage, Stop, TypeOK, Post, Service
  <2>3. post[k].iam
    BY <1>4 DEF TokenFailed, IInv, PostInv
  <2>4. QED
    BY <1>4, <2>1, <2>2, <2>3, LocalStep DEF TokenFailed
<1>5. ASSUME NEW k \in Posts,
             ClientConnected(k) \/ AttemptFails(k) \/ NextAttempt(k)
      PROVE  IInv'
  <2>1. InProgress(k) /\ post[k].stage # "clearing"
    BY <1>5 DEF ClientConnected, AttemptFails, NextAttempt, InProgress, Running
  <2>2. /\ \A j \in Posts \ {k} : post'[j] = post[j] /\ connected'[j] = connected[j]
        /\ post'[k].sid = post[k].sid /\ post'[k].iam = post[k].iam
        /\ post'[k].stage \in {"connecting", "waiting", "bootstrapping"}
        /\ post'[k].stage = "bootstrapping" => connected'[k]
        /\ UNCHANGED <<service, sessions, refreshing, history>>
    BY <1>5 DEF ClientConnected, AttemptFails, NextAttempt, Stage, TypeOK, Post
  <2>3. /\ ~post[k].iam => service[k].state = "none"
        /\ post[k].iam => service[k].state = "running"
    BY <2>1 DEF IInv, PostInv
  <2>4. QED
    BY <2>1, <2>2, <2>3, LocalStep
<1>6. ASSUME NEW k \in Posts, GiveUp(k) PROVE IInv'
  <2>1. InProgress(k) /\ (~post[k].iam => service[k].state = "none")
    BY <1>6 DEF GiveUp, InProgress, Running, IInv, PostInv
  <2>2. /\ \A j \in Posts \ {k} : /\ post'[j] = post[j] /\ service'[j] = service[j]
                                  /\ connected'[j] = connected[j]
        /\ post'[k].sid = post[k].sid /\ post'[k].iam = post[k].iam
        /\ post'[k].stage = "replied"
        /\ ~connected'[k]
        /\ service'[k].state = IF post[k].iam THEN "stopped" ELSE service[k].state
    BY <1>6 DEF GiveUp, Stage, Stop, TypeOK, Post, Service
  <2>3. service'[k].state # "running" /\ (~post[k].iam => service'[k].state = "none")
    BY <2>1, <2>2
  <2>4. UNCHANGED <<sessions, refreshing, history>>
    BY <1>6 DEF GiveUp
  <2>5. QED
    BY <2>1, <2>2, <2>3, <2>4, LocalStep
<1>7. ASSUME NEW k \in Posts, Bootstrapped(k) PROVE IInv'
  <2> DEFINE s == post[k].sid
             serviceOf == IF post[k].iam THEN k ELSE None
  <2>1. s \in Sids /\ InProgress(k) /\ serviceOf \in {None, k}
    BY <1>7 DEF Bootstrapped, TypeOK, Post, InProgress, Running
  <2>2. /\ \A j \in Posts \ {k} : post'[j] = post[j]
        /\ post'[k].sid = s /\ post'[k].iam = post[k].iam
        /\ post'[k].stage = "storing"
    BY <1>7 DEF Bootstrapped, Stage, TypeOK, Post
  <2>3. /\ connected[k]
        /\ post[k].iam => service[k].state = "running"
        /\ ~post[k].iam => service[k].state = "none"
    BY <1>7, <2>1 DEF Bootstrapped, IInv, PostInv
  <2>4. s \notin overlapped =>
          /\ sessions[s].client \in {None, k}
          /\ \A j \in Posts : InProgress(j) /\ post[j].sid = s => j = k
          /\ refreshing[s] = NoRefresh
    BY <2>1 DEF IInv, AloneInv, InProgress, NoSession
  <2>5. SetActiveConnection(s, [client |-> k, oauth2Service |-> serviceOf])
    BY <1>7 DEF Bootstrapped
  <2>6. (serviceOf = k => service[k].state = "running")
        /\ (service[k].state = "running" => serviceOf = k)
    BY <2>3, PostsFacts
  <2> HIDE DEF s, serviceOf
  <2>7. post[k].sid = s /\ post[k].stage = "bootstrapping"
    BY <1>7 DEF Bootstrapped, s
  <2>8. QED
    BY <1>7, <2>1, <2>2, <2>3, <2>4, <2>5, <2>6, <2>7, StoreStep DEF Bootstrapped
<1>8. ASSUME NEW k \in Posts, Reply(k) PROVE IInv'
  <2>1. /\ \A j \in Posts \ {k} : post'[j] = post[j]
        /\ post'[k].sid = post[k].sid /\ post'[k].iam = post[k].iam
        /\ post[k].stage = "storing" /\ post'[k].stage = "replied"
        /\ UNCHANGED <<sessions, connected, service, refreshing, history>>
        /\ Active' = Active
    BY <1>8 DEF Reply, Stage, TypeOK, Post, Active
  <2>2. HeldInv'
    BY <2>1, EntryType DEF IInv, HeldInv
  <2>3. TakenInv'
    BY <2>1 DEF IInv, TakenInv
  <2>4. PostInv'
    BY <2>1 DEF IInv, PostInv, InProgress, Running
  <2>5. AloneInv'
    BY <2>1 DEF IInv, AloneInv, InProgress, Running
  <2>6. NoLeakedClient'
    BY <2>1 DEF IInv, NoLeakedClient, InProgress, Running, Held
  <2>7. NoLeakedService'
    BY <2>1 DEF IInv, NoLeakedService, InProgress, Running
  <2>8. QED
    BY <2>2, <2>3, <2>4, <2>5, <2>6, <2>7 DEF IInv
<1>9. ASSUME NEW s \in Sids, Disconnect(s) PROVE IInv'
  BY <1>9, DropStep DEF Disconnect, Request
<1>10. ASSUME NEW s \in Sids, Cleanup(s) PROVE IInv'
  BY <1>10, DropStep DEF Cleanup
<1>11. ASSUME NEW s \in Sids, RefreshStart(s) PROVE IInv'
  <2> DEFINE c == sessions[s].client
  <2>1. /\ s \in Active /\ c \in Posts /\ post[c].sid = s
        /\ post[c].stage \in {"storing", "replied"}
    BY <1>11, HeldFacts DEF RefreshStart, IInv, HeldInv
  <2>2. /\ UNCHANGED <<sessions, post, connected, service, refreshed>>
        /\ overlapped \subseteq overlapped'
        /\ Busy(s) => s \in overlapped'
        /\ refreshing'[s].client = c
        /\ \A t \in Sids \ {s} : refreshing'[t] = refreshing[t]
        /\ Active' = Active
    BY <1>11 DEF RefreshStart, Request, TypeOK, Active
  <2>3. HeldInv'
    BY <2>2, EntryType DEF IInv, HeldInv
  <2>4. TakenInv'
    BY <2>1, <2>2 DEF IInv, TakenInv
  <2>5. PostInv'
    BY <2>2 DEF IInv, PostInv, InProgress
  <2>6. AloneInv'
    BY <2>2 DEF IInv, AloneInv, InProgress, Busy, TypeOK, Post
  <2>7. NoLeakedClient'
    BY <2>2 DEF IInv, NoLeakedClient, InProgress, Held
  <2>8. NoLeakedService'
    BY <2>2 DEF IInv, NoLeakedService, InProgress
  <2>9. QED
    BY <2>3, <2>4, <2>5, <2>6, <2>7, <2>8 DEF IInv
<1>12. ASSUME NEW s \in Sids, RefreshGoesOn(s) \/ RefreshFails(s) PROVE IInv'
  <2>1. \A t \in Sids : \/ refreshing'[t] = NoRefresh
                        \/ /\ refreshing[t] # NoRefresh
                           /\ refreshing'[t].client = refreshing[t].client
    BY <1>12 DEF RefreshGoesOn, RefreshFails, TypeOK, Refreshing
  <2>2. UNCHANGED <<sessions, post, connected, service, history>>
    BY <1>12 DEF RefreshGoesOn, RefreshFails
  <2>3. QED
    BY <2>1, <2>2, QuietStep
<1>13. ASSUME NEW s \in Sids, RefreshStored(s) PROVE IInv'
  <2> DEFINE c == refreshing[s].client
  <2>1. refreshing[s] # NoRefresh
    BY <1>13 DEF RefreshStored, NoRefresh
  <2>2. /\ c \in Posts /\ post[c].sid = s /\ post[c].stage \in {"storing", "replied"}
        /\ s \notin overlapped => sessions[s].client \in {None, c}
    BY <2>1 DEF IInv, TakenInv
  <2>3. s \notin overlapped => \A j \in Posts : ~(InProgress(j) /\ post[j].sid = s)
    BY <2>1 DEF IInv, AloneInv, InProgress
  <2>4. /\ SetActiveConnection(s, [client |-> c, oauth2Service |-> None])
        /\ UNCHANGED <<post, overlapped>>
        /\ refreshed \subseteq refreshed' /\ s \in refreshed'
        /\ refreshing'[s] = NoRefresh
        /\ \A t \in Sids : refreshing'[t] \in {refreshing[t], NoRefresh}
    BY <1>13 DEF RefreshStored, TypeOK
  <2>5. None # c
    BY <2>2, PostsFacts
  <2> HIDE DEF c
  <2>6. QED
    BY <2>2, <2>3, <2>4, <2>5, StoreStep
<1>14. ASSUME NEW k \in Posts, Timer(k) \/ TokenRefreshed(k) \/ RefreshRejected(k)
       PROVE  IInv'
  <2>1. \A j \in Posts : service'[j].state = service[j].state
    <3>1. CASE Timer(k)
      BY <3>1 DEF Timer, TimerFires, TypeOK, Service
    <3>2. CASE TokenRefreshed(k)
      BY <3>2 DEF TokenRefreshed, TypeOK, Service
    <3>3. CASE RefreshRejected(k)
      BY <3>3 DEF RefreshRejected, TypeOK, Service
    <3>4. QED
      BY <1>14, <3>1, <3>2, <3>3
  <2>2. UNCHANGED <<sessions, post, connected, refreshing, history>>
    BY <1>14 DEF Timer, TokenRefreshed, RefreshRejected
  <2>3. \A s \in Sids : \/ refreshing'[s] = NoRefresh
                        \/ /\ refreshing[s] # NoRefresh
                           /\ refreshing'[s].client = refreshing[s].client
    BY <2>2
  <2>4. QED
    BY <2>1, <2>2, <2>3, QuietStep
<1>15. CASE UNCHANGED vars
  <2>1. \A s \in Sids : \/ refreshing'[s] = NoRefresh
                        \/ /\ refreshing[s] # NoRefresh
                           /\ refreshing'[s].client = refreshing[s].client
    BY <1>15 DEF vars
  <2>2. QED
    BY <1>15, <2>1, QuietStep DEF vars
<1>16. QED
  BY <1>1, <1>2, <1>3, <1>4, <1>5, <1>6, <1>7, <1>8, <1>9, <1>10, <1>11, <1>12,
     <1>13, <1>14, <1>15 DEF Next

\* The inductive invariant holds for every number of sessions and requests.
THEOREM Invariant == Spec => []IInv
<1>1. QED
  BY InitIInv, StepIInv, TypeCorrect, PTL DEF Spec

\* A token service that a session holds is running and its client connected,
\* whoever else disconnects, is evicted or expires.
THEOREM ServicesRun == Spec => []HeldServiceRuns
<1>1. TypeOK /\ IInv => HeldServiceRuns
  BY PostsFacts DEF IInv, HeldInv, HeldServiceRuns
<1>2. QED
  BY <1>1, Invariant, TypeCorrect, PTL

\* No channel leaks while a session sends its requests one at a time.
THEOREM ClientsOwned == Spec => []NoLeakedClient
<1>1. IInv => NoLeakedClient
  BY DEF IInv
<1>2. QED
  BY <1>1, Invariant, PTL

\* No background refresh leaks while a session sends its requests one at a
\* time and does not refresh its bootstrap data.
THEOREM ServicesOwned == Spec => []NoLeakedService
<1>1. IInv => NoLeakedService
  BY DEF IInv
<1>2. QED
  BY <1>1, Invariant, PTL

\* A stopped service stays stopped and sends nothing more, though its timer,
\* its retry and the answer to its last request may be due.
THEOREM StoppedStaysQuiet == Spec => StoppedIsQuiet
<1> DEFINE Quiet(k) == service[k].state = "stopped" =>
                         /\ service'[k].state = "stopped"
                         /\ service'[k].request \in {service[k].request, "none"}
<1>1. TypeOK /\ IInv /\ [Next]_vars => [\A k \in Posts : Quiet(k)]_vars
  <2> SUFFICES ASSUME TypeOK, IInv, Next, NEW k \in Posts PROVE Quiet(k)
    OBVIOUS
  <2>1. ASSUME NEW S \in SUBSET Sids, DisconnectSessions(S) PROVE Quiet(k)
    <3>1. Stop(service[k]).state = "stopped" /\ Stop(service[k]).request = service[k].request
      BY DEF Stop, TypeOK, Service
    <3>2. service'[k] \in {service[k], Stop(service[k])}
      BY <2>1, DisconnectFacts
    <3>3. QED
      BY <3>1, <3>2
  <2>2. ASSUME UNCHANGED service PROVE Quiet(k)
    BY <2>2
  <2>3. ASSUME NEW s \in Sids, NEW entry \in Session, SetActiveConnection(s, entry)
        PROVE  Quiet(k)
    <3>1. PICK evicted \in Evictable(s) :
            evicted \in SUBSET (Active \ {s}) /\ DisconnectSessions(evicted)
      BY <2>3, SetActiveFacts
    <3>2. evicted \in SUBSET Sids
      BY <3>1 DEF Active
    <3>3. QED
      BY <2>1, <3>1, <3>2
  <2>4. ASSUME NEW j \in Posts, NEW s \in Sids, NEW iam \in BOOLEAN, Connect(j, s, iam)
        PROVE  Quiet(k)
    BY <2>1, <2>4, {s} \in SUBSET Sids DEF Connect
  <2>5. ASSUME NEW s \in Sids, Disconnect(s) \/ Cleanup(s) PROVE Quiet(k)
    BY <2>1, <2>5, {s} \in SUBSET Sids DEF Disconnect, Cleanup
  <2>6. ASSUME NEW j \in Posts, CacheCleared(j) PROVE Quiet(k)
    <3>1. service[j].state = "none"
      BY <2>6 DEF CacheCleared, IInv, PostInv
    <3>2. k # j => service'[k] = service[k]
      BY <2>6 DEF CacheCleared, TypeOK
    <3>3. QED
      BY <3>1, <3>2
  <2>7. ASSUME NEW j \in Posts, TokenAcquired(j) \/ TokenFailed(j) \/ GiveUp(j)
        PROVE  Quiet(k)
    <3>1. CASE TokenAcquired(j)
      BY <3>1 DEF TokenAcquired, TypeOK, Service
    <3>2. CASE TokenFailed(j)
      BY <3>2 DEF TokenFailed, Stop, TypeOK, Service
    <3>3. CASE GiveUp(j)
      BY <3>3 DEF GiveUp, Stop, TypeOK, Service
    <3>4. QED
      BY <2>7, <3>1, <3>2, <3>3
  <2>8. ASSUME NEW j \in Posts, ClientConnected(j) \/ AttemptFails(j) \/ NextAttempt(j)
                                \/ Reply(j)
        PROVE  Quiet(k)
    BY <2>2, <2>8 DEF ClientConnected, AttemptFails, NextAttempt, Reply
  <2>9. ASSUME NEW s \in Sids, RefreshStart(s) \/ RefreshGoesOn(s) \/ RefreshFails(s)
        PROVE  Quiet(k)
    BY <2>2, <2>9 DEF RefreshStart, RefreshGoesOn, RefreshFails
  <2>10. ASSUME NEW j \in Posts, Bootstrapped(j) PROVE Quiet(k)
    <3> DEFINE entry == [client |-> j, oauth2Service |-> IF post[j].iam THEN j ELSE None]
    <3>1. entry \in Session /\ post[j].sid \in Sids
      BY DEF Session, Post, TypeOK
    <3>2. SetActiveConnection(post[j].sid, entry)
      BY <2>10 DEF Bootstrapped
    <3> HIDE DEF entry
    <3>3. QED
      BY <2>3, <3>1, <3>2
  <2>11. ASSUME NEW s \in Sids, RefreshStored(s) PROVE Quiet(k)
    <3> DEFINE entry == [client |-> refreshing[s].client, oauth2Service |-> None]
    <3>1. entry \in Session
      BY <2>11 DEF RefreshStored, Refreshing, NoRefresh, Session, TypeOK
    <3>2. SetActiveConnection(s, entry)
      BY <2>11 DEF RefreshStored
    <3> HIDE DEF entry
    <3>3. QED
      BY <2>3, <3>1, <3>2
  <2>12. ASSUME NEW j \in Posts, Timer(j) \/ TokenRefreshed(j) \/ RefreshRejected(j)
         PROVE  Quiet(k)
    <3>1. CASE Timer(j)
      BY <3>1 DEF Timer, TimerFires, TypeOK, Service
    <3>2. CASE TokenRefreshed(j)
      BY <3>2 DEF TokenRefreshed, TypeOK, Service
    <3>3. CASE RefreshRejected(j)
      BY <3>3 DEF RefreshRejected, TypeOK, Service
    <3>4. QED
      BY <2>12, <3>1, <3>2, <3>3
  <2> HIDE DEF Quiet
  <2>13. QED
    BY <2>4, <2>5, <2>6, <2>7, <2>8, <2>9, <2>10, <2>11, <2>12 DEF Next
<1>2. QED
  BY <1>1, Invariant, TypeCorrect, PTL DEF Spec, StoppedIsQuiet

-----------------------------------------------------------------------------
(***************************************************************************)
(* The CI pipeline.                                                        *)
(***************************************************************************)

CiInv == CiTypeOK /\ CiHolds /\ CiLeavesOnly

LEMMA CiInitially == CiInit => CiInv
BY DEF CiInit, CiInv, CiTypeOK, CiHolds, CiLeavesOnly, Registered, At, NoRun, Run, Sandbox, Steps

\* A throw ends the request, or hands what it knows to deleteSandbox.
LEMMA ThrowFacts ==
  ASSUME CiInv, NEW r \in Run, Throw(r), UNCHANGED sandbox,
         ci.step \notin {"idle", "persisting", "replied", "scripting", "unlinking", "tearing"},
         r.id = ci.id, r.dar => r.diskFull
  PROVE  CiInv'
<1>1. /\ ci' \in Run /\ ci'.thrown /\ ci'.id = ci.id
      /\ ci'.dar = r.dar /\ ci'.diskFull = r.diskFull
      /\ ci'.step = IF ci.id THEN "tearing" ELSE "replied"
  BY DEF Throw, Run, Steps
<1>2. QED
  BY <1>1 DEF CiInv, CiTypeOK, CiHolds, CiLeavesOnly, Registered, At

LEMMA RequestStep ==
  ASSUME CiInv, RunRequested \/ Provision \/ Provisioned
  PROVE  CiInv'
<1>1. CASE RunRequested
  BY <1>1, ZenonT(60) DEF RunRequested, CiInv, CiTypeOK, CiHolds, CiLeavesOnly, Registered, At, Run, Sandbox, Steps
<1>2. CASE Provision
  BY <1>2 DEF Provision, Goto, CiInv, CiTypeOK, CiHolds, CiLeavesOnly, Registered, At, Run, Sandbox, Steps
<1>3. CASE Provisioned
  BY <1>3 DEF Provisioned, CiInv, CiTypeOK, CiHolds, CiLeavesOnly, Registered, At, Run, Sandbox, Steps
<1>4. QED
  BY <1>1, <1>2, <1>3

LEMMA WaitingStep ==
  ASSUME CiInv, Polled \/ WaitTimeout
  PROVE  CiInv'
<1>1. At("waiting") /\ UNCHANGED sandbox /\ (Throw(ci) \/ Goto("uploading"))
  BY DEF Polled, WaitTimeout
<1>2. CASE Throw(ci)
  BY <1>1, <1>2, ThrowFacts DEF CiInv, CiTypeOK, CiHolds, CiLeavesOnly, Registered, At
<1>3. CASE Goto("uploading")
  BY <1>1, <1>3 DEF Goto, CiInv, CiTypeOK, CiHolds, CiLeavesOnly, Registered, At, Run, Sandbox, Steps
<1>4. QED
  BY <1>1, <1>2, <1>3

LEMMA ConnectingLedgerStep ==
  ASSUME CiInv, Uploaded \/ Connected \/ SandboxBootstrapped \/ DarWritten
  PROVE  CiInv'
<1>1. CASE Uploaded
  BY <1>1 DEF Uploaded, Goto, CiInv, CiTypeOK, CiHolds, CiLeavesOnly, Registered, At, Run, Sandbox, Steps
<1>2. CASE Connected
  BY <1>2 DEF Connected, CiInv, CiTypeOK, CiHolds, CiLeavesOnly, Registered, At, Run, Sandbox, Steps
<1>3. CASE SandboxBootstrapped
  BY <1>3 DEF SandboxBootstrapped, Goto, CiInv, CiTypeOK, CiHolds, CiLeavesOnly, Registered, At, Run, Sandbox, Steps
<1>4. CASE DarWritten
  BY <1>4 DEF DarWritten, CiInv, CiTypeOK, CiHolds, CiLeavesOnly, Registered, At, Run, Sandbox, Steps
<1>5. QED
  BY <1>1, <1>2, <1>3, <1>4

LEMMA ScriptStep ==
  ASSUME CiInv, ScriptSucceeds \/ ScriptFails \/ Unlinked
  PROVE  CiInv'
<1>1. CASE ScriptSucceeds
  BY <1>1 DEF ScriptSucceeds, Goto, CiInv, CiTypeOK, CiHolds, CiLeavesOnly, Registered, At, Run, Sandbox, Steps
<1>2. CASE ScriptFails
  BY <1>2 DEF ScriptFails, CiInv, CiTypeOK, CiHolds, CiLeavesOnly, Registered, At, Run, Sandbox, Steps
<1>3. CASE Unlinked
  <2>1. PICK fails \in BOOLEAN :
          ci' = [ci EXCEPT !.step = "ledgerEnd", !.dar = fails,
                           !.diskFull = ci.diskFull \/ fails]
    BY <1>3 DEF Unlinked
  <2>2. (ci.diskFull \/ fails) \in BOOLEAN
    OBVIOUS
  <2>3. QED
    BY <1>3, <2>1, <2>2, ZenonT(60)
       DEF Unlinked, CiInv, CiTypeOK, CiHolds, CiLeavesOnly, Registered, At, Run, Sandbox, Steps
<1>4. QED
  BY <1>1, <1>2, <1>3

LEMMA AssertStep ==
  ASSUME CiInv, Collected \/ Asserted
  PROVE  CiInv'
<1>1. CASE Collected
  <2>1. (AllParties # {} /\ sandbox.ledger) \in BOOLEAN
    OBVIOUS
  <2>2. QED
    BY <1>1, <2>1 DEF Collected, CiInv, CiTypeOK, CiHolds, CiLeavesOnly, Registered, At, Run, Sandbox, Steps
<1>2. CASE Asserted
  <2>1. Verdict \in {"error", "failed", "passed"}
    BY DEF Verdict
  <2>2. QED
    BY <1>2, <2>1, ZenonT(60) DEF Asserted, CiInv, CiTypeOK, CiHolds, CiLeavesOnly, Registered, At, Run, Sandbox, Steps
<1>3. QED
  BY <1>1, <1>2

LEMMA TearDownStep ==
  ASSUME CiInv, TearDown
  PROVE  CiInv'
<1>1. CASE Registered
  BY <1>1 DEF TearDown, Goto, Registered, At, CiInv, CiTypeOK, CiHolds,
              CiLeavesOnly, Run, Sandbox, Steps
<1>2. CASE ~Registered
  <2>1. /\ At("tearing") /\ ci \in Run /\ UNCHANGED sandbox
        /\ ci' = [ci EXCEPT !.step = "replied", !.thrown = TRUE, !.status = "error"]
    BY <1>2 DEF TearDown, CiInv, CiTypeOK
  <2>2. /\ ci' \in Run /\ ci'.step = "replied" /\ ci'.thrown
        /\ ci'.dar = ci.dar /\ ci'.diskFull = ci.diskFull
    BY <2>1 DEF Run, Steps
  <2>3. ~Registered'
    BY <1>2, <2>1 DEF Registered
  <2>4. ci.dar => ci.diskFull
    BY <2>1 DEF CiInv, CiHolds, At
  <2>5. QED
    BY <2>1, <2>2, <2>3, <2>4 DEF CiInv, CiTypeOK, CiHolds, CiLeavesOnly
<1>3. QED
  BY <1>1, <1>2

LEMMA StepThrowsStep ==
  ASSUME CiInv, StepThrows
  PROVE  CiInv'
<1>1. PICK left \in BOOLEAN :
        /\ left => At("writing")
        /\ Throw([ci EXCEPT !.dar = ci.dar \/ left,
                            !.diskFull = ci.diskFull \/ left])
  BY DEF StepThrows
<1> DEFINE r == [ci EXCEPT !.dar = ci.dar \/ left, !.diskFull = ci.diskFull \/ left]
<1>2. ci.step \in Fragile /\ ci \in Run
  BY DEF StepThrows, CiInv, CiTypeOK
<1>3. /\ r \in Run /\ r.id = ci.id
      /\ r.dar = (ci.dar \/ left) /\ r.diskFull = (ci.diskFull \/ left)
  BY <1>2 DEF Run
<1>4. ci.dar => ci.diskFull
  BY <1>2 DEF CiInv, CiHolds, Fragile
<1>5. Throw(r) /\ UNCHANGED sandbox
  BY <1>1 DEF StepThrows
<1> HIDE DEF r
<1>6. QED
  BY <1>2, <1>3, <1>4, <1>5, ThrowFacts DEF Fragile

LEMMA OutsideStep ==
  ASSUME CiInv,
         SandboxStarts \/ SandboxDies \/ UserDeletes \/ UserResets \/ ResetDone
  PROVE  CiInv'
<1>1. CASE SandboxStarts
  BY <1>1 DEF SandboxStarts, CiInv, CiTypeOK, CiHolds, CiLeavesOnly, Registered, At, Sandbox
<1>2. CASE SandboxDies
  BY <1>2 DEF SandboxDies, CiInv, CiTypeOK, CiHolds, CiLeavesOnly, Registered, At, Sandbox
<1>3. CASE UserDeletes
  BY <1>3 DEF UserDeletes, CiInv, CiTypeOK, CiHolds, CiLeavesOnly, Registered, At, Sandbox
<1>4. CASE UserResets
  BY <1>4 DEF UserResets, CiInv, CiTypeOK, CiHolds, CiLeavesOnly, Registered, At, Sandbox
<1>5. CASE ResetDone
  BY <1>5 DEF ResetDone, CiInv, CiTypeOK, CiHolds, CiLeavesOnly, Registered, At, Sandbox
<1>6. QED
  BY <1>1, <1>2, <1>3, <1>4, <1>5

LEMMA CiAlways == CiSpec => []CiInv
<1>1. CiInv /\ [CiNext]_ciVars => CiInv'
  <2> SUFFICES ASSUME CiInv, [CiNext]_ciVars PROVE CiInv'
    OBVIOUS
  <2>1. CASE RunRequested \/ Provision \/ Provisioned
    BY <2>1, RequestStep
  <2>2. CASE Polled \/ WaitTimeout
    BY <2>2, WaitingStep
  <2>3. CASE Uploaded \/ Connected \/ SandboxBootstrapped \/ DarWritten
    BY <2>3, ConnectingLedgerStep
  <2>4. CASE ScriptSucceeds \/ ScriptFails \/ Unlinked
    BY <2>4, ScriptStep
  <2>5. CASE Collected \/ Asserted
    BY <2>5, AssertStep
  <2>6. CASE TearDown
    BY <2>6, TearDownStep
  <2>7. CASE StepThrows
    BY <2>7, StepThrowsStep
  <2>8. CASE SandboxStarts \/ SandboxDies \/ UserDeletes \/ UserResets \/ ResetDone
    BY <2>8, OutsideStep
  <2>9. CASE UNCHANGED ciVars
    BY <2>9 DEF ciVars, CiInv, CiTypeOK, CiHolds, CiLeavesOnly, Registered, At
  <2>10. QED
    BY <2>1, <2>2, <2>3, <2>4, <2>5, <2>6, <2>7, <2>8, <2>9 DEF CiNext, Pipeline
<1>2. QED
  BY <1>1, CiInitially, PTL DEF CiSpec

\* Whichever step failed and whatever users did to its sandbox, a pipeline that
\* is answered has left its sandbox behind only when a user's reset brought it
\* back, the DAR file only when the disk failed, and a connected client only
\* when a step threw.
THEOREM CiTheorem == CiSpec => [](CiTypeOK /\ CiLeavesOnly)
<1>1. CiInv => CiTypeOK /\ CiLeavesOnly
  BY DEF CiInv
<1>2. QED
  BY <1>1, CiAlways, PTL

-----------------------------------------------------------------------------
(***************************************************************************)
(* The form of the debugger.                                               *)
(***************************************************************************)

LEMMA LinkFacts ==
  ASSUME NEW url \in FormLinks
  PROVE  /\ url.package \in Packages /\ url.template \in DOMAIN Catalog[url.package]
         /\ url.choice \in Catalog[url.package][url.template] \cup {NoValue}
         /\ url.contract \in {NoValue, <<url.package, url.template>>}
         /\ url.package # NoValue /\ url.template # NoValue
<1>1. PICK p \in Packages :
        \E t \in DOMAIN Catalog[p] : \E c \in {NoValue} \cup Catalog[p][t] :
          \E contract \in {NoValue, <<p, t>>} : url = UrlOf(p, t, c, contract)
  <2>1. CASE url \in ExplorerLinks
    BY <2>1 DEF ExplorerLinks
  <2>2. CASE url \notin ExplorerLinks
    <3> DEFINE of(p, t) == {UrlOf(p, t, c, <<p, t>>) : c \in {NoValue} \cup Catalog[p][t]}
               all(p) == UNION {of(p, t) : t \in DOMAIN Catalog[p]}
    <3>1. url \in UNION {all(p) : p \in Packages}
      BY <2>2 DEF FormLinks
    <3> HIDE DEF all
    <3>2. PICK p \in Packages : url \in all(p)
      BY <3>1
    <3>3. PICK t \in DOMAIN Catalog[p] : url \in of(p, t)
      BY <3>2 DEF all
    <3>4. QED
      BY <3>2, <3>3
  <2>3. QED
    BY <2>1, <2>2
<1>2. PICK t \in DOMAIN Catalog[p] :
        \E c \in {NoValue} \cup Catalog[p][t] :
          \E contract \in {NoValue, <<p, t>>} : url = UrlOf(p, t, c, contract)
  BY <1>1
<1>3. PICK c \in {NoValue} \cup Catalog[p][t], contract \in {NoValue, <<p, t>>} :
        url = UrlOf(p, t, c, contract)
  BY <1>2
<1>4. NoValue # p /\ NoValue # t
  BY CatalogOK
<1>5. QED
  BY <1>3, <1>4 DEF UrlOf

LEMMA NoUrlFacts ==
  NoUrl.package = NoValue /\ NoUrl.template = NoValue /\ NoUrl.choice = NoValue
    /\ NoUrl.contract = NoValue
BY DEF NoUrl

LEMMA UrlFacts ==
  ASSUME NEW url \in {NoUrl} \cup FormLinks
  PROVE  /\ url.template # NoValue <=> url # NoUrl
         /\ url = NoUrl => url.choice = NoValue
<1>1. url \in FormLinks => url.template # NoValue
  BY LinkFacts
<1>2. QED
  BY <1>1, NoUrlFacts

(***************************************************************************)
(* The setters: what is set is set in both views, the rest stays.          *)
(***************************************************************************)

LEMMA SetPackage ==
  ASSUME NEW step, NEW p
  PROVE  LET set == Set(step, [package |-> p])
         IN /\ set.shown.package = p /\ set.stored.package = p
            /\ set.shown.template = step.shown.template
            /\ set.shown.choice = step.shown.choice /\ set.shown.args = step.shown.args
            /\ set.shown.contract = step.shown.contract
BY DEF Set, Fields

LEMMA SetTemplate ==
  ASSUME NEW step, NEW t
  PROVE  LET set == Set(step, [template |-> t])
         IN /\ set.shown.package = step.shown.package
            /\ set.stored.package = step.stored.package
            /\ set.shown.template = t
            /\ set.shown.choice = step.shown.choice /\ set.shown.args = step.shown.args
            /\ set.shown.contract = step.shown.contract
BY DEF Set, Fields

LEMMA SetChoice ==
  ASSUME NEW step, NEW c
  PROVE  LET set == Set(step, [choice |-> c])
         IN /\ set.shown.package = step.shown.package
            /\ set.stored.package = step.stored.package
            /\ set.shown.template = step.shown.template
            /\ set.shown.choice = c /\ set.shown.args = step.shown.args
            /\ set.shown.contract = step.shown.contract
BY DEF Set, Fields

LEMMA SetArgs ==
  ASSUME NEW step, NEW a
  PROVE  LET set == Set(step, [args |-> a])
         IN /\ set.shown.package = step.shown.package
            /\ set.stored.package = step.stored.package
            /\ set.shown.template = step.shown.template
            /\ set.shown.choice = step.shown.choice /\ set.shown.args = a
            /\ set.shown.contract = step.shown.contract
BY DEF Set, Fields

LEMMA SetContract ==
  ASSUME NEW step, NEW c
  PROVE  LET set == Set(step, [contract |-> c])
         IN /\ set.shown.package = step.shown.package
            /\ set.stored.package = step.stored.package
            /\ set.shown.template = step.shown.template
            /\ set.shown.choice = step.shown.choice /\ set.shown.args = step.shown.args
            /\ set.shown.contract = c
BY DEF Set, Fields

LEMMA PackageEffectFacts ==
  ASSUME NEW url, NEW step
  PROVE  LET after == PackageEffect(url, step)
         IN /\ after.shown.package = step.shown.package
            /\ after.stored.package = step.stored.package
            /\ after.shown.contract = step.shown.contract
            /\ url.template # NoValue => after = step
            /\ url.template = NoValue =>
                 /\ after.shown.template = NoValue /\ after.shown.choice = NoValue
                 /\ after.shown.args = NoArgs
BY DEF PackageEffect, Set, Fields

LEMMA TemplateEffectFacts ==
  ASSUME NEW url, NEW step
  PROVE  LET after == TemplateEffect(url, step)
         IN /\ after.shown.package = step.shown.package
            /\ after.stored.package = step.stored.package
            /\ after.shown.template = step.shown.template
            /\ after.shown.contract = step.shown.contract
            /\ url.choice # NoValue => after = step
            /\ url.choice = NoValue =>
                 after.shown.choice = NoValue /\ after.shown.args = NoArgs
BY DEF TemplateEffect, Set, Fields

LEMMA ChoiceEffectFacts ==
  ASSUME NEW step
  PROVE  LET after == ChoiceEffect(step)
         IN /\ after.shown.package = step.shown.package
            /\ after.stored.package = step.stored.package
            /\ after.shown.template = step.shown.template
            /\ after.shown.choice = step.shown.choice /\ after.shown.args = NoArgs
            /\ after.shown.contract = step.shown.contract
BY SetArgs DEF ChoiceEffect

\* After a template was selected nothing of the one before is left but the
\* contract, if the URL names no choice.
LEMMA AfterTemplateFacts ==
  ASSUME NEW url, NEW before, NEW step
  PROVE  LET after == AfterTemplate(url, before, step)
         IN /\ after.shown.package = step.shown.package
            /\ after.stored.package = step.stored.package
            /\ after.shown.template = step.shown.template
            /\ url.choice = NoValue /\ step.shown.template # before.template =>
                 after.shown.choice = NoValue /\ after.shown.args = NoArgs
            /\ url.choice = NoValue /\ step.shown.choice = NoValue
                 /\ step.shown.args = NoArgs =>
                 after.shown.choice = NoValue /\ after.shown.args = NoArgs
            /\ step.shown.template = before.template
                 /\ step.shown.choice = before.choice => after = step
<1> DEFINE one == IF step.shown.template # before.template
                  THEN TemplateEffect(url, step) ELSE step
           after == AfterTemplate(url, before, step)
<1>1. after = IF one.shown.choice # before.choice THEN ChoiceEffect(one) ELSE one
  BY DEF AfterTemplate
<1>2. /\ one.shown.package = step.shown.package
      /\ one.stored.package = step.stored.package
      /\ one.shown.template = step.shown.template
      /\ url.choice = NoValue /\ step.shown.template # before.template =>
           one.shown.choice = NoValue /\ one.shown.args = NoArgs
      /\ step.shown.template = before.template => one = step
  BY TemplateEffectFacts
<1> HIDE DEF one, after
<1>3. /\ after.shown.package = one.shown.package
      /\ after.stored.package = one.stored.package
      /\ after.shown.template = one.shown.template
      /\ after.shown.choice = one.shown.choice
      /\ after.shown.args \in {NoArgs, one.shown.args}
      /\ one.shown.choice = before.choice => after = one
  BY <1>1, ChoiceEffectFacts
<1>4. QED
  BY <1>2, <1>3 DEF after

LEMMA AfterPackageFacts ==
  ASSUME NEW url, NEW before, NEW step
  PROVE  LET after == AfterPackage(url, before, step)
         IN /\ after.shown.package = step.shown.package
            /\ after.stored.package = step.stored.package
            /\ url.template = NoValue /\ url.choice = NoValue
                 /\ step.shown.package # before.package =>
                 after.shown.choice = NoValue /\ after.shown.args = NoArgs
            /\ url.template # NoValue /\ step.shown.template = before.template
                 /\ step.shown.choice = before.choice => after = step
            /\ step.shown = before => after = step
<1> DEFINE one == IF step.shown.package # before.package
                  THEN PackageEffect(url, step) ELSE step
           after == AfterPackage(url, before, step)
<1>1. after = AfterTemplate(url, before, one)
  BY DEF AfterPackage
<1>2. /\ one.shown.package = step.shown.package
      /\ one.stored.package = step.stored.package
      /\ url.template = NoValue /\ step.shown.package # before.package =>
           one.shown.choice = NoValue /\ one.shown.args = NoArgs
      /\ url.template # NoValue => one = step
      /\ step.shown.package = before.package => one = step
  BY PackageEffectFacts
<1> HIDE DEF one, after
<1>3. /\ after.shown.package = one.shown.package
      /\ after.stored.package = one.stored.package
      /\ url.choice = NoValue /\ one.shown.choice = NoValue
           /\ one.shown.args = NoArgs =>
           after.shown.choice = NoValue /\ after.shown.args = NoArgs
      /\ one.shown.template = before.template
           /\ one.shown.choice = before.choice => after = one
  BY <1>1, AfterTemplateFacts
<1>4. QED
  BY <1>2, <1>3 DEF after

\* What is selected for the user is a package, and only with a URL.
LEMMA AutoSelectFacts ==
  ASSUME NEW url, NEW known \in SUBSET Packages, NEW step,
         NEW auto \in AutoSelect(url, known, step)
  PROVE  \/ auto = step
         \/ url # NoUrl /\ \E p \in Packages : auto = Set(step, [package |-> p])
BY DEF AutoSelect

\* An opened form has the template and the choice of the URL, its contract if it
\* has one, and no argument.
LEMMA OpenedFacts ==
  ASSUME NEW url \in {NoUrl} \cup FormLinks, NEW store,
         store.package \in Packages \cup {NoValue},
         NEW known \in SUBSET Packages,
         NEW step \in AutoSelect(url, known, FirstMount(url, store))
  PROVE  LET after == Opened(url, step)
         IN /\ after.shown.package \in Packages \cup {NoValue}
            /\ after.stored.package \in Packages \cup {NoValue}
            /\ after.shown.template = url.template
            /\ after.shown.choice = url.choice /\ after.shown.args = NoArgs
            /\ url.contract # NoValue => after.shown.contract = url.contract
<1> DEFINE first == FirstMount(url, store)
           one   == PackageEffect(url, step)
           two   == TemplateEffect(url, one)
           after == Opened(url, step)
<1>1. after = ChoiceEffect(two)
  BY DEF Opened
<1>2. /\ first.shown.package = store.package /\ first.stored.package = store.package
      /\ url.template # NoValue => first.shown.template = url.template
      /\ url.choice # NoValue => first.shown.choice = url.choice
      /\ url.contract # NoValue => first.shown.contract = url.contract
  BY DEF FirstMount, Fields
<1> HIDE DEF first
<1>3. step = first \/ \E p \in Packages : step = Set(first, [package |-> p])
  BY AutoSelectFacts DEF first
<1>4. /\ step.shown.package \in Packages \cup {NoValue}
      /\ step.stored.package \in Packages \cup {NoValue}
      /\ step.shown.template = first.shown.template
      /\ step.shown.choice = first.shown.choice
      /\ step.shown.contract = first.shown.contract
  <2>1. CASE step = first
    BY <1>2, <2>1
  <2>2. ASSUME NEW p \in Packages, step = Set(first, [package |-> p])
        PROVE  /\ step.shown.package = p /\ step.stored.package = p
               /\ step.shown.template = first.shown.template
               /\ step.shown.choice = first.shown.choice
               /\ step.shown.contract = first.shown.contract
    BY <2>2, SetPackage
  <2>3. QED
    BY <1>3, <2>1, <2>2
<1>5. /\ one.shown.package = step.shown.package
      /\ one.stored.package = step.stored.package
      /\ one.shown.contract = step.shown.contract
      /\ url.template # NoValue => one = step
      /\ url.template = NoValue => one.shown.template = NoValue
  BY PackageEffectFacts
<1> HIDE DEF one
<1>6. /\ two.shown.package = one.shown.package
      /\ two.stored.package = one.stored.package
      /\ two.shown.template = one.shown.template
      /\ two.shown.contract = one.shown.contract
      /\ url.choice # NoValue => two = one
      /\ url.choice = NoValue => two.shown.choice = NoValue
  BY TemplateEffectFacts
<1> HIDE DEF two
<1>7. /\ after.shown.package = two.shown.package
      /\ after.stored.package = two.stored.package
      /\ after.shown.template = two.shown.template
      /\ after.shown.contract = two.shown.contract
      /\ after.shown.choice = two.shown.choice /\ after.shown.args = NoArgs
  BY <1>1, ChoiceEffectFacts
<1> HIDE DEF after
<1>8. /\ url.template # NoValue <=> url # NoUrl
      /\ url = NoUrl => url.choice = NoValue
  BY UrlFacts
<1>9. QED
  BY <1>2, <1>4, <1>5, <1>6, <1>7, <1>8 DEF after

(***************************************************************************)
(* The steps of the form.                                                  *)
(***************************************************************************)

LEMMA FormInitially == FormInit => FormInv
<1> SUFFICES ASSUME FormInit PROVE FormInv
  OBVIOUS
<1>1. /\ form.open = FALSE /\ form.url = NoUrl /\ form.now.package = NoValue
      /\ storeForm.package = NoValue /\ link = NoUrl /\ loaded = {}
      /\ listed = {} /\ moved = FALSE
  BY DEF FormInit, Closed, EmptyForm, Fields
<1>2. QED
  BY <1>1 DEF FormInv, FormTypeOK

\* However a form is opened.
LEMMA OpenFormStep ==
  ASSUME NEW url \in {NoUrl} \cup FormLinks, NEW store,
         store.package \in Packages \cup {NoValue}, NEW known \in SUBSET Packages,
         OpenForm(url, store, known),
         link' \in {NoUrl} \cup FormLinks, url \in {NoUrl, link'},
         listed' \subseteq Packages, loaded' \subseteq Packages
  PROVE  FormInv'
<1>1. PICK step \in AutoSelect(url, known, FirstMount(url, store)) :
        Show(url, Opened(url, step)) /\ moved' = FALSE
  BY DEF OpenForm
<1> DEFINE after == Opened(url, step)
<1>2. /\ form' = [open |-> TRUE, url |-> url, now |-> after.shown]
      /\ storeForm' = after.stored /\ moved' = FALSE
  BY <1>1 DEF Show
<1>3. /\ after.shown.package \in Packages \cup {NoValue}
      /\ after.stored.package \in Packages \cup {NoValue}
      /\ after.shown.template = url.template
      /\ after.shown.choice = url.choice /\ after.shown.args = NoArgs
      /\ url.contract # NoValue => after.shown.contract = url.contract
  BY OpenedFacts
<1> HIDE DEF after
<1>4. /\ form'.now = after.shown /\ form'.url = url
  BY <1>2
<1>5. FormTypeOK'
  BY <1>2, <1>3, <1>4 DEF FormTypeOK
<1>6. url = NoUrl => Fitting'
  BY <1>3, <1>4, NoUrlFacts DEF Fitting, Offered
<1>7. url # NoUrl => Linked'
  <2>1. ASSUME url # NoUrl
        PROVE  /\ url.choice \in Catalog[url.package][url.template] \cup {NoValue}
               /\ url.contract \in {NoValue, <<url.package, url.template>>}
    BY <2>1, LinkFacts
  <2>2. QED
    BY <1>3, <1>4, <2>1 DEF Linked
<1>8. QED
  BY <1>4, <1>5, <1>6, <1>7 DEF FormInv

LEMMA LoadPageStep ==
  ASSUME FormInv, NEW url \in {NoUrl} \cup FormLinks, LoadPage(url)
  PROVE  FormInv'
<1>1. /\ link' = url /\ OpenForm(url, EmptyForm, {}) /\ listed' = {} /\ loaded' = {}
  BY DEF LoadPage
<1>2. EmptyForm.package = NoValue /\ {} \in SUBSET Packages
  BY DEF EmptyForm, Fields
<1>3. QED
  BY <1>1, <1>2, OpenFormStep

LEMMA LeaveFormStep ==
  ASSUME FormInv, LeaveForm
  PROVE  FormInv'
<1>1. /\ form' = Closed /\ UNCHANGED <<link, storeForm, listed, loaded, moved>>
      /\ Closed.open = FALSE /\ Closed.url = NoUrl /\ Closed.now.package = NoValue
  BY DEF LeaveForm, Closed, EmptyForm, Fields
<1>2. QED
  BY <1>1 DEF FormInv, FormTypeOK

LEMMA ReturnToFormStep ==
  ASSUME FormInv, ReturnToForm
  PROVE  FormInv'
<1>1. PICK url \in {NoUrl, link} : OpenForm(url, storeForm, listed)
  BY DEF ReturnToForm
<1>2. QED
  BY <1>1, OpenFormStep DEF ReturnToForm, FormInv, FormTypeOK

LEMMA FollowLinkStep ==
  ASSUME FormInv, NEW url \in ExplorerLinks, FollowLink(url)
  PROVE  FormInv'
<1>1. url \in FormLinks /\ link' = url /\ OpenForm(url, storeForm, listed)
      /\ UNCHANGED <<listed, loaded>>
  BY DEF FollowLink, FormLinks
<1>2. QED
  BY <1>1, OpenFormStep DEF FormInv, FormTypeOK

LEMMA PackagesListedStep ==
  ASSUME FormInv, PackagesListed
  PROVE  FormInv'
<1>1. listed' \in SUBSET Packages /\ UNCHANGED <<link, loaded>>
  BY DEF PackagesListed
<1>2. CASE ~form.open
  <2>1. UNCHANGED <<form, storeForm, moved>>
    BY <1>2 DEF PackagesListed
  <2>2. QED
    BY <1>1, <1>2, <2>1 DEF FormInv, FormTypeOK
<1>3. CASE form.open
  <2>1. PICK auto \in AutoSelect(form.url, listed', NowStep) :
          /\ Show(form.url, AfterPackage(form.url, form.now, auto))
          /\ moved' = (moved \/ form.now.package \notin {NoValue, auto.shown.package})
    BY <1>3 DEF PackagesListed
  <2> DEFINE url == form.url
             after == AfterPackage(url, form.now, auto)
  <2>2. /\ form' = [open |-> TRUE, url |-> url, now |-> after.shown]
        /\ storeForm' = after.stored
    BY <2>1 DEF Show
  <2>3. NowStep.shown = form.now /\ NowStep.stored = storeForm
    BY DEF NowStep
  <2>4. \/ auto = NowStep
        \/ url # NoUrl /\ \E p \in Packages : auto = Set(NowStep, [package |-> p])
    <3> DEFINE known == listed'
    <3>1. known \in SUBSET Packages /\ auto \in AutoSelect(form.url, known, NowStep)
      BY <1>1, <2>1
    <3> HIDE DEF known
    <3>2. QED
      BY <3>1, AutoSelectFacts
  <2>5. CASE auto = NowStep
    <3>1. auto.shown = form.now
      BY <2>3, <2>5
    <3>2. after = auto
      BY <3>1, AfterPackageFacts
    <3> HIDE DEF after
    <3>3. /\ form'.now = form.now /\ form'.url = form.url /\ form'.open
          /\ storeForm' = storeForm /\ moved' = moved
      BY <2>1, <2>2, <2>3, <2>5, <3>1, <3>2, <1>3 DEF FormInv, FormTypeOK
    <3>4. QED
      BY <1>1, <1>3, <3>3 DEF FormInv, FormTypeOK, Fitting, Linked, Offered, Context
  <2>6. ASSUME url # NoUrl, NEW p \in Packages, auto = Set(NowStep, [package |-> p])
        PROVE  FormInv'
    <3>1. /\ auto.shown.package = p /\ auto.stored.package = p
          /\ auto.shown.template = NowStep.shown.template
          /\ auto.shown.choice = NowStep.shown.choice
          /\ auto.shown.args = NowStep.shown.args
          /\ auto.shown.contract = NowStep.shown.contract
      BY <2>6, SetPackage
    <3>2. url \in {NoUrl} \cup FormLinks
      BY DEF FormInv, FormTypeOK
    <3>3. url.template # NoValue
      BY <2>6, <3>2, UrlFacts
    <3>4. after = auto
      BY <2>3, <3>1, <3>3, AfterPackageFacts
    <3> HIDE DEF after, url
    <3>5. /\ form'.now.package = p /\ form'.now.template = form.now.template
          /\ form'.now.choice = form.now.choice /\ form'.now.args = form.now.args
          /\ form'.now.contract = form.now.contract
          /\ storeForm'.package = p /\ form'.url = url
      BY <2>2, <2>3, <3>1, <3>4
    <3>6. FormTypeOK'
      <4>1. url \in {NoUrl, link'} /\ moved' \in BOOLEAN
        BY <1>1, <2>1 DEF FormInv, FormTypeOK, url
      <4>2. link' \in {NoUrl} \cup FormLinks /\ loaded' \subseteq Packages
        BY <1>1 DEF FormInv, FormTypeOK
      <4>3. QED
        BY <1>1, <3>5, <4>1, <4>2 DEF FormTypeOK
    <3>7. ~moved' => Linked'
      <4>1. SUFFICES ASSUME ~moved' PROVE Linked'
        OBVIOUS
      <4>2. ~moved /\ form.now.package \in {NoValue, p}
        BY <2>1, <3>1, <4>1
      <4>3. Linked
        BY <1>3, <2>6, <4>2 DEF FormInv, url
      <4>4. form.now.package = NoValue => form.now.args = NoArgs \/ p # url.package
        BY <4>3 DEF Linked, url
      <4>5. p # NoValue
        BY CatalogOK
      <4>6. CASE p = url.package
        <5>1. form.now.package \in {NoValue, url.package}
          BY <4>2, <4>6
        <5>2. /\ form.now.template = url.template
              /\ form.now.choice \in Catalog[url.package][url.template] \cup {NoValue}
              /\ form.now.args \in {NoArgs, Context}
              /\ form.now.package = NoValue => form.now.args = NoArgs
              /\ url.contract # NoValue =>
                   form.now.contract \in {NoValue, AnyContract, <<url.package, url.template>>}
          BY <4>3, <5>1 DEF Linked, url
        <5>3. form.now.args \in {NoArgs, Context'}
          BY <3>5, <4>2, <5>2 DEF Context
        <5>4. QED
          BY <3>5, <4>5, <4>6, <5>2, <5>3 DEF Linked
      <4>7. CASE p # url.package
        <5>1. form.now.template = url.template
          BY <4>3 DEF Linked, url
        <5>2. QED
          BY <3>5, <4>5, <4>7, <5>1 DEF Linked
      <4>8. QED
        BY <4>6, <4>7
    <3>8. QED
      BY <2>6, <3>5, <3>6, <3>7 DEF FormInv
  <2>7. QED
    BY <2>4, <2>5, <2>6
<1>4. QED
  BY <1>2, <1>3

LEMMA DetailLoadedStep ==
  ASSUME FormInv, DetailLoaded
  PROVE  FormInv'
<1>1. /\ form.now.package \in Packages
      /\ loaded' = loaded \cup {form.now.package}
      /\ UNCHANGED <<link, form, storeForm, listed, moved>>
  BY DEF DetailLoaded, FormInv, FormTypeOK
<1>2. QED
  BY <1>1 DEF FormInv, FormTypeOK, Fitting, Linked, Offered, Context

LEMMA SelectPackageStep ==
  ASSUME FormInv, NEW p \in Packages, SelectPackage(p)
  PROVE  FormInv'
<1> DEFINE set == Set(NowStep, [package |-> p])
           after == AfterPackage(form.url, form.now, set)
<1>1. /\ form' = [open |-> TRUE, url |-> form.url, now |-> after.shown]
      /\ storeForm' = after.stored /\ UNCHANGED <<link, listed, loaded>>
      /\ moved' = TRUE /\ p # form.now.package
  BY DEF SelectPackage, Show
<1>2. set.shown.package = p /\ set.stored.package = p
  BY SetPackage
<1> HIDE DEF set
<1>3. /\ after.shown.package = p /\ after.stored.package = p
      /\ form.url.template = NoValue /\ form.url.choice = NoValue =>
           after.shown.choice = NoValue /\ after.shown.args = NoArgs
  BY <1>1, <1>2, AfterPackageFacts
<1> HIDE DEF after
<1>4. /\ form'.now = after.shown /\ form'.url = form.url
      /\ storeForm'.package = p
  BY <1>1, <1>3
<1>5. FormTypeOK'
  BY <1>1, <1>3, <1>4 DEF FormInv, FormTypeOK
<1>6. form.url = NoUrl => Fitting'
  BY <1>3, <1>4, NoUrlFacts DEF Fitting, Offered
<1>7. QED
  BY <1>1, <1>4, <1>5, <1>6 DEF FormInv

LEMMA SelectTemplateStep ==
  ASSUME FormInv, NEW t, SelectTemplate(t)
  PROVE  FormInv'
<1> DEFINE set == Set(NowStep, [template |-> t])
           after == AfterTemplate(form.url, form.now, set)
<1>1. /\ form' = [open |-> TRUE, url |-> form.url, now |-> after.shown]
      /\ storeForm' = after.stored /\ UNCHANGED <<link, listed, loaded>>
      /\ moved' = TRUE /\ t # form.now.template
  BY DEF SelectTemplate, Show
<1>2. /\ set.shown.package = NowStep.shown.package
      /\ set.stored.package = NowStep.stored.package /\ set.shown.template = t
  BY SetTemplate
<1>3. NowStep.shown = form.now /\ NowStep.stored = storeForm
  BY DEF NowStep
<1> HIDE DEF set
<1>4. /\ after.shown.package = form.now.package
      /\ after.stored.package = storeForm.package
      /\ form.url.choice = NoValue =>
           after.shown.choice = NoValue /\ after.shown.args = NoArgs
  <2>1. /\ after.shown.package = set.shown.package
        /\ after.stored.package = set.stored.package
        /\ form.url.choice = NoValue /\ set.shown.template # form.now.template =>
             after.shown.choice = NoValue /\ after.shown.args = NoArgs
    BY AfterTemplateFacts
  <2>2. QED
    BY <1>1, <1>2, <1>3, <2>1
<1> HIDE DEF after
<1>5. /\ form'.now = after.shown /\ form'.url = form.url
      /\ storeForm'.package = storeForm.package
  BY <1>1, <1>4
<1>6. FormTypeOK'
  BY <1>1, <1>4, <1>5 DEF FormInv, FormTypeOK
<1>7. form.url = NoUrl => Fitting'
  BY <1>4, <1>5, NoUrlFacts DEF Fitting, Offered
<1>8. QED
  BY <1>1, <1>5, <1>6, <1>7 DEF FormInv

\* A step of an open form that keeps its package and its template.
LEMMA SameTemplate ==
  ASSUME FormInv, form.open, NEW fields,
         UNCHANGED <<link, listed, loaded, moved>>,
         form' = [open |-> TRUE, url |-> form.url, now |-> fields],
         storeForm'.package = storeForm.package,
         fields.package = form.now.package, fields.template = form.now.template,
         \/ TemplateKnown /\ fields.choice \in Offered
         \/ fields.choice = form.now.choice,
         \/ fields.args \in {NoArgs, form.now.args} /\ fields.choice = form.now.choice
         \/ fields.args = NoArgs
         \/ /\ TemplateKnown /\ form.now.args \in {NoArgs, Context}
            /\ fields.args = <<fields.package, fields.template, fields.choice>>
         \/ TemplateKnown /\ form.now.args \notin {NoArgs, Context},
         \/ fields.contract \in {NoValue, AnyContract, form.now.contract}
         \/ TemplateKnown /\ fields.contract = <<fields.package, fields.template>>
  PROVE  FormInv'
<1>1. FormTypeOK /\ (TemplateKnown => form.now.package \in Packages \ {NoValue})
  BY CatalogOK DEF TemplateKnown, FormInv, FormTypeOK
<1>2. form'.now = fields /\ form'.url = form.url /\ form'.open
  OBVIOUS
<1>3. FormTypeOK'
  BY <1>1, <1>2 DEF FormTypeOK
<1>4. ASSUME form.url = NoUrl PROVE Fitting'
  <2>1. SUFFICES ASSUME form.now.package \in Packages,
                        form.now.template \in DOMAIN Catalog[form.now.package]
                 PROVE  /\ fields.choice \in Offered
                        /\ fields.args \in {NoArgs, <<fields.package, fields.template, fields.choice>>}
    BY <1>2 DEF Fitting, Offered, Context
  <2>2. form.now.choice \in Offered /\ form.now.args \in {NoArgs, Context}
    BY <1>4, <2>1 DEF FormInv, Fitting
  <2>3. QED
    BY <2>2 DEF Context
<1>5. ASSUME form.url # NoUrl, ~moved PROVE Linked'
  <2> DEFINE url == form.url
  <2>1. Linked
    BY <1>5 DEF FormInv
  <2>2. form.now.template = url.template
    BY <2>1 DEF Linked
  <2>3. SUFFICES ASSUME form.now.package \in {NoValue, url.package}
                 PROVE  /\ fields.choice \in Catalog[url.package][url.template] \cup {NoValue}
                        /\ fields.args \in {NoArgs, <<fields.package, fields.template, fields.choice>>}
                        /\ form.now.package = NoValue => fields.args = NoArgs
                        /\ url.contract # NoValue =>
                             fields.contract \in {NoValue, AnyContract, <<url.package, url.template>>}
    BY <1>2, <2>2 DEF Linked, Context
  <2>4. /\ form.now.choice \in Catalog[url.package][url.template] \cup {NoValue}
        /\ form.now.args \in {NoArgs, Context}
        /\ form.now.package = NoValue => form.now.args = NoArgs
        /\ url.contract # NoValue =>
             form.now.contract \in {NoValue, AnyContract, <<url.package, url.template>>}
    BY <2>1, <2>3 DEF Linked
  <2>5. TemplateKnown => form.now.package = url.package /\ form.now.package # NoValue
    BY <1>1, <2>3
  <2> HIDE DEF url
  <2>6. fields.choice \in Catalog[url.package][url.template] \cup {NoValue}
    BY <2>2, <2>4, <2>5 DEF Offered
  <2>7. /\ fields.args \in {NoArgs, <<fields.package, fields.template, fields.choice>>}
        /\ form.now.package = NoValue => fields.args = NoArgs
    BY <2>4, <2>5 DEF Context
  <2>8. url.contract # NoValue =>
          fields.contract \in {NoValue, AnyContract, <<url.package, url.template>>}
    BY <2>2, <2>4, <2>5
  <2>9. QED
    BY <2>6, <2>7, <2>8
<1>6. QED
  BY <1>2, <1>3, <1>4, <1>5 DEF FormInv

LEMMA SelectChoiceStep ==
  ASSUME FormInv, NEW c, SelectChoice(c)
  PROVE  FormInv'
<1> DEFINE set == Set(NowStep, [choice |-> c])
           after == ChoiceEffect(set)
<1>1. /\ form' = [open |-> TRUE, url |-> form.url, now |-> after.shown]
      /\ storeForm' = after.stored /\ UNCHANGED <<link, listed, loaded, moved>>
      /\ TemplateKnown /\ c \in Offered /\ form.open
  BY DEF SelectChoice, Show, TemplateKnown
<1>2. /\ set.shown.package = NowStep.shown.package
      /\ set.stored.package = NowStep.stored.package
      /\ set.shown.template = NowStep.shown.template /\ set.shown.choice = c
      /\ set.shown.contract = NowStep.shown.contract
  BY SetChoice
<1>3. NowStep.shown = form.now /\ NowStep.stored = storeForm
  BY DEF NowStep
<1> HIDE DEF set
<1>4. /\ after.shown.package = set.shown.package
      /\ after.stored.package = set.stored.package
      /\ after.shown.template = set.shown.template
      /\ after.shown.contract = set.shown.contract
      /\ after.shown.choice = set.shown.choice /\ after.shown.args = NoArgs
  BY ChoiceEffectFacts
<1> HIDE DEF after
<1>5. QED
  BY <1>1, <1>2, <1>3, <1>4, SameTemplate

LEMMA EnterContractStep ==
  ASSUME FormInv, EnterContract
  PROVE  FormInv'
<1>1. PICK c \in {NoValue, IF TemplateKnown THEN <<form.now.package, form.now.template>>
                                            ELSE AnyContract} :
        Show(form.url, Set(NowStep, [contract |-> c]))
  BY DEF EnterContract
<1> DEFINE after == Set(NowStep, [contract |-> c])
<1>2. /\ form' = [open |-> TRUE, url |-> form.url, now |-> after.shown]
      /\ storeForm' = after.stored /\ UNCHANGED <<link, listed, loaded, moved>>
      /\ form.open
  BY <1>1 DEF EnterContract, Show
<1>3. NowStep.shown = form.now /\ NowStep.stored = storeForm
  BY DEF NowStep
<1>4. /\ after.shown.package = NowStep.shown.package
      /\ after.stored.package = NowStep.stored.package
      /\ after.shown.template = NowStep.shown.template
      /\ after.shown.choice = NowStep.shown.choice
      /\ after.shown.args = NowStep.shown.args /\ after.shown.contract = c
  BY SetContract
<1> HIDE DEF after
<1>5. QED
  BY <1>1, <1>2, <1>3, <1>4, SameTemplate

LEMMA TypeArgumentStep ==
  ASSUME FormInv, TypeArgument
  PROVE  FormInv'
<1> DEFINE args == IF form.now.args \in {NoArgs, Context} THEN Context ELSE Mixed
           after == Set(NowStep, [args |-> args])
<1>1. /\ form' = [open |-> TRUE, url |-> form.url, now |-> after.shown]
      /\ storeForm' = after.stored /\ UNCHANGED <<link, listed, loaded, moved>>
      /\ TemplateKnown /\ form.open
  BY DEF TypeArgument, Show, TemplateKnown
<1>2. NowStep.shown = form.now /\ NowStep.stored = storeForm
  BY DEF NowStep
<1>3. form.now.args \in {NoArgs, Context} =>
        args = <<form.now.package, form.now.template, form.now.choice>>
  BY DEF Context
<1> HIDE DEF args
<1>4. /\ after.shown.package = NowStep.shown.package
      /\ after.stored.package = NowStep.stored.package
      /\ after.shown.template = NowStep.shown.template
      /\ after.shown.choice = NowStep.shown.choice /\ after.shown.args = args
      /\ after.shown.contract = NowStep.shown.contract
  BY SetArgs
<1> HIDE DEF after
<1>5. QED
  BY <1>1, <1>2, <1>3, <1>4, SameTemplate

LEMMA FormAlways == FormSpec => []FormInv
<1>1. FormInv /\ [FormNext]_formVars => FormInv'
  <2> SUFFICES ASSUME FormInv, [FormNext]_formVars PROVE FormInv'
    OBVIOUS
  <2>1. ASSUME NEW url \in {NoUrl} \cup FormLinks, LoadPage(url) PROVE FormInv'
    BY <2>1, LoadPageStep
  <2>2. CASE LeaveForm
    BY <2>2, LeaveFormStep
  <2>3. CASE ReturnToForm
    BY <2>3, ReturnToFormStep
  <2>4. CASE PackagesListed
    BY <2>4, PackagesListedStep
  <2>5. CASE DetailLoaded
    BY <2>5, DetailLoadedStep
  <2>6. CASE TypeArgument
    BY <2>6, TypeArgumentStep
  <2>7. ASSUME NEW p \in Packages, SelectPackage(p) PROVE FormInv'
    BY <2>7, SelectPackageStep
  <2>8. ASSUME NEW t, SelectTemplate(t) PROVE FormInv'
    BY <2>8, SelectTemplateStep
  <2>9. ASSUME NEW c, SelectChoice(c) PROVE FormInv'
    BY <2>9, SelectChoiceStep
  <2>10. CASE EnterContract
    BY <2>10, EnterContractStep
  <2>11. ASSUME NEW url \in ExplorerLinks, FollowLink(url) PROVE FormInv'
    BY <2>11, FollowLinkStep
  <2>12. CASE UNCHANGED formVars
    BY <2>12 DEF formVars, FormInv, FormTypeOK, Fitting, Linked, Offered, Context
  <2>13. QED
    BY <2>1, <2>2, <2>3, <2>4, <2>5, <2>6, <2>7, <2>8, <2>9, <2>10, <2>11, <2>12 DEF FormNext
<1>2. QED
  BY <1>1, FormInitially, PTL DEF FormSpec

\* Whatever catalog the participant has, in whatever order its parts arrive,
\* fields are set and pages are left, the choice and the arguments that the form
\* sends are of the template that it shows, and after a link from a contract so
\* is the contract.  Not so in a form that was opened with values from a URL once
\* its package is not the URL's or a selected package or template was replaced:
\* there the effects that reset what hangs on them are switched off.
THEOREM FormTheorem == FormSpec => [](FormTypeOK /\ FormCoherent)
<1>1. FormInv => FormTypeOK /\ FormCoherent
  <2> SUFFICES ASSUME FormInv, TemplateKnown, Undisturbed
               PROVE  /\ form.now.choice \in Offered
                      /\ form.now.args \in {NoArgs, Context}
                      /\ form.url.contract # NoValue =>
                           form.now.contract \in {NoValue, AnyContract,
                                                  <<form.now.package, form.now.template>>}
    BY DEF FormInv, FormCoherent
  <2>1. /\ form.open /\ form.now.package \in Packages
        /\ form.now.template \in DOMAIN Catalog[form.now.package]
    BY DEF TemplateKnown, FormInv, FormTypeOK
  <2>2. CASE form.url = NoUrl
    BY <2>1, <2>2, NoUrlFacts DEF FormInv, Fitting
  <2>3. CASE form.url # NoUrl /\ ~moved /\ form.now.package = form.url.package
    BY <2>1, <2>3 DEF FormInv, Linked, Offered
  <2>4. QED
    BY <2>2, <2>3 DEF Undisturbed
<1>2. QED
  BY <1>1, FormAlways, PTL

-----------------------------------------------------------------------------
(***************************************************************************)
(* The sandbox page.                                                       *)
(***************************************************************************)

Rows == SandboxRows(SandboxIds)

LEMMA IdsOfRows ==
  ASSUME NEW ids, NEW s \in Seq(SandboxRows(ids))
  PROVE  /\ IdsOf(s) \subseteq ids
         /\ IdsOf(s) = {} <=> s = <<>>
         /\ s # <<>> => s[1].id \in IdsOf(s)
<1>1. Len(s) \in Nat /\ DOMAIN s = 1..Len(s)
  BY LenProperties
<1>2. \A i \in 1..Len(s) : s[i] \in SandboxRows(ids)
  BY ElementOfSeq
<1>3. s # <<>> => 1 \in 1..Len(s)
  BY <1>1, EmptySeq
<1>4. \A i \in 1..Len(s) : s[i].id \in ids
  BY <1>2 DEF SandboxRows
<1>5. s = <<>> => DOMAIN s = {}
  BY <1>1
<1>6. QED
  BY <1>1, <1>3, <1>4, <1>5 DEF IdsOf

LEMMA RunningListed ==
  ASSUME NEW s, NEW id, StatusIn(s, id) = "running"
  PROVE  id \in IdsOf(s)
BY DEF StatusIn, IdsOf

LEMMA WithoutType ==
  ASSUME NEW ids, NEW s \in Seq(SandboxRows(ids)), NEW id \in IdsOf(s)
  PROVE  Without(s, id) \in Seq(SandboxRows(ids))
<1> DEFINE i == CHOOSE n \in DOMAIN s : s[n].id = id
<1>1. i \in DOMAIN s
  BY DEF IdsOf
<1> HIDE DEF i
<1>2. Len(s) \in Nat /\ i \in 1..Len(s)
  BY <1>1, LenProperties
<1> DEFINE before == SubSeq(s, 1, i - 1)
           behind == SubSeq(s, i + 1, Len(s))
<1>3. before \in Seq(SandboxRows(ids)) /\ behind \in Seq(SandboxRows(ids))
  BY <1>2, SubSeqProperties
<1>4. Without(s, id) = before \o behind
  BY DEF Without, i
<1> HIDE DEF before, behind
<1>5. QED
  BY <1>3, <1>4, ConcatProperties

LEMMA WithStatusType ==
  ASSUME NEW ids, NEW s \in Seq(SandboxRows(ids)), NEW id \in IdsOf(s),
         NEW status \in {"provisioning", "running", "error"}
  PROVE  WithStatus(s, id, status) \in Seq(SandboxRows(ids))
<1>1. Len(s) \in Nat /\ DOMAIN s = 1..Len(s)
  BY LenProperties
<1>2. \A i \in 1..Len(s) : s[i] \in SandboxRows(ids)
  BY ElementOfSeq
<1>3. [id |-> id, status |-> status] \in SandboxRows(ids)
  BY IdsOfRows DEF SandboxRows
<1>4. WithStatus(s, id, status) \in [1..Len(s) -> SandboxRows(ids)]
  BY <1>1, <1>2, <1>3 DEF WithStatus
<1>5. QED
  BY <1>1, <1>4, SeqDef

(***************************************************************************)
(* Queries and the view.                                                   *)
(***************************************************************************)

Listed == [data : Listings, flying : Listings, failed : BOOLEAN]

LEMMA FetchFacts ==
  ASSUME NEW q \in Listed, NEW answer \in Seq(Rows)
  PROVE  /\ FetchStarted(q, answer) \in Listed /\ FetchStarted(q, answer).data = q.data
         /\ FetchRestarted(q, answer) \in Listed /\ FetchRestarted(q, answer).data = q.data
         /\ FetchFailed(q) \in Listed /\ FetchFailed(q).data = q.data
         /\ FetchSucceeded(q) \in Listed /\ NoEntry \in Listed /\ NoEntry.data = Missing
<1>1. <<answer>> \in Listings /\ <<>> \in Listings
  BY EmptySeq DEF Listings, Rows
<1>2. \A r \in Listed : /\ FetchStarted(r, answer) \in Listed
                        /\ FetchStarted(r, answer).data = r.data
  BY <1>1 DEF FetchStarted, IsFetching, Missing, Listed
<1>3. [q EXCEPT !.flying = Missing] \in Listed /\ [q EXCEPT !.flying = Missing].data = q.data
  BY <1>1 DEF Listed, Missing
<1>4. /\ FetchRestarted(q, answer) \in Listed /\ FetchRestarted(q, answer).data = q.data
  BY <1>2, <1>3 DEF FetchRestarted
<1>5. QED
  BY <1>1, <1>2, <1>4 DEF FetchFailed, FetchSucceeded, NoEntry, Missing, Listed

LEMMA ListType ==
  ASSUME NEW v \in View
  PROVE  SandboxList(v) \in Seq(Rows)
<1>1. v.list.data \in Listings
  BY DEF View
<1>2. CASE v.list.data = Missing
  BY <1>2, EmptySeq DEF SandboxList
<1>3. CASE v.list.data # Missing
  <2>1. Len(v.list.data) \in Nat /\ v.list.data # <<>>
    BY <1>1, <1>3, LenProperties DEF Listings, Missing
  <2> DEFINE data == v.list.data
  <2>2. data \in Seq(Seq(Rows)) /\ data # <<>>
    BY <1>1, <2>1 DEF Listings, Rows
  <2> HIDE DEF data
  <2>3. data[1] \in Seq(Rows)
    BY <2>2, EmptySeq, LenProperties, ElementOfSeq
  <2>4. QED
    BY <1>3, <2>3 DEF SandboxList, Value, data
<1>4. QED
  BY <1>2, <1>3

\* What SandboxSelected says of a view and the loops that answer to it.
Selects(v) ==
  IF SandboxList(v) = <<>> THEN v.selected = NoSandbox
  ELSE v.selected \in IdsOf(SandboxList(v))

Awaits(v) == v.pending \in IdsOf(SandboxList(v)) => v.early

\* All that handlers and effects leave as it is.
SameBut(v, w) ==
  /\ w.mounted = v.mounted /\ w.pending = v.pending /\ w.early = v.early
  /\ w.connecting = v.connecting /\ w.error = v.error

LEMMA AutoSelectedFacts ==
  ASSUME NEW v \in View, NEW c, c.sandbox \in Named
  PROVE  LET w == AutoSelected(v, c)
         IN /\ w \in View /\ SameBut(v, w) /\ w.list = v.list
            /\ SandboxList(w) = SandboxList(v) /\ (w.mounted => Selects(w))
<1> DEFINE ids == IdsOf(SandboxList(v))
           pick == IF ids = {} \/ ~v.mounted THEN NoSandbox
                   ELSE IF v.selected \in ids THEN v.selected
                   ELSE IF c.sandbox \in ids THEN c.sandbox
                   ELSE SandboxList(v)[1].id
           w == AutoSelected(v, c)
<1>1. w = [v EXCEPT !.selected = pick]
  BY DEF AutoSelected
<1>2. /\ ids \subseteq SandboxIds /\ (ids = {} <=> SandboxList(v) = <<>>)
      /\ SandboxList(v) # <<>> => SandboxList(v)[1].id \in ids
  BY ListType, IdsOfRows DEF Rows
<1> HIDE DEF ids
<1>3. /\ ids = {} \/ ~v.mounted => pick = NoSandbox
      /\ ids # {} /\ v.mounted => pick \in ids
  BY <1>2
<1> HIDE DEF pick
<1>4. pick \in Named
  BY <1>2, <1>3 DEF Named, View
<1>5. w \in View /\ SameBut(v, w) /\ w.list = v.list /\ w.selected = pick
  BY <1>1, <1>4 DEF View, SameBut
<1> HIDE DEF w
<1>6. SandboxList(w) = SandboxList(v)
  BY <1>5 DEF SandboxList
<1>7. w.mounted => Selects(w)
  BY <1>2, <1>3, <1>5, <1>6 DEF Selects, SameBut, ids
<1>8. QED
  BY <1>5, <1>6, <1>7 DEF w

LEMMA InvalidateFacts ==
  ASSUME NEW v \in View, NEW answer \in Seq(Rows)
  PROVE  LET w == Invalidate(v, answer)
         IN /\ w \in View /\ SameBut(v, w) /\ w.selected = v.selected
            /\ SandboxList(w) = SandboxList(v)
<1>1. v.list \in Listed
  BY DEF View, Listed
<1> DEFINE list == FetchRestarted(v.list, answer)
<1>2. list \in Listed /\ list.data = v.list.data
  BY <1>1, FetchFacts
<1>3. Invalidate(v, answer) = IF v.mounted THEN [v EXCEPT !.list = list] ELSE v
  BY DEF Invalidate
<1> HIDE DEF list
<1>4. QED
  BY <1>2, <1>3 DEF View, Listed, SameBut, SandboxList

LEMMA QueriesClearedFacts ==
  ASSUME NEW v \in View, NEW answer \in Seq(Rows)
  PROVE  LET w == QueriesCleared(v, answer)
         IN /\ w \in View /\ SameBut(v, w) /\ w.selected = NoSandbox
            /\ SandboxList(w) = <<>>
<1> DEFINE list == IF v.mounted THEN FetchStarted(NoEntry, answer) ELSE NoEntry
<1>1. NoEntry \in Listed /\ NoEntry.data = Missing
  BY FetchFacts DEF View, Listed
<1>2. list \in Listed /\ list.data = Missing
  BY <1>1, FetchFacts
<1>3. QueriesCleared(v, answer) = [v EXCEPT !.list = list, !.selected = NoSandbox]
  BY DEF QueriesCleared
<1> HIDE DEF list
<1>4. QED
  BY <1>2, <1>3 DEF View, Listed, SameBut, SandboxList, Named

(***************************************************************************)
(* The invariant by parts.                                                 *)
(***************************************************************************)

Asks == [dialog : Named, target : Named, failed : BOOLEAN,
         connected : BOOLEAN, selected : BOOLEAN]

Loops == [id : SandboxIds, tries : 0..MaxTries, asked : BOOLEAN, here : BOOLEAN]

Calls == [target : Named, entered : BOOLEAN, done : BOOLEAN]

Connections == [sandbox : Named, status : {"disconnected", "connecting", "connected", "error"}]

LoopsKept == loops \subseteq Loops /\ \A l \in loops : l.asked \/ l.tries < MaxTries

GatewayKept == gate \in Seq(SandboxRows(used)) /\ used \subseteq SandboxIds

ViewOK(v) == v \in View /\ (v.mounted => Selects(v) /\ Awaits(v))

Answers(v, ls) == v.mounted /\ v.connecting => \E l \in ls : l.here

LEMMA PageParts ==
  ASSUME SandboxPageInv
  PROVE  /\ GatewayKept /\ conn \in Connections /\ ViewOK(view)
         /\ asks \in [{"delete", "reset"} -> Asks] /\ LoopsKept
         /\ calls \in [{"dar", "party"} -> Calls] /\ Answers(view, loops)
         /\ view \in View /\ gate \in Seq(Rows) /\ conn.sandbox \in Named
<1>1. used \subseteq SandboxIds /\ gate \in Seq(SandboxRows(used))
  BY DEF SandboxPageInv, SandboxPageTypeOK
<1>2. SandboxRows(used) \subseteq Rows
  BY <1>1 DEF SandboxRows, Rows
<1>3. gate \in Seq(Rows)
  BY <1>1, <1>2, SeqMonotonic
<1>4. view \in View /\ conn \in Connections /\ conn.sandbox \in Named
  BY DEF SandboxPageInv, SandboxPageTypeOK, Connections
<1>5. ViewOK(view) /\ Answers(view, loops)
  BY <1>4 DEF SandboxPageInv, SandboxSelected, ViewOK, Answers, Selects, Awaits
<1>6. QED
  BY <1>1, <1>3, <1>4, <1>5 DEF SandboxPageInv, SandboxPageTypeOK, GatewayKept, LoopsKept,
                               Loops, Calls, Asks

LEMMA PageInvariant ==
  ASSUME GatewayKept', conn' \in Connections, ViewOK(view'),
         asks' \in [{"delete", "reset"} -> Asks], LoopsKept',
         calls' \in [{"dar", "party"} -> Calls], Answers(view', loops')
  PROVE  SandboxPageInv'
<1>1. IdsOf(gate') \subseteq used'
  BY IdsOfRows DEF GatewayKept
<1>2. view' \in View
  BY DEF ViewOK
<1>3. {view'.mounted, view'.early, view'.connecting, view'.error} \subseteq BOOLEAN
  BY <1>2 DEF View
<1>4. {view'.selected, view'.pending} \subseteq Named
  BY <1>2 DEF View
<1>5. SandboxPageTypeOK'
  BY <1>1, <1>3, <1>4 DEF SandboxPageTypeOK, GatewayKept, LoopsKept, Loops, Calls, Asks,
                          Connections
<1>6. SandboxSelected'
  BY DEF SandboxSelected, ViewOK, Answers, Selects, Awaits
<1>7. QED
  BY <1>2, <1>5, <1>6 DEF SandboxPageInv, GatewayKept, LoopsKept

LEMMA AutoSelectedKeeps ==
  ASSUME NEW v \in View, NEW c, c.sandbox \in Named, v.mounted => Awaits(v)
  PROVE  LET w == AutoSelected(v, c)
         IN /\ ViewOK(w) /\ SameBut(v, w) /\ w \in View
            /\ SandboxList(w) = SandboxList(v)
<1> DEFINE w == AutoSelected(v, c)
<1>1. /\ w \in View /\ SameBut(v, w) /\ SandboxList(w) = SandboxList(v)
      /\ (w.mounted => Selects(w))
  BY AutoSelectedFacts
<1> HIDE DEF w
<1>2. w.mounted => Awaits(w)
  BY <1>1 DEF SameBut, Awaits
<1>3. QED
  BY <1>1, <1>2 DEF ViewOK, w

LEMMA InvalidateKeeps ==
  ASSUME NEW v, ViewOK(v), NEW answer \in Seq(Rows)
  PROVE  LET w == Invalidate(v, answer)
         IN ViewOK(w) /\ SameBut(v, w) /\ w \in View /\ SandboxList(w) = SandboxList(v)
<1> DEFINE w == Invalidate(v, answer)
<1>1. /\ w \in View /\ SameBut(v, w) /\ w.selected = v.selected
      /\ SandboxList(w) = SandboxList(v)
  BY InvalidateFacts DEF ViewOK
<1> HIDE DEF w
<1>2. w.mounted => Selects(w) /\ Awaits(w)
  BY <1>1 DEF SameBut, Awaits, Selects, ViewOK
<1>3. QED
  BY <1>1, <1>2 DEF ViewOK, w

LEMMA QueriesClearedKeeps ==
  ASSUME NEW v \in View, NEW answer \in Seq(Rows)
  PROVE  LET w == QueriesCleared(v, answer)
         IN ViewOK(w) /\ SameBut(v, w) /\ w \in View /\ SandboxList(w) = <<>>
<1> DEFINE w == QueriesCleared(v, answer)
<1>1. /\ w \in View /\ SameBut(v, w) /\ w.selected = NoSandbox /\ SandboxList(w) = <<>>
  BY QueriesClearedFacts
<1> HIDE DEF w
<1>2. IdsOf(<<>>) = {}
  BY EmptySeq DEF IdsOf
<1>3. Selects(w) /\ Awaits(w)
  BY <1>1, <1>2 DEF Awaits, Selects
<1>4. QED
  BY <1>1, <1>3 DEF ViewOK, w

\* A view that is shown as before has the loops it had.
LEMMA SameAnswers ==
  ASSUME NEW v, NEW w, NEW ls, NEW ms, SameBut(v, w), Answers(v, ls),
         (\E l \in ls : l.here) => \E l \in ms : l.here
  PROVE  Answers(w, ms)
BY DEF SameBut, Answers

(***************************************************************************)
(* The steps of the page.                                                  *)
(***************************************************************************)

LEMMA PageInitially ==
  ASSUME NEW opening \in BOOLEAN, SandboxPageInit(opening)
  PROVE  SandboxPageInv
<1>1. gate = <<>> \/ \E id \in SandboxIds : gate = <<[id |-> id, status |-> "running"]>>
  BY DEF SandboxPageInit
<1>2. gate \in Seq(SandboxRows(used)) /\ used \subseteq SandboxIds /\ used = IdsOf(gate)
  <2>1. used = IdsOf(gate)
    BY DEF SandboxPageInit
  <2>2. CASE gate = <<>>
    BY <2>1, <2>2, EmptySeq DEF IdsOf
  <2>3. ASSUME NEW id \in SandboxIds, gate = <<[id |-> id, status |-> "running"]>>
        PROVE  gate \in Seq(SandboxRows(used)) /\ used \subseteq SandboxIds
    <3> DEFINE row == [id |-> id, status |-> "running"]
    <3>1. gate = <<row>> /\ row.id = id
      BY <2>3
    <3>2. row \in SandboxRows({id})
      BY DEF SandboxRows
    <3> HIDE DEF row
    <3>3. IdsOf(gate) = {id}
      BY <3>1 DEF IdsOf
    <3>4. gate \in Seq(SandboxRows({id}))
      BY <3>1, <3>2
    <3>5. QED
      BY <2>1, <3>3, <3>4
  <2>4. QED
    BY <1>1, <2>1, <2>2, <2>3
<1>3. gate \in Seq(Rows)
  <2>1. SandboxRows(used) \subseteq Rows
    BY <1>2 DEF SandboxRows, Rows
  <2>2. QED
    BY <1>2, <2>1, SeqMonotonic
<1> DEFINE list == FetchStarted(NoEntry, gate)
<1>4. NoEntry \in Listed /\ NoEntry.data = Missing
  BY <1>3, EmptySeq DEF NoEntry, Listed, Listings, Missing
<1>5. list \in Listed /\ list.data = Missing
  BY <1>3, <1>4, FetchFacts
<1>6. view = [NewView EXCEPT !.list = list]
  BY DEF SandboxPageInit
<1> HIDE DEF list
<1>7. /\ view \in View /\ SandboxList(view) = <<>> /\ view.selected = NoSandbox
      /\ view.connecting = FALSE
  BY <1>5, <1>6 DEF NewView, View, Listed, Named, SandboxList
<1>8. IdsOf(<<>>) = {}
  BY EmptySeq DEF IdsOf
<1>9. SandboxSelected
  BY <1>7, <1>8 DEF SandboxSelected
<1>10. SandboxPageTypeOK
  <2>1. conn \in Connections /\ loops = {}
    BY DEF SandboxPageInit, Disconnected, Connections, Named
  <2>2. asks \in [{"delete", "reset"} -> Asks] /\ calls \in [{"dar", "party"} -> Calls]
    BY DEF SandboxPageInit, NoAsks, NoCalls, NoAsk, NoCall, Asks, Calls, Named
  <2>3. {view.mounted, view.early, view.connecting, view.error} \subseteq BOOLEAN
    BY <1>7 DEF View
  <2>4. {view.selected, view.pending} \subseteq Named
    BY <1>7 DEF View
  <2>5. QED
    BY <1>2, <2>1, <2>2, <2>3, <2>4 DEF SandboxPageTypeOK, Asks, Calls, Connections
<1>11. QED
  BY <1>2, <1>7, <1>9, <1>10 DEF SandboxPageInv, SandboxPageInit

LEMMA GatewayChangesStep ==
  ASSUME SandboxPageInv, GatewayChanges
  PROVE  SandboxPageInv'
<1>1. /\ GatewayKept /\ conn \in Connections /\ ViewOK(view)
      /\ asks \in [{"delete", "reset"} -> Asks] /\ LoopsKept
      /\ calls \in [{"dar", "party"} -> Calls] /\ Answers(view, loops)
  BY PageParts
<1>2. UNCHANGED <<conn, view, asks, loops, calls>>
  BY DEF GatewayChanges
<1>3. GatewayKept'
  <2>1. ASSUME NEW id \in SandboxIds \ used,
               gate' = Append(gate, [id |-> id, status |-> "provisioning"]),
               used' = used \cup {id}
        PROVE  GatewayKept'
    <3> DEFINE row == [id |-> id, status |-> "provisioning"]
    <3>1. row \in SandboxRows(used') /\ SandboxRows(used) \subseteq SandboxRows(used')
      BY <2>1 DEF SandboxRows
    <3>2. gate \in Seq(SandboxRows(used'))
      BY <1>1, <3>1, SeqMonotonic DEF GatewayKept
    <3>3. gate' = Append(gate, row)
      BY <2>1
    <3> HIDE DEF row
    <3>4. gate' \in Seq(SandboxRows(used'))
      BY <3>1, <3>2, <3>3
    <3>5. QED
      BY <1>1, <2>1, <3>4 DEF GatewayKept
  <2>2. ASSUME NEW id \in IdsOf(gate),
               gate' \in {WithStatus(gate, id, "running"), WithStatus(gate, id, "error"),
                          Without(gate, id)}, UNCHANGED used
        PROVE  GatewayKept'
    BY <1>1, <2>2, WithStatusType, WithoutType DEF GatewayKept
  <2>3. QED
    BY <2>1, <2>2 DEF GatewayChanges
<1>4. QED
  BY <1>1, <1>2, <1>3, PageInvariant DEF LoopsKept

LEMMA PollSandboxesStep ==
  ASSUME SandboxPageInv, PollSandboxes
  PROVE  SandboxPageInv'
<1>1. /\ GatewayKept /\ conn \in Connections /\ ViewOK(view)
      /\ asks \in [{"delete", "reset"} -> Asks] /\ LoopsKept
      /\ calls \in [{"dar", "party"} -> Calls] /\ Answers(view, loops)
      /\ view \in View /\ gate \in Seq(Rows)
  BY PageParts
<1>2. UNCHANGED <<gate, used, conn, asks, loops, calls>>
  BY DEF PollSandboxes
<1> DEFINE list == FetchStarted(view.list, gate)
<1>3. list \in Listed /\ list.data = view.list.data
  BY <1>1, FetchFacts DEF View, Listed
<1>4. view' = [view EXCEPT !.list = list]
  BY DEF PollSandboxes
<1> HIDE DEF list
<1>5. /\ view' \in View /\ SameBut(view, view') /\ view'.selected = view.selected
      /\ SandboxList(view') = SandboxList(view)
  BY <1>1, <1>3, <1>4 DEF View, Listed, SameBut, SandboxList
<1>6. ViewOK(view')
  BY <1>1, <1>5 DEF ViewOK, SameBut, Selects, Awaits
<1>7. Answers(view', loops')
  BY <1>1, <1>2, <1>5, SameAnswers
<1>8. QED
  BY <1>1, <1>2, <1>6, <1>7, PageInvariant DEF GatewayKept, LoopsKept

LEMMA SandboxesListedStep ==
  ASSUME SandboxPageInv, SandboxesListed
  PROVE  SandboxPageInv'
<1>1. /\ GatewayKept /\ conn \in Connections /\ ViewOK(view)
      /\ asks \in [{"delete", "reset"} -> Asks] /\ LoopsKept
      /\ calls \in [{"dar", "party"} -> Calls] /\ Answers(view, loops)
      /\ view \in View /\ conn.sandbox \in Named
  BY PageParts
<1>2. UNCHANGED <<gate, used, conn, asks, loops, calls>>
  BY DEF SandboxesListed
<1> DEFINE good == FetchSucceeded(view.list)
           bad == FetchFailed(view.list)
           v == [view EXCEPT !.list = good]
           w == IF v.list.data = view.list.data THEN v ELSE PendingSelected(v)
           x == [view EXCEPT !.list = bad]
<1>3. view' \in {AutoSelected(w, conn), x}
  BY DEF SandboxesListed
<1>4. good \in Listed /\ bad \in Listed /\ bad.data = view.list.data
  <2>1. view.list \in Listed /\ <<>> \in Seq(Rows)
    BY <1>1, EmptySeq DEF View, Listed
  <2>2. QED
    BY <2>1, FetchFacts
<1> HIDE DEF good, bad
<1>5. /\ v \in View /\ SameBut(view, v) /\ v.list = good
  BY <1>1, <1>4 DEF View, Listed, SameBut
<1>6. /\ x \in View /\ SameBut(view, x) /\ x.selected = view.selected
      /\ x.list.data = view.list.data
  BY <1>1, <1>4 DEF View, Listed, SameBut
<1> HIDE DEF v, x
<1>7. /\ w \in View /\ w.mounted = view.mounted /\ w.connecting = view.connecting
      /\ w.mounted => Awaits(w)
  <2>1. CASE v.list.data = view.list.data
    <3>1. w = v /\ SandboxList(v) = SandboxList(view)
      BY <2>1 DEF SandboxList
    <3>2. QED
      BY <1>1, <1>5, <3>1 DEF SameBut, ViewOK, Awaits
  <2>2. CASE v.list.data # view.list.data /\ v.pending \in IdsOf(SandboxList(v))
    <3>1. w = [v EXCEPT !.selected = v.pending, !.pending = NoSandbox]
      BY <2>2 DEF PendingSelected
    <3>2. /\ w \in View /\ w.mounted = v.mounted /\ w.connecting = v.connecting
          /\ w.list = v.list /\ w.pending = NoSandbox
      BY <1>5, <3>1 DEF View, Named
    <3>3. IdsOf(SandboxList(w)) \subseteq SandboxIds
      BY <3>2, ListType, IdsOfRows DEF Rows
    <3>4. QED
      BY <1>5, <3>2, <3>3, SandboxPageConstantsOK DEF SameBut, Awaits
  <2>3. CASE v.list.data # view.list.data /\ v.pending \notin IdsOf(SandboxList(v))
    BY <1>5, <2>3 DEF PendingSelected, SameBut, Awaits
  <2>4. QED
    BY <2>1, <2>2, <2>3
<1> HIDE DEF w
<1>8. CASE view' = AutoSelected(w, conn)
  <2>1. ViewOK(view') /\ SameBut(w, view')
    BY <1>1, <1>7, <1>8, AutoSelectedKeeps
  <2>2. Answers(view', loops')
    BY <1>1, <1>2, <1>7, <2>1 DEF Answers, SameBut
  <2>3. QED
    BY <1>1, <1>2, <2>1, <2>2, PageInvariant DEF GatewayKept, LoopsKept
<1>9. CASE view' = x
  <2>1. SandboxList(x) = SandboxList(view)
    BY <1>6 DEF SandboxList
  <2>2. ViewOK(view') /\ Answers(view', loops')
    BY <1>1, <1>2, <1>6, <1>9, <2>1 DEF ViewOK, SameBut, Selects, Awaits, Answers
  <2>3. QED
    BY <1>1, <1>2, <2>2, PageInvariant DEF GatewayKept, LoopsKept
<1>10. QED
  BY <1>3, <1>8, <1>9

LEMMA SelectSandboxStep ==
  ASSUME SandboxPageInv, SelectSandbox
  PROVE  SandboxPageInv'
<1>1. /\ GatewayKept /\ conn \in Connections /\ ViewOK(view)
      /\ asks \in [{"delete", "reset"} -> Asks] /\ LoopsKept
      /\ calls \in [{"dar", "party"} -> Calls] /\ Answers(view, loops)
      /\ view \in View /\ conn.sandbox \in Named
  BY PageParts
<1>2. UNCHANGED <<gate, used, conn, asks, loops, calls>>
  BY DEF SelectSandbox
<1>3. PICK id \in IdsOf(SandboxList(view)) :
        view' = AutoSelected([view EXCEPT !.selected =
                                IF view.selected = id THEN NoSandbox ELSE id], conn)
  BY DEF SelectSandbox
<1> DEFINE pick == IF view.selected = id THEN NoSandbox ELSE id
           v == [view EXCEPT !.selected = pick]
<1>4. id \in SandboxIds
  BY <1>1, ListType, IdsOfRows DEF Rows
<1>5. pick \in Named
  BY <1>4 DEF Named
<1>6. view' = AutoSelected(v, conn)
  BY <1>3
<1> HIDE DEF pick
<1>7. v \in View /\ SameBut(view, v) /\ v.list = view.list
  BY <1>1, <1>5 DEF View, SameBut
<1> HIDE DEF v
<1>8. v.mounted => Awaits(v)
  BY <1>1, <1>7 DEF ViewOK, SameBut, Awaits, SandboxList
<1>9. ViewOK(view') /\ SameBut(v, view')
  BY <1>1, <1>6, <1>7, <1>8, AutoSelectedKeeps
<1>10. Answers(view', loops')
  BY <1>1, <1>2, <1>7, <1>9 DEF Answers, SameBut
<1>11. QED
  BY <1>1, <1>2, <1>9, <1>10, PageInvariant DEF GatewayKept, LoopsKept

LEMMA CreateOnPageStep ==
  ASSUME SandboxPageInv, CreateOnPage
  PROVE  SandboxPageInv'
<1>1. /\ GatewayKept /\ conn \in Connections /\ ViewOK(view)
      /\ asks \in [{"delete", "reset"} -> Asks] /\ LoopsKept
      /\ calls \in [{"dar", "party"} -> Calls] /\ Answers(view, loops)
      /\ view \in View /\ IdsOf(gate) \subseteq used
  BY PageParts, IdsOfRows DEF GatewayKept
<1>2. UNCHANGED <<conn, asks, loops, calls>>
  BY DEF CreateOnPage
<1>3. PICK id \in (SandboxIds \ used)
                     \cup {s \in IdsOf(gate) : StatusIn(gate, s) = "provisioning"} :
        /\ gate' = IF id \in used THEN gate
                   ELSE Append(gate, [id |-> id, status |-> "provisioning"])
        /\ used' = used \cup {id}
        /\ view' = Invalidate([view EXCEPT !.pending = id,
                                 !.early = id \in IdsOf(SandboxList(view))], gate')
  BY DEF CreateOnPage
<1>4. id \in SandboxIds
  BY <1>1, <1>3 DEF GatewayKept
<1>5. GatewayKept'
  <2>1. CASE id \in used
    BY <1>1, <1>3, <2>1 DEF GatewayKept
  <2>2. CASE id \notin used
    <3> DEFINE row == [id |-> id, status |-> "provisioning"]
    <3>1. row \in SandboxRows(used') /\ SandboxRows(used) \subseteq SandboxRows(used')
      BY <1>3 DEF SandboxRows
    <3>2. gate \in Seq(SandboxRows(used'))
      BY <1>1, <3>1, SeqMonotonic DEF GatewayKept
    <3>3. gate' = Append(gate, row)
      BY <1>3, <2>2
    <3> HIDE DEF row
    <3>4. gate' \in Seq(SandboxRows(used'))
      BY <3>1, <3>2, <3>3
    <3>5. QED
      BY <1>1, <1>3, <1>4, <3>4 DEF GatewayKept
  <2>3. QED
    BY <2>1, <2>2
<1>6. gate' \in Seq(Rows)
  <2>1. SandboxRows(used') \subseteq Rows
    BY <1>5 DEF GatewayKept, SandboxRows, Rows
  <2>2. QED
    BY <1>5, <2>1, SeqMonotonic DEF GatewayKept
<1> DEFINE early == id \in IdsOf(SandboxList(view))
           v == [view EXCEPT !.pending = id, !.early = early]
<1>7. view' = Invalidate(v, gate') /\ early \in BOOLEAN
  BY <1>3
<1>8. early <=> id \in IdsOf(SandboxList(view))
  OBVIOUS
<1> HIDE DEF early
<1>9. /\ v \in View /\ v.mounted = view.mounted /\ v.connecting = view.connecting
      /\ v.list = view.list /\ v.selected = view.selected
      /\ v.pending = id /\ v.early = early
  BY <1>1, <1>4, <1>7 DEF View, Named
<1> HIDE DEF v
<1>10. SandboxList(v) = SandboxList(view)
  BY <1>9 DEF SandboxList
<1>11. ViewOK(v)
  BY <1>1, <1>8, <1>9, <1>10 DEF ViewOK, Selects, Awaits
<1>12. ViewOK(view') /\ SameBut(v, view')
  BY <1>6, <1>7, <1>11, InvalidateKeeps
<1>13. Answers(view', loops')
  BY <1>1, <1>2, <1>9, <1>12 DEF Answers, SameBut
<1>14. QED
  BY <1>1, <1>2, <1>5, <1>12, <1>13, PageInvariant DEF LoopsKept

LEMMA OpenDialogStep ==
  ASSUME SandboxPageInv, OpenDialog
  PROVE  SandboxPageInv'
<1>1. /\ GatewayKept /\ conn \in Connections /\ ViewOK(view)
      /\ asks \in [{"delete", "reset"} -> Asks] /\ LoopsKept
      /\ calls \in [{"dar", "party"} -> Calls] /\ Answers(view, loops)
      /\ view \in View /\ gate \in Seq(Rows) /\ conn.sandbox \in Named
  BY PageParts
<1>2. UNCHANGED <<gate, used, conn, view, loops, calls>>
  BY DEF OpenDialog
<1>3. PICK kind \in DOMAIN asks : asks' = [asks EXCEPT ![kind].dialog = view.selected]
  BY DEF OpenDialog
<1>4. kind \in {"delete", "reset"} /\ view.selected \in Named /\ asks[kind] \in Asks
  BY <1>1 DEF View
<1> DEFINE ask == [asks[kind] EXCEPT !.dialog = view.selected]
<1>5. ask \in Asks
  BY <1>4 DEF Asks
<1>6. asks' = [asks EXCEPT ![kind] = ask]
  BY <1>3
<1> HIDE DEF ask
<1>7. asks' \in [{"delete", "reset"} -> Asks]
  BY <1>1, <1>4, <1>5, <1>6
<1>8. QED
  BY <1>1, <1>2, <1>7, PageInvariant DEF GatewayKept, LoopsKept

LEMMA ConfirmStep ==
  ASSUME SandboxPageInv, Confirm
  PROVE  SandboxPageInv'
<1>1. /\ GatewayKept /\ conn \in Connections /\ ViewOK(view)
      /\ asks \in [{"delete", "reset"} -> Asks] /\ LoopsKept
      /\ calls \in [{"dar", "party"} -> Calls] /\ Answers(view, loops)
      /\ view \in View /\ gate \in Seq(Rows) /\ conn.sandbox \in Named
  BY PageParts
<1>2. UNCHANGED <<gate, used, conn, view, loops, calls>>
  BY DEF Confirm
<1>3. asks' \in [{"delete", "reset"} -> Asks]
  <2>1. PICK kind \in DOMAIN asks :
          \/ asks' = [asks EXCEPT ![kind].target = asks[kind].dialog,
                       ![kind].failed = FALSE,
                       ![kind].connected = conn.sandbox = asks[kind].dialog,
                       ![kind].selected = view.selected = asks[kind].dialog]
          \/ asks' = [asks EXCEPT ![kind].dialog = NoSandbox, ![kind].failed = FALSE]
    BY DEF Confirm
  <2>2. kind \in {"delete", "reset"} /\ asks[kind] \in Asks
    BY <1>1
  <2> DEFINE linked == conn.sandbox = asks[kind].dialog
             selected == view.selected = asks[kind].dialog
             requested == [asks[kind] EXCEPT !.target = asks[kind].dialog, !.failed = FALSE,
                         !.connected = linked, !.selected = selected]
             closed == [asks[kind] EXCEPT !.dialog = NoSandbox, !.failed = FALSE]
  <2>3. linked \in BOOLEAN /\ selected \in BOOLEAN
    OBVIOUS
  <2>4. asks' = [asks EXCEPT ![kind] = requested] \/ asks' = [asks EXCEPT ![kind] = closed]
    BY <2>1, <2>2, <1>1
  <2> HIDE DEF linked, selected
  <2>5. requested \in Asks /\ closed \in Asks
    BY <2>2, <2>3 DEF Asks, Named
  <2> HIDE DEF requested, closed
  <2>6. QED
    BY <1>1, <2>2, <2>4, <2>5
<1>4. QED
  BY <1>1, <1>2, <1>3, PageInvariant DEF GatewayKept, LoopsKept

\* A deletion and a reset, whichever page they were asked for on.
LEMMA DeletedKeeps ==
  ASSUME SandboxPageInv, NEW id, NEW mine, NEW v \in View,
         SameBut(view, v), v.list = view.list, UNCHANGED <<used, loops>>,
         Deleted(id, mine, v)
  PROVE  GatewayKept' /\ conn' \in Connections /\ ViewOK(view') /\ Answers(view', loops')
<1>1. /\ GatewayKept /\ conn \in Connections /\ ViewOK(view)
      /\ Answers(view, loops) /\ gate \in Seq(Rows) /\ conn.sandbox \in Named
  BY PageParts
<1>2. /\ id \in IdsOf(gate) /\ gate' = Without(gate, id)
      /\ conn' = IF mine THEN Disconnected ELSE conn
  BY DEF Deleted
<1> DEFINE w == Invalidate(v, gate')
<1>3. view' = IF mine THEN QueriesCleared(v, gate') ELSE AutoSelected(w, conn)
  BY DEF Deleted
<1>4. GatewayKept' /\ gate' \in Seq(Rows)
  BY <1>1, <1>2, WithoutType DEF GatewayKept, Rows
<1>5. conn' \in Connections
  BY <1>1, <1>2 DEF Disconnected, Connections, Named
<1>6. SandboxList(v) = SandboxList(view)
  BY DEF SandboxList
<1>7. CASE mine
  <2>1. ViewOK(view') /\ SameBut(v, view')
    BY <1>3, <1>4, <1>7, QueriesClearedKeeps
  <2>2. Answers(view', loops')
    BY <1>1, <2>1 DEF Answers, SameBut
  <2>3. QED
    BY <1>4, <1>5, <2>1, <2>2
<1>8. CASE ~mine
  <2>1. w \in View /\ SameBut(v, w) /\ SandboxList(w) = SandboxList(v)
    BY <1>4, InvalidateFacts
  <2> HIDE DEF w
  <2>2. w.mounted => Awaits(w)
    BY <1>1, <1>6, <2>1 DEF ViewOK, SameBut, Awaits
  <2>3. ViewOK(view') /\ SameBut(w, view')
    BY <1>1, <1>3, <1>8, <2>1, <2>2, AutoSelectedKeeps
  <2>4. Answers(view', loops')
    BY <1>1, <2>1, <2>3 DEF Answers, SameBut
  <2>5. QED
    BY <1>4, <1>5, <2>3, <2>4
<1>9. QED
  BY <1>7, <1>8

LEMMA ResetKeeps ==
  ASSUME SandboxPageInv, NEW id, UNCHANGED <<used, loops>>, ResetAt(id)
  PROVE  GatewayKept' /\ conn' \in Connections /\ ViewOK(view') /\ Answers(view', loops')
<1>1. /\ GatewayKept /\ conn \in Connections /\ ViewOK(view)
      /\ Answers(view, loops) /\ gate \in Seq(Rows)
  BY PageParts
<1>2. /\ StatusIn(gate, id) = "running" /\ gate' = WithStatus(gate, id, "provisioning")
      /\ view' = Invalidate(view, gate') /\ UNCHANGED conn
  BY DEF ResetAt
<1>3. id \in IdsOf(gate)
  BY <1>2, RunningListed
<1>4. GatewayKept' /\ gate' \in Seq(Rows)
  BY <1>1, <1>2, <1>3, WithStatusType DEF GatewayKept, Rows
<1>5. ViewOK(view') /\ SameBut(view, view')
  BY <1>1, <1>2, <1>4, InvalidateKeeps
<1>6. Answers(view', loops')
  BY <1>1, <1>5 DEF Answers, SameBut
<1>7. QED
  BY <1>1, <1>2, <1>4, <1>5, <1>6

LEMMA DeletedOrResetStep ==
  ASSUME SandboxPageInv, DeletedOrReset
  PROVE  SandboxPageInv'
<1>1. /\ GatewayKept /\ conn \in Connections /\ ViewOK(view)
      /\ asks \in [{"delete", "reset"} -> Asks] /\ LoopsKept
      /\ calls \in [{"dar", "party"} -> Calls] /\ Answers(view, loops)
      /\ view \in View
  BY PageParts
<1>2. UNCHANGED <<used, loops, calls>>
  BY DEF DeletedOrReset
<1>3. PICK kind \in DOMAIN asks :
        LET ask == asks[kind]
            done(error) == [asks EXCEPT ![kind].target = NoSandbox, ![kind].failed = error,
                              ![kind].dialog = IF error THEN ask.dialog ELSE NoSandbox]
            pick == IF ask.selected THEN NoSandbox ELSE view.selected
        IN \/ asks' = done(TRUE) /\ UNCHANGED <<gate, conn, view>>
           \/ /\ kind = "delete" /\ asks' = done(FALSE)
              /\ Deleted(ask.target, ask.connected, [view EXCEPT !.selected = pick])
           \/ kind = "reset" /\ asks' = done(FALSE) /\ ResetAt(ask.target)
  BY Zenon DEF DeletedOrReset
<1> DEFINE ask == asks[kind]
           pick == IF ask.selected THEN NoSandbox ELSE view.selected
           v == [view EXCEPT !.selected = pick]
<1>4. kind \in {"delete", "reset"} /\ ask \in Asks
  BY <1>1
<1>5. asks' \in [{"delete", "reset"} -> Asks]
  <2> DEFINE done(error) == [ask EXCEPT !.target = NoSandbox, !.failed = error,
                               !.dialog = IF error THEN ask.dialog ELSE NoSandbox]
  <2>1. \/ asks' = [asks EXCEPT ![kind] = done(TRUE)]
        \/ asks' = [asks EXCEPT ![kind] = done(FALSE)]
    BY <1>1, <1>3, <1>4
  <2>2. done(TRUE) \in Asks /\ done(FALSE) \in Asks
    BY <1>4 DEF Asks, Named
  <2> HIDE DEF ask, done
  <2>3. QED
    BY <1>1, <1>4, <2>1, <2>2
<1>6. CASE UNCHANGED <<gate, conn, view>>
  BY <1>1, <1>2, <1>5, <1>6, PageInvariant DEF GatewayKept, LoopsKept
<1>7. CASE Deleted(ask.target, ask.connected, v)
  <2>1. ask.connected \in BOOLEAN /\ pick \in Named
    BY <1>1, <1>4 DEF Asks, View, Named
  <2> HIDE DEF pick
  <2>2. v \in View /\ SameBut(view, v) /\ v.list = view.list
    BY <1>1, <2>1 DEF View, SameBut
  <2> HIDE DEF v, ask
  <2>3. GatewayKept' /\ conn' \in Connections /\ ViewOK(view') /\ Answers(view', loops')
    BY <1>2, <1>7, <2>1, <2>2, DeletedKeeps
  <2>4. QED
    BY <1>1, <1>2, <1>5, <2>3, PageInvariant DEF LoopsKept
<1>8. CASE ResetAt(ask.target)
  <2>1. GatewayKept' /\ conn' \in Connections /\ ViewOK(view') /\ Answers(view', loops')
    BY <1>2, <1>8, ResetKeeps
  <2>2. QED
    BY <1>1, <1>2, <1>5, <2>1, PageInvariant DEF LoopsKept
<1>9. QED
  BY <1>3, <1>6, <1>7, <1>8

LEMMA DepartedAnsweredStep ==
  ASSUME SandboxPageInv, DepartedAnswered
  PROVE  SandboxPageInv'
<1>1. /\ GatewayKept /\ conn \in Connections /\ ViewOK(view)
      /\ asks \in [{"delete", "reset"} -> Asks] /\ LoopsKept
      /\ calls \in [{"dar", "party"} -> Calls] /\ Answers(view, loops)
      /\ view \in View /\ gate \in Seq(Rows)
  BY PageParts
<1>2. UNCHANGED <<used, asks, loops, calls>>
  BY DEF DepartedAnswered
<1>3. PICK d \in departed :
        \/ UNCHANGED <<gate, conn, view>>
        \/ Deleted(d.target, d.connected, view)
        \/ ResetAt(d.target)
        \/ view' = Invalidate(view, gate) /\ UNCHANGED <<gate, conn>>
  BY DEF DepartedAnswered
<1>4. GatewayKept' /\ conn' \in Connections /\ ViewOK(view') /\ Answers(view', loops')
  <2>1. CASE UNCHANGED <<gate, conn, view>>
    BY <1>1, <1>2, <2>1 DEF GatewayKept
  <2>2. CASE Deleted(d.target, d.connected, view)
    <3>1. SameBut(view, view)
      BY DEF SameBut
    <3>2. QED
      BY <1>1, <1>2, <2>2, <3>1, DeletedKeeps
  <2>3. CASE ResetAt(d.target)
    BY <1>2, <2>3, ResetKeeps
  <2>4. CASE view' = Invalidate(view, gate) /\ UNCHANGED <<gate, conn>>
    <3>1. ViewOK(view') /\ SameBut(view, view')
      BY <1>1, <2>4, InvalidateKeeps
    <3>2. Answers(view', loops')
      BY <1>1, <1>2, <3>1 DEF Answers, SameBut
    <3>3. QED
      BY <1>1, <1>2, <2>4, <3>1, <3>2 DEF GatewayKept
  <2>5. QED
    BY <1>3, <2>1, <2>2, <2>3, <2>4
<1>5. QED
  BY <1>1, <1>2, <1>4, PageInvariant DEF LoopsKept

LEMMA HandleConnectStep ==
  ASSUME SandboxPageInv, HandleConnect
  PROVE  SandboxPageInv'
<1>1. /\ GatewayKept /\ conn \in Connections /\ ViewOK(view)
      /\ asks \in [{"delete", "reset"} -> Asks] /\ LoopsKept
      /\ calls \in [{"dar", "party"} -> Calls] /\ Answers(view, loops)
      /\ view \in View /\ gate \in Seq(Rows) /\ conn.sandbox \in Named
  BY PageParts
<1>2. UNCHANGED <<gate, used, asks, calls>> /\ conn' = Disconnected
  BY DEF HandleConnect
<1>3. view.selected \in SandboxIds
  <2>1. view.selected \in IdsOf(SandboxList(view))
    BY RunningListed DEF HandleConnect
  <2>2. QED
    BY <1>1, <2>1, ListType, IdsOfRows DEF Rows
<1> DEFINE v == QueriesCleared(view, gate)
           loop == [id |-> view.selected, tries |-> 0, asked |-> FALSE, here |-> TRUE]
<1>4. view' = [v EXCEPT !.connecting = TRUE, !.error = FALSE] /\ loops' = loops \cup {loop}
  BY DEF HandleConnect
<1>5. ViewOK(v) /\ v \in View
  BY <1>1, QueriesClearedKeeps
<1> HIDE DEF v
<1>6. ViewOK(view')
  <2>1. /\ view' \in View /\ view'.mounted = v.mounted /\ view'.list = v.list
        /\ view'.selected = v.selected /\ view'.pending = v.pending
        /\ view'.early = v.early
    BY <1>4, <1>5 DEF View
  <2>2. QED
    BY <1>5, <2>1 DEF ViewOK, Selects, Awaits, SandboxList
<1>7. loop \in Loops /\ loop.here /\ loop.tries < MaxTries
  <2>1. 0 \in 0..MaxTries /\ 0 < MaxTries
    BY SandboxPageConstantsOK
  <2>2. QED
    BY <1>3, <2>1 DEF Loops
<1> HIDE DEF loop
<1>8. LoopsKept'
  BY <1>1, <1>4, <1>7 DEF LoopsKept
<1>9. Answers(view', loops')
  BY <1>4, <1>7 DEF Answers
<1>10. conn' \in Connections
  BY <1>2 DEF Disconnected, Connections, Named
<1>11. QED
  BY <1>1, <1>2, <1>6, <1>8, <1>9, <1>10, PageInvariant DEF GatewayKept

LEMMA AttemptStep ==
  ASSUME SandboxPageInv, Attempt
  PROVE  SandboxPageInv'
<1>1. /\ GatewayKept /\ conn \in Connections /\ ViewOK(view)
      /\ asks \in [{"delete", "reset"} -> Asks] /\ LoopsKept
      /\ calls \in [{"dar", "party"} -> Calls] /\ Answers(view, loops)
      /\ view \in View /\ gate \in Seq(Rows) /\ conn.sandbox \in Named
  BY PageParts
<1>2. UNCHANGED <<gate, used, asks, calls>>
  BY DEF Attempt
<1>3. PICK l \in loops :
        /\ ~l.asked
        /\ loops' = (loops \ {l})
                      \cup {[l EXCEPT !.asked = TRUE, !.tries = l.tries + 1]}
        /\ conn' = [sandbox |-> l.id, status |-> "connecting"]
        /\ view' = AutoSelected(view, conn')
  BY DEF Attempt
<1>4. l \in Loops /\ l.tries + 1 \in 0..MaxTries
  BY <1>1, <1>3, SandboxPageConstantsOK DEF LoopsKept, Loops
<1> DEFINE m == [l EXCEPT !.asked = TRUE, !.tries = l.tries + 1]
<1>5. m \in Loops /\ m.asked = TRUE /\ m.here = l.here
  BY <1>4 DEF Loops
<1>6. loops' = (loops \ {l}) \cup {m}
  BY <1>3
<1> HIDE DEF m
<1>7. LoopsKept'
  BY <1>1, <1>5, <1>6 DEF LoopsKept
<1>8. (\E k \in loops : k.here) => \E k \in loops' : k.here
  BY <1>3, <1>5, <1>6
<1>9. conn' \in Connections /\ conn'.sandbox \in Named
  BY <1>3, <1>4 DEF Loops, Connections, Named
<1>10. ViewOK(view') /\ SameBut(view, view')
  BY <1>1, <1>3, <1>9, AutoSelectedKeeps DEF ViewOK
<1>11. Answers(view', loops')
  BY <1>1, <1>8, <1>10, SameAnswers
<1>12. QED
  BY <1>1, <1>2, <1>7, <1>9, <1>10, <1>11, PageInvariant DEF GatewayKept

LEMMA PageLeftType ==
  ASSUME PageLeft
  PROVE  asks' \in [{"delete", "reset"} -> Asks] /\ calls' \in [{"dar", "party"} -> Calls]
<1>1. NoAsk \in Asks /\ NoCall \in Calls
  BY DEF NoAsk, NoCall, Asks, Calls, Named
<1>2. QED
  BY <1>1 DEF PageLeft, NoAsks, NoCalls

\* A page that is left, or not open, shows nothing.
LEMMA LeftView ==
  ASSUME NEW list \in Listed
  PROVE  LET v == [NewView EXCEPT !.mounted = FALSE, !.list = list]
             w == [NewView EXCEPT !.mounted = FALSE]
             x == [NewView EXCEPT !.list = list]
         IN /\ ViewOK(v) /\ ~v.mounted /\ ViewOK(w) /\ ~w.mounted
            /\ x \in View /\ ~x.connecting /\ x.pending = NoSandbox
<1>1. NoEntry \in Listed
  BY EmptySeq DEF NoEntry, Listed, Listings, Missing
<1>2. QED
  BY <1>1 DEF NewView, ViewOK, View, Listed, Named

LEMMA ConnectAnsweredStep ==
  ASSUME SandboxPageInv, ConnectAnswered
  PROVE  SandboxPageInv'
<1>1. /\ GatewayKept /\ conn \in Connections /\ ViewOK(view)
      /\ asks \in [{"delete", "reset"} -> Asks] /\ LoopsKept
      /\ calls \in [{"dar", "party"} -> Calls] /\ Answers(view, loops)
      /\ view \in View /\ gate \in Seq(Rows) /\ conn.sandbox \in Named
  BY PageParts
<1>2. UNCHANGED <<gate, used>>
  BY DEF ConnectAnswered
<1>3. PICK l \in loops :
        /\ l.asked
        /\ \/ /\ conn' = [conn EXCEPT !.status = "connected"]
              /\ loops' = {[m EXCEPT !.here = FALSE] : m \in loops \ {l}}
              /\ view' = [NewView EXCEPT !.mounted = FALSE]
              /\ PageLeft
           \/ /\ conn' = [conn EXCEPT !.status = "error"] /\ UNCHANGED <<asks, calls>>
              /\ \/ /\ l.tries < MaxTries /\ UNCHANGED view
                    /\ loops' = (loops \ {l}) \cup {[l EXCEPT !.asked = FALSE]}
                 \/ /\ loops' = loops \ {l}
                    /\ view' = IF l.here
                               THEN [view EXCEPT !.connecting = FALSE, !.error = TRUE]
                               ELSE view
  BY DEF ConnectAnswered
<1>4. conn' \in Connections /\ l \in Loops
  BY <1>1, <1>3 DEF Connections, LoopsKept
<1>5. CASE /\ loops' = {[m EXCEPT !.here = FALSE] : m \in loops \ {l}}
           /\ view' = [NewView EXCEPT !.mounted = FALSE]
           /\ PageLeft
  <2>1. ViewOK(view') /\ ~view'.mounted
    <3>1. view.list \in Listed
      BY <1>1 DEF View, Listed
    <3>2. QED
      BY <1>5, <3>1, LeftView
  <2>2. LoopsKept'
    <3>1. ASSUME NEW m \in loops
          PROVE  /\ [m EXCEPT !.here = FALSE] \in Loops
                 /\ [m EXCEPT !.here = FALSE].asked = m.asked
                 /\ [m EXCEPT !.here = FALSE].tries = m.tries
      BY <1>1 DEF LoopsKept, Loops
    <3>2. QED
      BY <1>1, <1>5, <3>1 DEF LoopsKept
  <2>3. QED
    BY <1>1, <1>2, <1>4, <1>5, <2>1, <2>2, PageLeftType, PageInvariant
       DEF GatewayKept, Answers
<1>6. CASE /\ UNCHANGED <<asks, calls>> /\ l.tries < MaxTries /\ UNCHANGED view
           /\ loops' = (loops \ {l}) \cup {[l EXCEPT !.asked = FALSE]}
  <2> DEFINE m == [l EXCEPT !.asked = FALSE]
  <2>1. m \in Loops /\ m.tries < MaxTries /\ m.here = l.here
    BY <1>4, <1>6 DEF Loops
  <2>2. loops' = (loops \ {l}) \cup {m}
    BY <1>6
  <2> HIDE DEF m
  <2>3. LoopsKept'
    BY <1>1, <2>1, <2>2 DEF LoopsKept
  <2>4. Answers(view', loops')
    BY <1>1, <1>6, <2>1, <2>2 DEF Answers
  <2>5. QED
    BY <1>1, <1>2, <1>4, <1>6, <2>3, <2>4, PageInvariant DEF GatewayKept
<1>7. CASE /\ UNCHANGED <<asks, calls>> /\ loops' = loops \ {l}
           /\ view' = IF l.here THEN [view EXCEPT !.connecting = FALSE, !.error = TRUE]
                      ELSE view
  <2>1. LoopsKept'
    BY <1>1, <1>7 DEF LoopsKept
  <2>2. CASE l.here
    <3>1. /\ view' \in View /\ view'.mounted = view.mounted /\ view'.list = view.list
          /\ view'.selected = view.selected /\ view'.pending = view.pending
          /\ view'.early = view.early /\ view'.connecting = FALSE
      BY <1>1, <1>7, <2>2 DEF View
    <3>2. ViewOK(view') /\ Answers(view', loops')
      BY <1>1, <3>1 DEF ViewOK, Selects, Awaits, SandboxList, Answers
    <3>3. QED
      BY <1>1, <1>2, <1>4, <1>7, <2>1, <3>2, PageInvariant DEF GatewayKept
  <2>3. CASE ~l.here
    <3>1. view' = view
      BY <1>7, <2>3
    <3>2. Answers(view', loops')
      BY <1>1, <1>7, <2>3, <3>1 DEF Answers
    <3>3. QED
      BY <1>1, <1>2, <1>4, <1>7, <2>1, <3>1, <3>2, PageInvariant DEF GatewayKept
  <2>4. QED
    BY <2>2, <2>3
<1>8. QED
  BY <1>3, <1>5, <1>6, <1>7

LEMMA LeaveOrReturnStep ==
  ASSUME SandboxPageInv, LeaveOrReturn
  PROVE  SandboxPageInv'
<1>1. /\ GatewayKept /\ conn \in Connections /\ ViewOK(view)
      /\ asks \in [{"delete", "reset"} -> Asks] /\ LoopsKept
      /\ calls \in [{"dar", "party"} -> Calls] /\ Answers(view, loops)
      /\ view \in View /\ gate \in Seq(Rows) /\ conn.sandbox \in Named
  BY PageParts
<1>2. UNCHANGED <<gate, used, conn>> /\ PageLeft
  BY DEF LeaveOrReturn
<1>3. view.list \in Listed
  BY <1>1 DEF View, Listed
<1>4. LoopsKept'
  <2>1. ASSUME NEW m \in loops
        PROVE  /\ [m EXCEPT !.here = FALSE] \in Loops
               /\ [m EXCEPT !.here = FALSE].asked = m.asked
               /\ [m EXCEPT !.here = FALSE].tries = m.tries
    BY <1>1 DEF LoopsKept, Loops
  <2>2. loops' = {[l EXCEPT !.here = FALSE] : l \in loops}
    BY DEF LeaveOrReturn
  <2>3. QED
    BY <1>1, <2>1, <2>2 DEF LoopsKept
<1>5. asks' \in [{"delete", "reset"} -> Asks] /\ calls' \in [{"dar", "party"} -> Calls]
  BY <1>2, PageLeftType
<1>6. ViewOK(view') /\ (view'.mounted => ~view'.connecting)
  <2>1. CASE view.mounted
    <3>1. view' = [NewView EXCEPT !.mounted = FALSE, !.list = view.list]
      BY <2>1 DEF LeaveOrReturn
    <3>2. QED
      BY <1>3, <3>1, LeftView
  <2>2. CASE ~view.mounted
    <3> DEFINE list == FetchStarted(view.list, gate)
               x == [NewView EXCEPT !.list = list]
    <3>1. list \in Listed
      BY <1>1, <1>3, FetchFacts
    <3>2. view' = AutoSelected(x, conn)
      BY <2>2 DEF LeaveOrReturn
    <3> HIDE DEF list
    <3>3. x \in View /\ ~x.connecting /\ x.pending = NoSandbox
      BY <3>1, LeftView
    <3> HIDE DEF x
    <3>4. IdsOf(SandboxList(x)) \subseteq SandboxIds
      BY <3>3, ListType, IdsOfRows DEF Rows
    <3>5. Awaits(x)
      BY <3>3, <3>4, SandboxPageConstantsOK DEF Awaits
    <3>6. ViewOK(view') /\ SameBut(x, view')
      BY <1>1, <3>2, <3>3, <3>5, AutoSelectedKeeps
    <3>7. QED
      BY <3>3, <3>6 DEF SameBut
  <2>3. QED
    BY <2>1, <2>2
<1>7. QED
  BY <1>1, <1>2, <1>4, <1>5, <1>6, PageInvariant DEF GatewayKept, Answers

LEMMA SubmitStep ==
  ASSUME SandboxPageInv, Submit
  PROVE  SandboxPageInv'
<1>1. /\ GatewayKept /\ conn \in Connections /\ ViewOK(view)
      /\ asks \in [{"delete", "reset"} -> Asks] /\ LoopsKept
      /\ calls \in [{"dar", "party"} -> Calls] /\ Answers(view, loops)
      /\ view \in View /\ gate \in Seq(Rows) /\ conn.sandbox \in Named
  BY PageParts
<1>2. UNCHANGED <<gate, used, conn, view, asks, loops>>
  BY DEF Submit
<1>3. PICK kind \in DOMAIN calls :
        calls' = [calls EXCEPT ![kind].target = view.selected, ![kind].entered = TRUE]
  BY DEF Submit
<1>4. kind \in {"dar", "party"} /\ view.selected \in Named /\ calls[kind] \in Calls
  BY <1>1 DEF View
<1> DEFINE call == [calls[kind] EXCEPT !.target = view.selected, !.entered = TRUE]
<1>5. call \in Calls
  BY <1>4 DEF Calls
<1>6. calls' = [calls EXCEPT ![kind] = call]
  BY <1>1, <1>3, <1>4
<1> HIDE DEF call
<1>7. calls' \in [{"dar", "party"} -> Calls]
  BY <1>1, <1>4, <1>5, <1>6
<1>8. QED
  BY <1>1, <1>2, <1>7, PageInvariant DEF GatewayKept, LoopsKept

LEMMA SubmittedStep ==
  ASSUME SandboxPageInv, Submitted
  PROVE  SandboxPageInv'
<1>1. /\ GatewayKept /\ conn \in Connections /\ ViewOK(view)
      /\ asks \in [{"delete", "reset"} -> Asks] /\ LoopsKept
      /\ calls \in [{"dar", "party"} -> Calls] /\ Answers(view, loops)
      /\ view \in View /\ gate \in Seq(Rows) /\ conn.sandbox \in Named
  BY PageParts
<1>2. UNCHANGED <<gate, used, conn, asks, loops>>
  BY DEF Submitted
<1>3. PICK kind \in DOMAIN calls :
        \/ /\ calls' = [calls EXCEPT ![kind] =
                          [target |-> NoSandbox, entered |-> FALSE, done |-> TRUE]]
           /\ view' = Invalidate(view, gate)
        \/ /\ calls' = [calls EXCEPT ![kind].target = NoSandbox,
                          ![kind].entered = @ /\ ~(kind = "dar" /\ calls[kind].done)]
           /\ UNCHANGED view
  BY DEF Submitted
<1>4. kind \in {"dar", "party"} /\ calls[kind] \in Calls
  BY <1>1
<1>5. CASE /\ calls' = [calls EXCEPT ![kind] =
                          [target |-> NoSandbox, entered |-> FALSE, done |-> TRUE]]
           /\ view' = Invalidate(view, gate)
  <2>1. [target |-> NoSandbox, entered |-> FALSE, done |-> TRUE] \in Calls
    BY <1>1 DEF Calls, View, Named
  <2>2. calls' \in [{"dar", "party"} -> Calls]
    BY <1>1, <1>4, <1>5, <2>1
  <2>3. ViewOK(view') /\ SameBut(view, view')
    BY <1>1, <1>5, InvalidateKeeps
  <2>4. Answers(view', loops')
    BY <1>1, <1>2, <2>3 DEF Answers, SameBut
  <2>5. QED
    BY <1>1, <1>2, <2>2, <2>3, <2>4, PageInvariant DEF GatewayKept, LoopsKept
<1>6. CASE /\ calls' = [calls EXCEPT ![kind].target = NoSandbox,
                          ![kind].entered = @ /\ ~(kind = "dar" /\ calls[kind].done)]
           /\ UNCHANGED view
  <2> DEFINE entered == calls[kind].entered /\ ~(kind = "dar" /\ calls[kind].done)
             call == [calls[kind] EXCEPT !.target = NoSandbox, !.entered = entered]
  <2>1. entered \in BOOLEAN
    BY <1>4 DEF Calls
  <2>2. calls' = [calls EXCEPT ![kind] = call]
    BY <1>1, <1>4, <1>6
  <2> HIDE DEF entered
  <2>3. call \in Calls
    BY <1>4, <2>1 DEF Calls, Named
  <2> HIDE DEF call
  <2>4. calls' \in [{"dar", "party"} -> Calls]
    BY <1>1, <1>4, <2>2, <2>3
  <2>5. QED
    BY <1>1, <1>2, <1>6, <2>4, PageInvariant DEF GatewayKept, LoopsKept
<1>7. QED
  BY <1>3, <1>5, <1>6

LEMMA PageAlways == SandboxPageSpec => []SandboxPageInv
<1>1. SandboxPageInv /\ [SandboxPageNext]_sandboxPageVars => SandboxPageInv'
  <2> SUFFICES ASSUME SandboxPageInv, [SandboxPageNext]_sandboxPageVars
               PROVE  SandboxPageInv'
    OBVIOUS
  <2>1. CASE GatewayChanges
    BY <2>1, GatewayChangesStep
  <2>2. CASE PollSandboxes
    BY <2>2, PollSandboxesStep
  <2>3. CASE SandboxesListed
    BY <2>3, SandboxesListedStep
  <2>4. CASE SelectSandbox
    BY <2>4, SelectSandboxStep
  <2>5. CASE CreateOnPage
    BY <2>5, CreateOnPageStep
  <2>6. CASE OpenDialog
    BY <2>6, OpenDialogStep
  <2>7. CASE Confirm
    BY <2>7, ConfirmStep
  <2>8. CASE DeletedOrReset
    BY <2>8, DeletedOrResetStep
  <2>9. CASE DepartedAnswered
    BY <2>9, DepartedAnsweredStep
  <2>10. CASE HandleConnect
    BY <2>10, HandleConnectStep
  <2>11. CASE Attempt
    BY <2>11, AttemptStep
  <2>12. CASE ConnectAnswered
    BY <2>12, ConnectAnsweredStep
  <2>13. CASE LeaveOrReturn
    BY <2>13, LeaveOrReturnStep
  <2>14. CASE Submit
    BY <2>14, SubmitStep
  <2>15. CASE Submitted
    BY <2>15, SubmittedStep
  <2>16. CASE UNCHANGED sandboxPageVars
    <3>1. UNCHANGED <<gate, used, conn, view, asks, loops, calls>>
      BY <2>16 DEF sandboxPageVars
    <3>2. QED
      BY <3>1, PageParts, PageInvariant DEF GatewayKept, LoopsKept
  <2>17. QED
    BY <2>1, <2>2, <2>3, <2>4, <2>5, <2>6, <2>7, <2>8, <2>9, <2>10, <2>11, <2>12, <2>13,
       <2>14, <2>15, <2>16 DEF SandboxPageNext
<1>2. SandboxPageStart => SandboxPageInv
  BY PageInitially DEF SandboxPageStart
<1>3. QED
  BY <1>1, <1>2, PTL DEF SandboxPageSpec

\* Whatever polls, dialogs, loops and other users do, and however late their
\* answers come, the panel of the sandbox page shows a sandbox of the list, a
\* created one is selected as soon as it is listed, and a page that says it is
\* connecting has a loop that will end it.
THEOREM PageTheorem == SandboxPageSpec => [](SandboxPageTypeOK /\ SandboxSelected)
<1>1. SandboxPageInv => SandboxPageTypeOK /\ SandboxSelected
  BY DEF SandboxPageInv
<1>2. QED
  BY <1>1, PageAlways, PTL

-----------------------------------------------------------------------------
(***************************************************************************)
(* The template explorer.                                                  *)
(***************************************************************************)

LEMMA PackageFacts ==
  ASSUME NEW id \in PackageIds
  PROVE  /\ id # Unnamed /\ PackageOf(id).id = id
         /\ PackageOf(id).templates # <<>> =>
              PackageOf(id).templates[1] \in Templates(id)
<1> DEFINE Row == [id : STRING \ {Unnamed}, name : STRING, user : BOOLEAN,
                   templates : Seq(STRING)]
           i == CHOOSE n \in DOMAIN Library : Library[n].id = id
<1>1. Library \in Seq(Row)
  BY ExplorerConstantsOK
<1>2. i \in DOMAIN Library /\ Library[i].id = id
  BY DEF PackageIds
<1> HIDE DEF i
<1>3. Library[i] \in Row
  BY <1>1, <1>2, ElementOfSeq, LenProperties, ZenonT(60)
<1>4. PackageOf(id) = Library[i]
  BY DEF PackageOf, i
<1> DEFINE names == PackageOf(id).templates
<1>5. names \in Seq(STRING) /\ id # Unnamed /\ PackageOf(id).id = id
  BY <1>2, <1>3, <1>4
<1> HIDE DEF names
<1>6. names # <<>> => 1 \in DOMAIN names
  BY <1>5, EmptySeq, LenProperties
<1>7. QED
  BY <1>5, <1>6 DEF Templates, names

LEMMA FirstListedIn ==
  ASSUME NEW S \in SUBSET PackageIds
  PROVE  /\ S = {} => FirstListed(S) = Unnamed
         /\ S # {} => FirstListed(S) \in S
<1>1. ASSUME S # {} PROVE FirstListed(S) \in S
  <2> DEFINE indices == {n \in DOMAIN Library : Library[n].id \in S}
  <2>1. DOMAIN Library = 1..Len(Library) /\ Len(Library) \in Nat
    BY ExplorerConstantsOK, LenProperties
  <2>2. indices \in SUBSET Nat
    BY <2>1
  <2>3. indices # {}
    BY <1>1 DEF PackageIds
  <2>4. PICK n \in indices : \A m \in indices : n <= m
    BY <2>2, <2>3, SmallestElement
  <2>5. /\ n \in DOMAIN Library /\ Library[n].id \in S
        /\ \A j \in 1..(n - 1) : Library[j].id \notin S
    <3>1. n \in 1..Len(Library)
      BY <2>1, <2>4
    <3>2. ASSUME NEW j \in 1..(n - 1), Library[j].id \in S PROVE FALSE
      <4>1. j \in 1..Len(Library) /\ j < n
        BY <2>1, <3>1, <3>2
      <4>2. j \in indices
        BY <2>1, <3>2, <4>1
      <4>3. QED
        BY <2>4, <3>1, <4>1, <4>2
    <3>3. QED
      BY <2>4, <3>2
  <2>6. QED
    BY <1>1, <2>5 DEF FirstListed
<1>2. QED
  BY <1>1 DEF FirstListed

LEMMA TargetIn ==
  ASSUME NEW x
  PROVE  /\ FirstUserPackage(x) \in PackageIds \cup {Unnamed}
         /\ UrlTarget(x) \in PackageIds \cup {Unnamed}
<1>1. \A S \in SUBSET PackageIds : FirstListed(S) \in PackageIds \cup {Unnamed}
  BY FirstListedIn
<1>2. ListedPackages(x) \subseteq PackageIds
  BY DEF ListedPackages
<1>3. FirstUserPackage(x) \in PackageIds \cup {Unnamed}
  BY <1>1, <1>2 DEF FirstUserPackage
<1>4. QED
  BY <1>1, <1>2, <1>3 DEF UrlTarget

\* What every effect leaves as it is, up to the one on the rows.
EffectStage(x) == x \in Explorer /\ MapFilled(x) /\ PickedKnown(x)

KeptBy(x, y) ==
  /\ y.listed = x.listed /\ y.url = x.url /\ y.picked = x.picked
  /\ y.search = x.search /\ y.showSystem = x.showSystem
  /\ y.open = x.open /\ y.closed = x.closed

LEMMA UrlHandledStage ==
  ASSUME NEW y, EffectStage(y),
         y.picked # Unselected =>
           y.url = Unselected \/ y.urlHandled \/ UrlTarget(y) = Unnamed
  PROVE  LET z == UrlHandled(y) IN EffectStage(z) /\ KeptBy(y, z) /\ Addressed(z)
<1> DEFINE t == UrlTarget(y)
           z == [y EXCEPT !.expanded = t, !.loaded = y.loaded \cup {t}, !.urlHandled = TRUE,
                          !.selected = [id |-> t, template |-> y.url.template]]
<1>1. UrlHandled(y) = IF y.url = Unselected \/ y.urlHandled \/ t = Unnamed THEN y ELSE z
  BY DEF UrlHandled
<1>2. t \in PackageIds \cup {Unnamed}
  BY TargetIn
<1>3. CASE y.url = Unselected \/ y.urlHandled \/ t = Unnamed
  BY <1>1, <1>3 DEF KeptBy, Addressed
<1>4. CASE ~(y.url = Unselected \/ y.urlHandled \/ t = Unnamed)
  <2>1. y.picked = Unselected /\ t \in PackageIds /\ y.url \in Addresses
    BY <1>2, <1>4 DEF EffectStage, Explorer
  <2> DEFINE pick == [id |-> t, template |-> y.url.template]
  <2>2. pick \in Picks /\ pick.id = t
    <3>1. y.url.template \in {a.template : a \in Addresses}
      BY <2>1
    <3> HIDE DEF t
    <3>2. y.url.template \in Names
      <4> DEFINE named == {a.template : a \in Addresses}
                 held == UNION {Templates(id) : id \in PackageIds}
      <4>1. Names = {Unnamed} \cup held \cup named
        BY DEF Names
      <4> HIDE DEF named, held
      <4>2. y.url.template \in named
        BY <3>1 DEF named
      <4>3. QED
        BY <4>1, <4>2
    <3>3. QED
      BY <2>1, <3>2 DEF Picks
  <2>3. z = [y EXCEPT !.expanded = t, !.loaded = y.loaded \cup {t}, !.urlHandled = TRUE,
                      !.selected = pick]
    OBVIOUS
  <2> HIDE DEF t, pick, z
  <2>4. /\ z \in Explorer /\ KeptBy(y, z) /\ z.urlHandled = TRUE /\ z.expanded = t
        /\ z.loaded = y.loaded \cup {t} /\ z.selected = pick
        /\ z.known = y.known /\ z.details = y.details
    BY <2>1, <2>2, <2>3 DEF EffectStage, Explorer, KeptBy
  <2>5. MapFilled(z)
    BY <2>2, <2>4 DEF EffectStage, MapFilled
  <2>6. QED
    BY <1>1, <1>4, <2>1, <2>4, <2>5 DEF EffectStage, PickedKnown, Addressed, KeptBy
<1>5. QED
  BY <1>3, <1>4

LEMMA AutoExpandedStage ==
  ASSUME NEW x, NEW y, EffectStage(y)
  PROVE  LET z == AutoExpanded(x, y)
         IN EffectStage(z) /\ KeptBy(y, z) /\ z.urlHandled = y.urlHandled
<1> DEFINE first == FirstUserPackage(y)
           z == [y EXCEPT !.expanded = first, !.loaded = y.loaded \cup {first}]
<1>1. AutoExpanded(x, y) = y \/ (AutoExpanded(x, y) = z /\ first # Unnamed)
  BY DEF AutoExpanded
<1>2. first \in PackageIds \cup {Unnamed}
  BY TargetIn
<1> HIDE DEF first
<1>3. ASSUME first # Unnamed
      PROVE  EffectStage(z) /\ KeptBy(y, z) /\ z.urlHandled = y.urlHandled
  <2>1. /\ z \in Explorer /\ KeptBy(y, z) /\ z.urlHandled = y.urlHandled
        /\ z.expanded = first /\ z.loaded = y.loaded \cup {first}
        /\ z.selected = y.selected /\ z.known = y.known /\ z.details = y.details
    BY <1>2, <1>3 DEF EffectStage, Explorer, KeptBy
  <2> HIDE DEF z
  <2>2. QED
    BY <2>1 DEF EffectStage, MapFilled, PickedKnown, KeptBy
<1>4. QED
  BY <1>1, <1>3 DEF KeptBy

LEMMA DetailsAskedStage ==
  ASSUME NEW x, NEW y, EffectStage(y)
  PROVE  LET z == DetailsAsked(x, y)
         IN EffectStage(z) /\ KeptBy(y, z) /\ z.urlHandled = y.urlHandled
<1> DEFINE details == [id \in PackageIds |->
             IF id \in Subscribed(y) \ Subscribed(x) /\ y.details[id] \in {"none", "failed"}
             THEN "asked" ELSE y.details[id]]
           z == DetailsAsked(x, y)
<1>1. z = [y EXCEPT !.details = details]
  BY DEF DetailsAsked
<1>2. y.details \in [PackageIds -> {"none", "asked", "have", "failed"}]
  BY DEF EffectStage, Explorer
<1>3. /\ details \in [PackageIds -> {"none", "asked", "have", "failed"}]
      /\ \A id \in PackageIds : y.details[id] = "have" => details[id] = "have"
  BY <1>2
<1> HIDE DEF details, z
<1>4. /\ z \in Explorer /\ KeptBy(y, z) /\ z.urlHandled = y.urlHandled
      /\ z.expanded = y.expanded /\ z.loaded = y.loaded
      /\ z.selected = y.selected /\ z.known = y.known /\ z.details = details
  BY <1>1, <1>3 DEF EffectStage, Explorer, KeptBy
<1>5. y.known \subseteq PackageIds
  BY DEF EffectStage, Explorer
<1>6. QED
  BY <1>3, <1>4, <1>5 DEF EffectStage, MapFilled, PickedKnown, KeptBy, z

LEMMA KnownStage ==
  ASSUME NEW y, EffectStage(y)
  PROVE  LET z == Known(y)
         IN EffectStage(z) /\ KeptBy(y, z) /\ z.urlHandled = y.urlHandled
<1> DEFINE new == {id \in Subscribed(y) : y.details[id] = "have"}
           z == Known(y)
<1>1. z = [y EXCEPT !.known = y.known \cup new]
  BY DEF Known
<1>2. new \subseteq {id \in y.loaded : y.details[id] = "have"} /\ y.loaded \subseteq PackageIds
  BY DEF EffectStage, Explorer, MapFilled, Subscribed
<1> HIDE DEF new, z
<1>3. /\ z \in Explorer /\ KeptBy(y, z) /\ z.urlHandled = y.urlHandled
      /\ z.expanded = y.expanded /\ z.loaded = y.loaded /\ z.details = y.details
      /\ z.selected = y.selected /\ z.known = y.known \cup new
  BY <1>1, <1>2 DEF EffectStage, Explorer, KeptBy
<1>4. QED
  BY <1>2, <1>3 DEF EffectStage, MapFilled, PickedKnown, KeptBy, z

LEMMA AutoSelectedTemplateStage ==
  ASSUME NEW y, EffectStage(y)
  PROVE  LET z == AutoSelectedTemplate(y)
         IN EffectStage(z) /\ KeptBy(y, z) /\ z.urlHandled = y.urlHandled
<1> DEFINE first == FirstUserPackage(y)
           pick == [id |-> first, template |-> PackageOf(first).templates[1]]
           z == [y EXCEPT !.selected = pick]
<1>1. \/ AutoSelectedTemplate(y) = y
      \/ /\ AutoSelectedTemplate(y) = z /\ y.selected = Unselected /\ first \in y.known
         /\ PackageOf(first).templates # <<>>
  BY DEF AutoSelectedTemplate
<1>2. ASSUME y.selected = Unselected, first \in y.known, PackageOf(first).templates # <<>>
      PROVE  EffectStage(z) /\ KeptBy(y, z) /\ z.urlHandled = y.urlHandled
  <2>1. first \in PackageIds /\ first \in y.loaded /\ y.picked = Unselected
    BY <1>2 DEF EffectStage, Explorer, MapFilled, PickedKnown
  <2>2. pick \in Picks /\ pick.id = first
    BY <1>2, <2>1, PackageFacts DEF Picks, Names
  <2> HIDE DEF pick, first
  <2>3. /\ z \in Explorer /\ KeptBy(y, z) /\ z.urlHandled = y.urlHandled
        /\ z.expanded = y.expanded /\ z.loaded = y.loaded /\ z.details = y.details
        /\ z.selected = pick /\ z.known = y.known
    BY <2>2 DEF EffectStage, Explorer, KeptBy
  <2> HIDE DEF z
  <2>4. QED
    BY <2>1, <2>2, <2>3 DEF EffectStage, MapFilled, PickedKnown, KeptBy
<1>3. QED
  BY <1>1, <1>2 DEF KeptBy

LEMMA SameView ==
  ASSUME NEW y, NEW z, z.listed = y.listed
  PROVE  /\ z.url = y.url => UrlTarget(z) = UrlTarget(y)
         /\ z.search = y.search /\ z.showSystem = y.showSystem /\ z.known = y.known
              => Rowed(z) = Rowed(y)
<1>1. ListedPackages(z) = ListedPackages(y)
  BY DEF ListedPackages
<1>2. FirstUserPackage(z) = FirstUserPackage(y)
  BY <1>1 DEF FirstUserPackage
<1>3. QED
  BY <1>1, <1>2 DEF UrlTarget, Rowed, MatchesSearch, MatchesWithin

LEMMA RowedIn ==
  ASSUME NEW x
  PROVE  Rowed(x) \subseteq PackageIds
BY DEF Rowed, ListedPackages

LEMMA RowsKeptStage ==
  ASSUME NEW x, NEW y, EffectStage(y), RowOfSelection(x),
         x.selected.id \in x.open \cup x.closed => x.selected.id \in y.open \cup y.closed
  PROVE  LET z == RowsKept(x, y)
         IN /\ EffectStage(z) /\ RowOfSelection(z)
            /\ z.listed = y.listed /\ z.url = y.url /\ z.urlHandled = y.urlHandled
<1> DEFINE opening == {id \in Rowed(y) :
                 \/ id \in y.open /\ id \in Rowed(x)
                 \/ id = y.selected.id /\ (id \notin Rowed(x) \/ id # x.selected.id)}
           closed == {id \in Rowed(y) \cap Rowed(x) : id \in y.closed /\ id = x.selected.id}
           z == RowsKept(x, y)
<1>1. z = [y EXCEPT !.open = opening, !.closed = closed]
  BY DEF RowsKept
<1>2. opening \subseteq PackageIds /\ closed \subseteq PackageIds
  BY RowedIn
<1>3. \A id \in Rowed(y) : id = y.selected.id => id \in opening \cup closed
  BY DEF RowOfSelection
<1> HIDE DEF opening, closed, z
<1>4. /\ z \in Explorer /\ z.listed = y.listed /\ z.url = y.url /\ z.urlHandled = y.urlHandled
      /\ z.search = y.search /\ z.showSystem = y.showSystem /\ z.known = y.known
      /\ z.expanded = y.expanded /\ z.loaded = y.loaded /\ z.details = y.details
      /\ z.selected = y.selected /\ z.picked = y.picked /\ z.open = opening /\ z.closed = closed
  BY <1>1, <1>2 DEF EffectStage, Explorer
<1>5. Rowed(z) = Rowed(y)
  BY <1>4, SameView
<1>6. RowOfSelection(z)
  BY <1>3, <1>4, <1>5 DEF RowOfSelection
<1>7. QED
  BY <1>4, <1>6 DEF EffectStage, MapFilled, PickedKnown, z

\* The effects after a change keep the invariant, when the change itself does
\* and leaves no address behind a pick.
LEMMA EffectsStep ==
  ASSUME NEW x, NEW y, EffectStage(y), RowOfSelection(x),
         y.picked # Unselected =>
           y.url = Unselected \/ y.urlHandled \/ UrlTarget(y) = Unnamed,
         x.selected.id \in x.open \cup x.closed => x.selected.id \in y.open \cup y.closed
  PROVE  LET z == Effects(x, y) IN EffectStage(z) /\ Addressed(z) /\ RowOfSelection(z)
<1> DEFINE a == UrlHandled(y)
           b == AutoExpanded(x, a)
           c == DetailsAsked(x, b)
           d == Known(c)
           e == AutoSelectedTemplate(d)
           f == DetailsAsked(b, e)
           z == RowsKept(x, f)
<1>1. Effects(x, y) = z
  BY DEF Effects
<1>2. EffectStage(a) /\ KeptBy(y, a) /\ Addressed(a)
  BY UrlHandledStage
<1> HIDE DEF a
<1>3. EffectStage(b) /\ KeptBy(a, b) /\ b.urlHandled = a.urlHandled
  BY <1>2, AutoExpandedStage
<1> HIDE DEF b
<1>4. EffectStage(c) /\ KeptBy(b, c) /\ c.urlHandled = b.urlHandled
  BY <1>3, DetailsAskedStage
<1> HIDE DEF c
<1>5. EffectStage(d) /\ KeptBy(c, d) /\ d.urlHandled = c.urlHandled
  BY <1>4, KnownStage
<1> HIDE DEF d
<1>6. EffectStage(e) /\ KeptBy(d, e) /\ e.urlHandled = d.urlHandled
  BY <1>5, AutoSelectedTemplateStage
<1> HIDE DEF e
<1>7. EffectStage(f) /\ KeptBy(e, f) /\ f.urlHandled = e.urlHandled
  BY <1>6, DetailsAskedStage
<1> HIDE DEF f
<1>8. /\ f.open = y.open /\ f.closed = y.closed
      /\ f.listed = a.listed /\ f.url = a.url /\ f.urlHandled = a.urlHandled
  BY <1>2, <1>3, <1>4, <1>5, <1>6, <1>7 DEF KeptBy
<1>9. /\ EffectStage(z) /\ RowOfSelection(z)
      /\ z.listed = f.listed /\ z.url = f.url /\ z.urlHandled = f.urlHandled
  BY <1>7, <1>8, RowsKeptStage
<1> HIDE DEF z
<1>10. UrlTarget(z) = UrlTarget(a)
  BY <1>8, <1>9, SameView
<1>11. Addressed(z)
  BY <1>2, <1>8, <1>9, <1>10 DEF Addressed
<1>12. QED
  BY <1>1, <1>9, <1>11

\* The same for an action of the page: it sets explorer' to the effects.
LEMMA BecomesStep ==
  ASSUME ExplorerInv, NEW y, Becomes(y), EffectStage(y),
         y.picked # Unselected =>
           y.url = Unselected \/ y.urlHandled \/ UrlTarget(y) = Unnamed,
         explorer.selected.id \in explorer.open \cup explorer.closed
           => explorer.selected.id \in y.open \cup y.closed
  PROVE  ExplorerInv'
<1> DEFINE z == Effects(explorer, y)
<1>1. EffectStage(z) /\ Addressed(z) /\ RowOfSelection(z)
  BY EffectsStep DEF ExplorerInv
<1>2. explorer' = z
  BY DEF Becomes
<1> HIDE DEF z
<1>3. EffectStage(explorer') /\ Addressed(explorer') /\ RowOfSelection(explorer')
  BY <1>1, <1>2
<1>4. QED
  BY <1>3 DEF EffectStage, ExplorerInv, ExplorerTypeOK

\* What the invariant gives the actions: the stage they start from, and no
\* address left behind a pick.
LEMMA ExplorerStage ==
  ASSUME ExplorerInv
  PROVE  /\ EffectStage(explorer)
         /\ explorer.picked # Unselected =>
              explorer.url = Unselected \/ explorer.urlHandled \/ UrlTarget(explorer) = Unnamed
BY DEF ExplorerInv, ExplorerTypeOK, EffectStage, PickedKnown, Addressed

LEMMA LibraryListedStep ==
  ASSUME ExplorerInv, LibraryListed
  PROVE  ExplorerInv'
<1> DEFINE y == [explorer EXCEPT !.listed = TRUE]
<1>1. EffectStage(explorer) /\ ~explorer.listed /\ Becomes(y)
  BY ExplorerStage DEF LibraryListed
<1>2. explorer.picked = Unselected
  BY <1>1 DEF EffectStage, PickedKnown
<1>3. /\ y \in Explorer /\ y.picked = Unselected
      /\ y.open = explorer.open /\ y.closed = explorer.closed
      /\ y.known = explorer.known /\ y.loaded = explorer.loaded
      /\ y.details = explorer.details /\ y.expanded = explorer.expanded
      /\ y.selected = explorer.selected
  BY <1>1, <1>2 DEF EffectStage, Explorer
<1> HIDE DEF y
<1>4. EffectStage(y)
  BY <1>1, <1>3 DEF EffectStage, MapFilled, PickedKnown
<1>5. QED
  BY <1>1, <1>3, <1>4, BecomesStep

LEMMA DetailAnsweredStep ==
  ASSUME ExplorerInv, DetailAnswered
  PROVE  ExplorerInv'
<1>1. PICK id \in PackageIds : explorer.details[id] = "asked"
        /\ \E answer \in {"have", "failed"} : Becomes([explorer EXCEPT !.details[id] = answer])
  BY DEF DetailAnswered
<1>2. PICK answer \in {"have", "failed"} : Becomes([explorer EXCEPT !.details[id] = answer])
  BY <1>1
<1> DEFINE details == [explorer.details EXCEPT ![id] = answer]
           y == [explorer EXCEPT !.details = details]
<1>3. Becomes(y)
  BY <1>2
<1>4. /\ EffectStage(explorer)
      /\ explorer.picked # Unselected =>
           explorer.url = Unselected \/ explorer.urlHandled \/ UrlTarget(explorer) = Unnamed
  BY ExplorerStage
<1>5. explorer.details \in [PackageIds -> {"none", "asked", "have", "failed"}]
  BY <1>4 DEF EffectStage, Explorer
<1>6. /\ details \in [PackageIds -> {"none", "asked", "have", "failed"}]
      /\ \A i \in PackageIds : explorer.details[i] = "have" => details[i] = "have"
  BY <1>1, <1>5
<1> HIDE DEF details
<1>7. /\ y \in Explorer /\ y.listed = explorer.listed /\ y.picked = explorer.picked
      /\ y.open = explorer.open /\ y.closed = explorer.closed
      /\ y.known = explorer.known /\ y.loaded = explorer.loaded
      /\ y.details = details /\ y.expanded = explorer.expanded
      /\ y.selected = explorer.selected
      /\ y.url = explorer.url /\ y.urlHandled = explorer.urlHandled
  BY <1>4, <1>6 DEF EffectStage, Explorer
<1> HIDE DEF y
<1>8. EffectStage(y)
  <2>1. explorer.known \subseteq PackageIds
    BY <1>4 DEF EffectStage, Explorer
  <2>2. QED
    BY <1>4, <1>6, <1>7, <2>1 DEF EffectStage, MapFilled, PickedKnown
<1>9. UrlTarget(y) = UrlTarget(explorer)
  BY <1>7, SameView
<1>10. QED
  BY <1>3, <1>4, <1>7, <1>8, <1>9, BecomesStep

\* A change that only opens and closes rows, asks for a package or types.
LEMMA AsidesStep ==
  ASSUME ExplorerInv, NEW y \in Explorer, Becomes(y),
         y.listed = explorer.listed, y.url = explorer.url,
         y.urlHandled = explorer.urlHandled,
         y.picked = explorer.picked, y.selected = explorer.selected,
         y.known = explorer.known, y.details = explorer.details,
         NEW requested \in SUBSET PackageIds, y.loaded = explorer.loaded \cup requested,
         y.expanded \in requested \cup {explorer.expanded},
         explorer.open \cup explorer.closed \subseteq y.open \cup y.closed
  PROVE  ExplorerInv'
<1>1. /\ EffectStage(explorer)
      /\ explorer.picked # Unselected =>
           explorer.url = Unselected \/ explorer.urlHandled \/ UrlTarget(explorer) = Unnamed
  BY ExplorerStage
<1>2. EffectStage(y)
  BY <1>1 DEF EffectStage, MapFilled, PickedKnown
<1>3. UrlTarget(y) = UrlTarget(explorer)
  BY SameView
<1>4. QED
  BY <1>1, <1>2, <1>3, BecomesStep

LEMMA TogglePackageStep ==
  ASSUME ExplorerInv, TogglePackage
  PROVE  ExplorerInv'
<1>1. PICK id \in Rowed(explorer) :
        LET opens == id \notin explorer.open
            asking == opens /\ id \notin explorer.known
        IN Becomes([explorer EXCEPT
             !.open = IF opens THEN @ \cup {id} ELSE @ \ {id},
             !.closed = IF opens THEN @ \ {id} ELSE @ \cup {id},
             !.expanded = IF asking THEN id ELSE @,
             !.loaded = IF asking THEN @ \cup {id} ELSE @])
  BY DEF TogglePackage
<1> DEFINE opens == id \notin explorer.open
           asking == opens /\ id \notin explorer.known
           opening == IF opens THEN explorer.open \cup {id} ELSE explorer.open \ {id}
           closed == IF opens THEN explorer.closed \ {id} ELSE explorer.closed \cup {id}
           requested == IF asking THEN {id} ELSE {}
           y == [explorer EXCEPT
             !.open = opening, !.closed = closed,
             !.expanded = IF asking THEN id ELSE explorer.expanded,
             !.loaded = IF asking THEN explorer.loaded \cup {id} ELSE explorer.loaded]
<1>2. Becomes(y)
  BY <1>1
<1>3. explorer \in Explorer /\ id \in PackageIds
  BY RowedIn DEF ExplorerInv, ExplorerTypeOK
<1>4. /\ opening \in SUBSET PackageIds /\ closed \in SUBSET PackageIds
      /\ explorer.open \cup explorer.closed \subseteq opening \cup closed
  BY <1>3 DEF Explorer
<1>5. requested \in SUBSET PackageIds
  BY <1>3
<1> HIDE DEF opening, closed
<1>6. /\ y \in Explorer /\ y.listed = explorer.listed /\ y.picked = explorer.picked
      /\ y.open = opening /\ y.closed = closed
      /\ y.known = explorer.known /\ y.loaded = explorer.loaded \cup requested
      /\ y.details = explorer.details /\ y.expanded \in requested \cup {explorer.expanded}
      /\ y.selected = explorer.selected
      /\ y.url = explorer.url /\ y.urlHandled = explorer.urlHandled
  BY <1>3, <1>4 DEF Explorer
<1> HIDE DEF y, requested
<1>7. QED
  BY <1>2, <1>4, <1>5, <1>6, AsidesStep

LEMMA SearchStep ==
  ASSUME ExplorerInv, Search
  PROVE  ExplorerInv'
<1>1. PICK typed \in (Searches \cup {NoSearch}) \ {explorer.search} :
        \E shows \in BOOLEAN :
          Becomes([explorer EXCEPT !.search = typed, !.showSystem = shows])
  <2>1. PICK typed \in (Searches \cup {NoSearch}) \ {explorer.search} :
         LET y == [explorer EXCEPT !.search = typed]
             systems == {id \in ListedPackages(y) : ~PackageOf(id).user /\ MatchesSearch(y, id)}
         IN Becomes([y EXCEPT !.showSystem =
              IF typed = NoSearch THEN FALSE
              ELSE IF explorer.search = NoSearch /\ systems # {} THEN TRUE ELSE @])
    BY Zenon DEF Search
  <2> DEFINE y == [explorer EXCEPT !.search = typed]
             systems == {id \in ListedPackages(y) : ~PackageOf(id).user /\ MatchesSearch(y, id)}
             shows == IF typed = NoSearch THEN FALSE
                      ELSE IF explorer.search = NoSearch /\ systems # {} THEN TRUE
                      ELSE explorer.showSystem
  <2>2. explorer \in Explorer
    BY DEF ExplorerInv, ExplorerTypeOK
  <2>3. y.showSystem = explorer.showSystem
    BY <2>2 DEF Explorer
  <2>4. Becomes([y EXCEPT !.showSystem = shows])
    BY <2>1, <2>3
  <2>5. shows \in BOOLEAN
    BY <2>2 DEF Explorer
  <2> HIDE DEF shows
  <2>6. [y EXCEPT !.showSystem = shows] = [explorer EXCEPT !.search = typed, !.showSystem = shows]
    BY <2>2 DEF Explorer
  <2>7. QED
    BY <2>4, <2>5, <2>6
<1>2. PICK shows \in BOOLEAN :
        Becomes([explorer EXCEPT !.search = typed, !.showSystem = shows])
  BY <1>1
<1> DEFINE y == [explorer EXCEPT !.search = typed, !.showSystem = shows]
           requested == {}
<1>3. explorer \in Explorer
  BY DEF ExplorerInv, ExplorerTypeOK
<1>4. /\ y \in Explorer /\ y.listed = explorer.listed /\ y.picked = explorer.picked
      /\ y.open = explorer.open /\ y.closed = explorer.closed
      /\ y.known = explorer.known /\ y.loaded = explorer.loaded \cup requested
      /\ y.details = explorer.details /\ y.expanded \in requested \cup {explorer.expanded}
      /\ y.selected = explorer.selected
      /\ y.url = explorer.url /\ y.urlHandled = explorer.urlHandled
  BY <1>1, <1>2, <1>3 DEF Explorer
<1>5. Becomes(y) /\ requested \in SUBSET PackageIds
  BY <1>2
<1> HIDE DEF y, requested
<1>6. QED
  BY <1>4, <1>5, AsidesStep

LEMMA ToggleSystemStep ==
  ASSUME ExplorerInv, ToggleSystem
  PROVE  ExplorerInv'
<1> DEFINE y == [explorer EXCEPT !.showSystem = ~explorer.showSystem]
           requested == {}
<1>1. explorer \in Explorer
  BY DEF ExplorerInv, ExplorerTypeOK
<1>2. /\ y \in Explorer /\ y.listed = explorer.listed /\ y.picked = explorer.picked
      /\ y.open = explorer.open /\ y.closed = explorer.closed
      /\ y.known = explorer.known /\ y.loaded = explorer.loaded \cup requested
      /\ y.details = explorer.details /\ y.expanded \in requested \cup {explorer.expanded}
      /\ y.selected = explorer.selected
      /\ y.url = explorer.url /\ y.urlHandled = explorer.urlHandled
  BY <1>1 DEF Explorer
<1>3. Becomes(y) /\ requested \in SUBSET PackageIds
  BY DEF ToggleSystem
<1> HIDE DEF y, requested
<1>4. QED
  BY <1>2, <1>3, AsidesStep

LEMMA PickTemplateStep ==
  ASSUME ExplorerInv, PickTemplate
  PROVE  ExplorerInv'
<1>1. PICK s \in Shown(explorer) :
        LET asking == s.id \notin explorer.loaded
        IN Becomes([explorer EXCEPT !.selected = s, !.picked = s,
             !.expanded = IF asking THEN s.id ELSE @,
             !.loaded = IF asking THEN @ \cup {s.id} ELSE @])
  BY DEF PickTemplate
<1>2. /\ EffectStage(explorer)
      /\ explorer.listed /\ s.id \in explorer.known /\ s.id \in PackageIds
      /\ s.template \in Templates(s.id) /\ s \in Picks
  <2>1. PICK id \in Rowed(explorer) \cap explorer.known,
             t \in UNION {Templates(i) : i \in PackageIds} : s = [id |-> id, template |-> t]
    BY DEF Shown, Clickable
  <2>2. s.id = id /\ s.template = t /\ id \in PackageIds /\ t \in Names
    BY <2>1, RowedIn DEF Names
  <2>3. s.template \in Templates(s.id)
    BY DEF Shown
  <2>4. explorer.listed
    BY DEF Rowed, ListedPackages
  <2>5. s \in Picks
    BY <2>1, <2>2 DEF Picks
  <2>6. QED
    BY <2>1, <2>2, <2>3, <2>4, <2>5, ExplorerStage
<1>3. s.id \in explorer.loaded
  BY <1>2 DEF EffectStage, MapFilled
<1> DEFINE y == [explorer EXCEPT !.selected = s, !.picked = s]
<1>4. Becomes(y)
  <2>1. Becomes([explorer EXCEPT !.selected = s, !.picked = s,
                   !.expanded = explorer.expanded, !.loaded = explorer.loaded])
    BY <1>1, <1>3
  <2>2. [explorer EXCEPT !.selected = s, !.picked = s,
           !.expanded = explorer.expanded, !.loaded = explorer.loaded] = y
    BY <1>2 DEF EffectStage, Explorer
  <2>3. QED
    BY <2>1, <2>2
<1>5. /\ y \in Explorer /\ y.listed = explorer.listed /\ y.picked = s
      /\ y.open = explorer.open /\ y.closed = explorer.closed
      /\ y.known = explorer.known /\ y.loaded = explorer.loaded
      /\ y.details = explorer.details /\ y.expanded = explorer.expanded
      /\ y.selected = s
      /\ y.url = explorer.url /\ y.urlHandled = explorer.urlHandled
  BY <1>2 DEF EffectStage, Explorer
<1> HIDE DEF y
<1>6. EffectStage(y)
  BY <1>2, <1>3, <1>5 DEF EffectStage, MapFilled, PickedKnown
<1>7. y.url = Unselected \/ y.urlHandled \/ UrlTarget(y) = Unnamed
  BY <1>2, <1>5, SameView DEF ExplorerInv, Addressed
<1>8. QED
  BY <1>4, <1>5, <1>6, <1>7, BecomesStep

LEMMA ExplorerInitially ==
  ASSUME NEW opening \in BOOLEAN, ExplorerInit(opening)
  PROVE  ExplorerInv
<1>1. /\ explorer.listed = FALSE /\ explorer.details = [id \in PackageIds |-> "none"]
      /\ explorer.known = {} /\ explorer.loaded = {} /\ explorer.expanded = Unnamed
      /\ explorer.selected = Unselected /\ explorer.picked = Unselected
      /\ explorer.url \in {Unselected} \cup Addresses /\ explorer.urlHandled = FALSE
      /\ explorer.search = NoSearch /\ explorer.showSystem = TRUE
      /\ explorer.open = {} /\ explorer.closed = {}
      /\ explorer = [listed |-> explorer.listed, details |-> explorer.details,
                     known |-> explorer.known, loaded |-> explorer.loaded,
                     expanded |-> explorer.expanded, selected |-> explorer.selected,
                     picked |-> explorer.picked, url |-> explorer.url,
                     urlHandled |-> explorer.urlHandled, search |-> explorer.search,
                     showSystem |-> explorer.showSystem, open |-> explorer.open,
                     closed |-> explorer.closed]
  BY DEF ExplorerInit
<1>2. Unselected \in Picks /\ Unselected.id = Unnamed
  BY DEF Unselected, Picks, Names
<1>3. explorer \in Explorer
  BY <1>1, <1>2 DEF Explorer
<1>4. Unnamed \notin PackageIds
  BY PackageFacts
<1>5. MapFilled(explorer) /\ PickedKnown(explorer) /\ Addressed(explorer)
  BY <1>1, <1>2 DEF MapFilled, PickedKnown, Addressed
<1>6. RowOfSelection(explorer)
  BY <1>1, <1>2, <1>4, RowedIn DEF RowOfSelection
<1>7. QED
  BY <1>3, <1>5, <1>6 DEF ExplorerInv, ExplorerTypeOK

LEMMA ExplorerAlways == ExplorerSpec => []ExplorerInv
<1>1. ExplorerInv /\ [ExplorerNext]_explorerVars => ExplorerInv'
  <2> SUFFICES ASSUME ExplorerInv, [ExplorerNext]_explorerVars PROVE ExplorerInv'
    OBVIOUS
  <2>1. CASE LibraryListed
    BY <2>1, LibraryListedStep
  <2>2. CASE DetailAnswered
    BY <2>2, DetailAnsweredStep
  <2>3. CASE TogglePackage
    BY <2>3, TogglePackageStep
  <2>4. CASE PickTemplate
    BY <2>4, PickTemplateStep
  <2>5. CASE Search
    BY <2>5, SearchStep
  <2>6. CASE ToggleSystem
    BY <2>6, ToggleSystemStep
  <2>7. CASE UNCHANGED explorerVars
    BY <2>7 DEF explorerVars, ExplorerInv, ExplorerTypeOK
  <2>8. QED
    BY <2>1, <2>2, <2>3, <2>4, <2>5, <2>6, <2>7 DEF ExplorerNext
<1>2. ExplorerStart => ExplorerInv
  BY ExplorerInitially DEF ExplorerStart
<1>3. QED
  BY <1>1, <1>2, PTL DEF ExplorerSpec

\* Whatever the address asks for and however late the packages answer, the
\* template the user picked stays selected and is shown, its row stays open
\* unless the user closed it, and every package in the map was asked for.
THEOREM ExplorerTheorem == ExplorerSpec => [](ExplorerTypeOK /\ PickKept)
<1>1. ExplorerInv => ExplorerTypeOK /\ PickKept
  <2> SUFFICES ASSUME ExplorerInv PROVE ExplorerTypeOK /\ PickKept
    OBVIOUS
  <2>1. ASSUME explorer.picked # Unselected
        PROVE  ResolvedTemplate(explorer) = explorer.picked
    BY <2>1 DEF ExplorerInv, PickedKnown, ResolvedTemplate
  <2>2. QED
    BY <2>1 DEF ExplorerInv, PickKept, RowOfSelection, MapFilled
<1>2. QED
  BY <1>1, ExplorerAlways, PTL
=============================================================================
