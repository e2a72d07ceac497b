------------------------- MODULE EventStreamProofs -------------------------
(***************************************************************************)
(* Proofs about EventStream for every number of sockets, filters and       *)
(* offsets.  Every action replaces one connection record by the result of  *)
(* an operator on it, so the lemmas are about those operators and the      *)
(* theorems only assemble them.                                            *)
(***************************************************************************)
EXTENDS EventStream, TLAPS

\* Replacing the calls of a connection keeps its type.
LEMMA WithCallsType ==
  ASSUME NEW c \in Connection, NEW S \in SUBSET Call
  PROVE  [c EXCEPT !.calls = S] \in Connection
BY DEF Connection

LEMMA CancelCallType ==
  ASSUME NEW c \in Connection
  PROVE  CancelCall(c) \in Connection
<1> DEFINE C(x) == IF x.id = c.cancel THEN [x EXCEPT !.cancelled = TRUE] ELSE x
<1>1. ASSUME NEW x \in Call PROVE C(x) \in Call
  BY DEF Call
<1>2. c.calls \in SUBSET Call
  BY DEF Connection
<1>3. {C(x) : x \in c.calls} \in SUBSET Call
  BY <1>1, <1>2
<1>4. QED
  BY <1>3, WithCallsType DEF CancelCall

LEMMA UnsubscribeType ==
  ASSUME NEW c \in Connection
  PROVE  UnsubscribeFromEventStream(c) \in Connection
<1>1. CancelCall(c) \in Connection
  BY CancelCallType
<1>2. QED
  BY <1>1 DEF UnsubscribeFromEventStream, Connection

LEMMA OpenCallType ==
  ASSUME NEW c \in Connection, NEW from \in Positions
  PROVE  OpenCall(c, from) \in Connection
<1> DEFINE x == [id |-> c.opened + 1, filter |-> c.filter,
                 cursor |-> from, cancelled |-> FALSE]
           S == c.calls \cup {x}
<1>1. x \in Call
  BY DEF Connection, Call
<1>2. S \in SUBSET Call
  BY <1>1 DEF Connection
<1>3. c.opened + 1 \in Nat
  BY DEF Connection
<1>4. ASSUME NEW T \in SUBSET Call
      PROVE  [c EXCEPT !.isActive = TRUE, !.opened = c.opened + 1,
                       !.cancel = c.opened + 1, !.calls = T] \in Connection
  BY <1>3 DEF Connection
<1>5. [c EXCEPT !.isActive = TRUE, !.opened = c.opened + 1,
                !.cancel = c.opened + 1, !.calls = S] \in Connection
  <2> HIDE DEF S
  <2> QED BY <1>2, <1>4
<1>6. QED
  BY <1>5 DEF OpenCall

LEMMA StartStreamType ==
  ASSUME NEW c \in Connection, NEW up \in BOOLEAN
  PROVE  StartStream(c, up) \in Connection
<1>1. c.lastOffset \in Positions
  BY DEF Connection
<1>2. QED
  BY <1>1, OpenCallType, UnsubscribeType DEF StartStream

LEMMA UpdateStreamFilterType ==
  ASSUME NEW c \in Connection, NEW f \in Filters, NEW up \in BOOLEAN
  PROVE  UpdateStreamFilter(c, f, up) \in Connection
<1>1. CancelCall(c) \in Connection
  BY CancelCallType
<1>2. [CancelCall(c) EXCEPT !.filter = f, !.cancel = NoCall] \in Connection
  BY <1>1 DEF Connection, NoCall
<1>3. QED
  BY <1>2, StartStreamType DEF UpdateStreamFilter

LEMMA OnErrorType ==
  ASSUME NEW c \in Connection
  PROVE  OnError(c) \in Connection
<1>1. c.retries + 1 \in Nat
  BY DEF Connection
<1>2. QED
  BY <1>1 DEF OnError, Connection

LEMMA OnEndType ==
  ASSUME NEW c \in Connection
  PROVE  OnEnd(c) \in Connection
BY DEF OnEnd, Connection

LEMMA OnUpdateType ==
  ASSUME NEW c \in Connection, NEW o \in Offsets
  PROVE  OnUpdate(c, o) \in Connection
<1> DEFINE d == [c EXCEPT !.lastOffset = o,
                          !.sent = IF c.websocket /\ c.sock = "open"
                                   THEN Append(c.sent, o) ELSE c.sent]
<1>1. o \in Positions
  BY ConstantsOK DEF Offsets, Positions
<1>2. (IF c.websocket /\ c.sock = "open"
       THEN Append(c.sent, o) ELSE c.sent) \in Seq(Offsets)
  BY DEF Connection
<1>3. d \in Connection
  BY <1>1, <1>2 DEF Connection
<1>4. QED
  BY <1>3, UnsubscribeType DEF OnUpdate

LEMMA AdvancedType ==
  ASSUME NEW c \in Connection, NEW x \in c.calls, NEW o \in Offsets
  PROVE  Advanced(c, x, o) \in Connection
<1>1. o \in Positions
  BY ConstantsOK DEF Offsets, Positions
<1>2. [x EXCEPT !.cursor = o] \in Call
  BY <1>1 DEF Connection, Call
<1>3. (c.calls \ {x}) \cup {[x EXCEPT !.cursor = o]} \in SUBSET Call
  BY <1>2 DEF Connection
<1>4. QED
  BY <1>3, WithCallsType DEF Advanced

LEMMA SubscribedType ==
  ASSUME NEW c \in Connection, NEW from \in Positions, clientUp \in BOOLEAN
  PROVE  Subscribed(c, from) \in Connection
<1>1. [c EXCEPT !.phase = "live", !.websocket = TRUE,
                !.start = from, !.lastOffset = from] \in Connection
  BY DEF Connection
<1>2. QED
  BY <1>1, StartStreamType DEF Subscribed

-----------------------------------------------------------------------------
(***************************************************************************)
(* Type correctness: one step per action.                                  *)
(***************************************************************************)

\* Init and every action keep every variable in its type.
THEOREM TypeCorrect == Spec => []TypeOK
<1>1. Init => TypeOK
  <2>1. Idle \in Connection
    <3>1. (CHOOSE f \in Filters : TRUE) \in Filters
      BY ConstantsOK
    <3>2. <<>> \in Seq(Offsets) /\ 0 \in Positions
      BY ConstantsOK DEF Positions
    <3>3. QED
      BY <3>1, <3>2 DEF Idle, Connection, NoCall
  <2>2. QED
    BY <2>1, ConstantsOK DEF Init, TypeOK
<1>2. TypeOK /\ [Next]_vars => TypeOK'
  <2> SUFFICES ASSUME TypeOK, [Next]_vars PROVE TypeOK'
    OBVIOUS
  <2>0. \A s \in Subs : conn[s] \in Connection
    BY DEF TypeOK
  <2>a. ASSUME NEW s \in Subs, NEW c \in Connection, Become(s, c)
        PROVE  conn' \in [Subs -> Connection]
    BY <2>a DEF TypeOK, Become
  <2>b. ASSUME NEW c \in Connection, NEW x \in c.calls
        PROVE  [c EXCEPT !.calls = c.calls \ {x}] \in Connection
    BY WithCallsType DEF Connection
  <2>c. ASSUME Fault PROVE faults' \in 0..MaxFaults
    BY <2>c, ConstantsOK DEF Fault, TypeOK
  <2>1. ASSUME NEW s \in Subs, NEW f \in Filters, OpenSocket(s, f)
        PROVE  TypeOK'
    <3>1. [conn[s] EXCEPT !.phase = "lookup", !.sock = "open",
                          !.asked = f, !.filter = f] \in Connection
      BY <2>0 DEF Connection
    <3>2. QED
      BY <2>1, <2>a, <3>1 DEF OpenSocket, TypeOK
  <2>2. ASSUME NEW s \in Subs, SubscribeToEventStream(s)
        PROVE  TypeOK'
    <3>1. StartOffset \in Positions
      BY ConstantsOK DEF StartOffset, TypeOK
    <3>2. Subscribed(conn[s], StartOffset) \in Connection
      BY <2>0, <3>1, SubscribedType DEF TypeOK
    <3>3. QED
      BY <2>2, <2>a, <3>2 DEF SubscribeToEventStream, TypeOK
  <2>3. ASSUME NEW s \in Subs, NEW f \in Filters, NEW o \in Positions,
               SubscribeFromOffset(s, f, o)
        PROVE  TypeOK'
    <3> DEFINE c == [conn[s] EXCEPT !.sock = "open", !.asked = f, !.filter = f]
    <3>1. c \in Connection
      BY <2>0, ZenonT(60) DEF Connection
    <3>2. Subscribed(c, o) \in Connection
      BY <3>1, SubscribedType DEF TypeOK
    <3>3. QED
      BY <2>3, <2>a, <3>2 DEF SubscribeFromOffset, TypeOK
  <2>4. ASSUME NEW s \in Subs, Data(s)
        PROVE  TypeOK'
    <3>1. PICK x \in conn[s].calls, o \in Offsets \ Unmappable :
            /\ Become(s, OnUpdate(Advanced(conn[s], x, o), o))
            /\ cached' = IF o \in Passes[conn[s].filter]
                         THEN [cached EXCEPT ![s] = o] ELSE cached
            /\ UNCHANGED <<clientUp, faults, updates>>
      BY <2>4 DEF Data
    <3>2. OnUpdate(Advanced(conn[s], x, o), o) \in Connection
      BY <2>0, AdvancedType, OnUpdateType
    <3>3. o \in Positions
      BY ConstantsOK DEF Offsets, Positions
    <3>4. QED
      BY <2>a, <3>1, <3>2, <3>3 DEF TypeOK
  <2>5. ASSUME NEW s \in Subs, MappingError(s)
        PROVE  TypeOK'
    <3>1. PICK x \in conn[s].calls, o \in Unmappable :
            /\ Fault
            /\ Become(s, OnError(Advanced(conn[s], x, o)))
            /\ UNCHANGED <<cached, clientUp, updates>>
      BY <2>5 DEF MappingError
    <3>2. OnError(Advanced(conn[s], x, o)) \in Connection
      BY <2>0, AdvancedType, OnErrorType, ConstantsOK
    <3>3. QED
      BY <2>a, <2>c, <3>1, <3>2 DEF TypeOK
  <2>6. ASSUME NEW s \in Subs, CallFails(s)
        PROVE  TypeOK'
    <3>1. PICK x \in conn[s].calls :
            /\ Fault
            /\ Become(s, OnError([conn[s] EXCEPT !.calls = conn[s].calls \ {x}]))
            /\ UNCHANGED <<cached, clientUp, updates>>
      BY <2>6 DEF CallFails
    <3>2. OnError([conn[s] EXCEPT !.calls = conn[s].calls \ {x}]) \in Connection
      BY <2>0, <2>b, OnErrorType
    <3>3. QED
      BY <2>a, <2>c, <3>1, <3>2 DEF TypeOK
  <2>7. ASSUME NEW s \in Subs, CallCancelled(s)
        PROVE  TypeOK'
    <3>1. PICK x \in conn[s].calls :
            /\ Become(s, OnError([conn[s] EXCEPT !.calls = conn[s].calls \ {x}]))
            /\ UNCHANGED <<cached, clientUp, faults, updates>>
      BY <2>7 DEF CallCancelled
    <3>2. OnError([conn[s] EXCEPT !.calls = conn[s].calls \ {x}]) \in Connection
      BY <2>0, <2>b, OnErrorType
    <3>3. QED
      BY <2>a, <3>1, <3>2 DEF TypeOK
  <2>8. ASSUME NEW s \in Subs, CallEnds(s)
        PROVE  TypeOK'
    <3>1. PICK x \in conn[s].calls :
            /\ Fault
            /\ Become(s, OnEnd([conn[s] EXCEPT !.calls = conn[s].calls \ {x}]))
            /\ UNCHANGED <<cached, clientUp, updates>>
      BY <2>8 DEF CallEnds
    <3>2. OnEnd([conn[s] EXCEPT !.calls = conn[s].calls \ {x}]) \in Connection
      BY <2>0, <2>b, OnEndType
    <3>3. QED
      BY <2>a, <2>c, <3>1, <3>2 DEF TypeOK
  <2>9. ASSUME NEW s \in Subs, RetryTimer(s)
        PROVE  TypeOK'
    <3> DEFINE c == [conn[s] EXCEPT !.retries = conn[s].retries - 1]
    <3>1. conn[s].retries - 1 \in Nat
      BY <2>0, <2>9 DEF RetryTimer, Connection
    <3>2. c \in Connection
      BY <2>0, <3>1 DEF Connection
    <3>3. Reconnect(c) \in Connection
      BY <3>2, StartStreamType DEF Reconnect, TypeOK
    <3>4. QED
      BY <2>9, <2>a, <3>3 DEF RetryTimer, TypeOK
  <2>10. ASSUME NEW s \in Subs, NEW f \in Filters, FilterUpdate(s, f)
         PROVE  TypeOK'
    <3> DEFINE c == [conn[s] EXCEPT !.asked = f]
    <3>1. c \in Connection
      BY <2>0 DEF Connection
    <3>2. UpdateStreamFilter(c, f, clientUp) \in Connection
      BY <3>1, UpdateStreamFilterType DEF TypeOK
    <3>3. QED
      BY <2>10, <2>a, <3>2, ConstantsOK DEF FilterUpdate, TypeOK
  <2>11. ASSUME NEW s \in Subs,
                SocketClosing(s) \/ SocketError(s) \/ SocketClosed(s)
         PROVE  TypeOK'
    <3>1. [conn[s] EXCEPT !.sock = "closing"] \in Connection
      BY <2>0 DEF Connection
    <3>2. [conn[s] EXCEPT !.sock = "closing", !.websocket = FALSE] \in Connection
      BY <2>0 DEF Connection
    <3>3. [conn[s] EXCEPT !.sock = "closed"] \in Connection
      BY <2>0 DEF Connection
    <3>4. OnClose([conn[s] EXCEPT !.sock = "closed"]) \in Connection
      BY <3>3 DEF OnClose, Connection
    <3>5. QED
      BY <2>11, <2>a, <3>1, <3>2, <3>3, <3>4
         DEF SocketClosing, SocketError, SocketClosed, TypeOK
  <2>12. ASSUME NEW s \in Subs, GraceTimer(s)
         PROVE  TypeOK'
    <3>1. [conn[s] EXCEPT !.grace = FALSE] \in Connection
      BY <2>0 DEF Connection
    <3>2. QED
      BY <2>12, <2>a, <3>1, UnsubscribeType DEF GraceTimer, TypeOK
  <2>13. ASSUME Disconnect PROVE TypeOK'
    BY <2>13, <2>0, UnsubscribeType DEF Disconnect, TypeOK
  <2>14. ASSUME Expire PROVE TypeOK'
    BY <2>14 DEF Expire, TypeOK
  <2>15. CASE UNCHANGED vars
    BY <2>15 DEF vars, TypeOK
  <2>16. QED
    BY <2>1, <2>2, <2>3, <2>4, <2>5, <2>6, <2>7, <2>8, <2>9, <2>10, <2>11,
       <2>12, <2>13, <2>14, <2>15 DEF Next
<1>3. QED
  BY <1>1, <1>2, PTL DEF Spec

-----------------------------------------------------------------------------
(***************************************************************************)
(* What the operators do to the inductive invariant.                       *)
(***************************************************************************)

\* cancel() marks calls and changes nothing else.
LEMMA CancelCallFacts ==
  ASSUME NEW c \in Connection
  PROVE  /\ CancelCall(c) = [c EXCEPT !.calls = CancelCall(c).calls]
         /\ \A y \in CancelCall(c).calls : \E x \in c.calls :
              /\ y = (IF x.id = c.cancel THEN [x EXCEPT !.cancelled = TRUE] ELSE x)
              /\ y.cursor = x.cursor
              /\ x.cancelled \/ x.id = c.cancel => y.cancelled
<1> DEFINE C(x) == IF x.id = c.cancel THEN [x EXCEPT !.cancelled = TRUE] ELSE x
           S == {C(x) : x \in c.calls}
<1>1. CancelCall(c) = [c EXCEPT !.calls = S]
  BY DEF CancelCall
<1>2. CancelCall(c).calls = S
  <2> HIDE DEF S
  <2> QED BY <1>1 DEF Connection
<1>3. ASSUME NEW x \in c.calls
      PROVE  C(x).cursor = x.cursor /\ (x.cancelled \/ x.id = c.cancel => C(x).cancelled)
  BY DEF Connection, Call
<1>4. QED
  BY <1>1, <1>2, <1>3

\* With one call at most, cancel() leaves only cancelled calls.
LEMMA CancelCallCancelsAll ==
  ASSUME NEW c \in Connection, OneCallInv(c), c.phase = "live"
  PROVE  /\ c.calls = {} => CancelCall(c).calls = {}
         /\ \A x \in CancelCall(c).calls : x.cancelled
         /\ \A x, y \in CancelCall(c).calls : x = y
<1>1. \A x \in c.calls : x.cancelled \/ x.id = c.cancel
  BY DEF OneCallInv
<1>2. \A x, y \in c.calls : x = y
  BY DEF OneCallInv
<1>3. \A x \in CancelCall(c).calls : x.cancelled
  BY <1>1, CancelCallFacts
<1>4. ASSUME NEW x \in CancelCall(c).calls, NEW y \in CancelCall(c).calls
      PROVE  x = y
  <2> DEFINE C(u) == IF u.id = c.cancel THEN [u EXCEPT !.cancelled = TRUE] ELSE u
  <2> HIDE DEF C
  <2>1. PICK u \in c.calls : x = C(u)
    BY CancelCallFacts DEF C
  <2>2. PICK v \in c.calls : y = C(v)
    BY CancelCallFacts DEF C
  <2>3. QED
    BY <1>2, <2>1, <2>2
<1>5. QED
  BY <1>3, <1>4, CancelCallFacts

LEMMA UnsubscribeInv ==
  ASSUME NEW c \in Connection, ConnInv(c)
  PROVE  ConnInv(UnsubscribeFromEventStream(c))
<1> DEFINE d == UnsubscribeFromEventStream(c)
<1>1. CASE c.phase # "live"
  BY <1>1 DEF UnsubscribeFromEventStream
<1>2. CASE c.phase = "live"
  <2>1. /\ d.phase = "gone" /\ ~d.websocket /\ d.sent = c.sent
        /\ d.lastOffset = c.lastOffset /\ d.calls = CancelCall(c).calls
    BY <1>2, CancelCallType DEF UnsubscribeFromEventStream, CancelCall, Connection
  <2>2. Lifecycle(d) /\ CompleteInv(d)
    BY <2>1 DEF Lifecycle, CompleteInv
  <2>3. ASSUME Unmappable = {} PROVE OneCallInv(d)
    <3>1. OneCallInv(c)
      BY <2>3 DEF ConnInv
    <3>2. QED
      BY <1>2, <2>1, <3>1, CancelCallCancelsAll DEF OneCallInv
  <2>4. ASSUME Unmappable = {} PROVE OrderInv(d)
    BY <2>1, <2>4, CancelCallFacts DEF ConnInv, OrderInv
  <2>5. QED
    BY <2>2, <2>3, <2>4 DEF ConnInv
<1>3. QED
  BY <1>1, <1>2

\* A new call starts at lastOffset, so it has passed nothing unsent.
LEMMA OpenCallInv ==
  ASSUME NEW c \in Connection, ConnInv(c), c.phase = "live", ~c.isActive
  PROVE  ConnInv(OpenCall(c, c.lastOffset))
<1> DEFINE d == OpenCall(c, c.lastOffset)
           x == [id |-> c.opened + 1, filter |-> c.filter,
                 cursor |-> c.lastOffset, cancelled |-> FALSE]
<1>1. /\ d.phase = "live" /\ d.isActive /\ d.cancel = c.opened + 1
      /\ d.calls = c.calls \cup {x} /\ d.sent = c.sent /\ d.sock = c.sock
      /\ d.lastOffset = c.lastOffset /\ d.start = c.start
      /\ d.websocket = c.websocket
  BY DEF OpenCall, Connection
<1>2. x.id = c.opened + 1 /\ x.cursor = c.lastOffset
  OBVIOUS
<1> HIDE DEF d, x
<1>3. Lifecycle(d)
  BY <1>1 DEF ConnInv, Lifecycle
<1>4. ASSUME NEW o \in Offsets, Reached(d, o) PROVE Reached(c, o)
  BY <1>1, <1>2, <1>4 DEF Reached
<1>5. CompleteInv(d)
  BY <1>1, <1>4 DEF ConnInv, CompleteInv, SentSet, Always
<1>6. ASSUME Unmappable = {} PROVE OneCallInv(d) /\ OrderInv(d)
  <2>1. c.calls = {}
    BY <1>6 DEF ConnInv, OneCallInv
  <2>2. c.lastOffset \in Int
    BY DEF Connection, Positions
  <2>3. QED
    BY <1>1, <1>2, <1>6, <2>1, <2>2 DEF ConnInv, OneCallInv, OrderInv
<1>7. QED
  BY <1>3, <1>5, <1>6 DEF ConnInv, d

LEMMA StartStreamInv ==
  ASSUME NEW c \in Connection, ConnInv(c), c.phase = "live", NEW up \in BOOLEAN
  PROVE  ConnInv(StartStream(c, up))
BY OpenCallInv, UnsubscribeInv DEF StartStream

\* A filter change cancels the call and leaves isActive to its callbacks.
LEMMA UpdateStreamFilterInv ==
  ASSUME NEW c \in Connection, ConnInv(c), NEW f \in Filters, NEW up \in BOOLEAN
  PROVE  ConnInv(UpdateStreamFilter(c, f, up))
<1> DEFINE d == [CancelCall(c) EXCEPT !.filter = f, !.cancel = NoCall]
<1>1. CASE c.phase # "live"
  BY <1>1 DEF UpdateStreamFilter
<1>2. CASE c.phase = "live"
  <2>1. /\ d.phase = "live" /\ d.isActive = c.isActive /\ d.sent = c.sent
        /\ d.calls = CancelCall(c).calls /\ d.sock = c.sock
        /\ d.lastOffset = c.lastOffset /\ d.start = c.start
        /\ d.websocket = c.websocket
    BY <1>2, CancelCallType DEF CancelCall, Connection
  <2>2. d \in Connection
    BY CancelCallType DEF Connection, NoCall
  <2> HIDE DEF d
  <2>3. Lifecycle(d)
    BY <1>2, <2>1 DEF ConnInv, Lifecycle
  <2>4. ASSUME NEW o \in Offsets, Reached(d, o) PROVE Reached(c, o)
    BY <2>1, <2>4, CancelCallFacts DEF Reached
  <2>5. CompleteInv(d)
    BY <1>2, <2>1, <2>4 DEF ConnInv, CompleteInv, SentSet, Always
  <2>6. ASSUME Unmappable = {} PROVE OneCallInv(d)
    <3>1. OneCallInv(c)
      BY <2>6 DEF ConnInv
    <3>2. ~c.isActive => c.calls = {}
      BY <1>2, <3>1 DEF OneCallInv
    <3>3. QED
      BY <1>2, <2>1, <3>1, <3>2, CancelCallCancelsAll DEF OneCallInv
  <2>7. ASSUME Unmappable = {} PROVE OrderInv(d)
    BY <2>1, <2>7, CancelCallFacts DEF ConnInv, OrderInv
  <2>8. ConnInv(d)
    BY <2>3, <2>5, <2>6, <2>7 DEF ConnInv
  <2>9. QED
    BY <1>2, <2>1, <2>2, <2>8, StartStreamInv DEF UpdateStreamFilter, d
<1>3. QED
  BY <1>1, <1>2

\* d differs from c in fields the invariant does not read.
LEMMA SameInv ==
  ASSUME NEW c \in Connection, ConnInv(c), NEW d,
         d.phase = c.phase, d.sock = c.sock, d.websocket = c.websocket,
         d.isActive = c.isActive, d.cancel = c.cancel, d.calls = c.calls,
         d.sent = c.sent, d.lastOffset = c.lastOffset, d.start = c.start
  PROVE  ConnInv(d)
BY DEF ConnInv, Lifecycle, CompleteInv, OneCallInv, OrderInv, Reached, SentSet

\* The end of a call: with one call at most, none is left.
LEMMA CallOverInv ==
  ASSUME NEW c \in Connection, ConnInv(c), NEW x \in c.calls, NEW d,
         d.calls = c.calls \ {x}, ~d.isActive,
         d.phase = c.phase, d.sock = c.sock, d.websocket = c.websocket,
         d.cancel = c.cancel, d.sent = c.sent,
         d.lastOffset = c.lastOffset, d.start = c.start
  PROVE  ConnInv(d)
<1>1. Lifecycle(d)
  BY DEF ConnInv, Lifecycle
<1>2. CompleteInv(d)
  BY DEF ConnInv, CompleteInv, Reached, SentSet
<1>3. ASSUME Unmappable = {} PROVE OneCallInv(d) /\ OrderInv(d)
  <2>1. d.calls = {}
    BY <1>3 DEF ConnInv, OneCallInv
  <2>2. QED
    BY <1>3, <2>1 DEF ConnInv, OneCallInv, OrderInv
<1>4. QED
  BY <1>1, <1>2, <1>3 DEF ConnInv

\* The participant skips no update of Always on a call.
LEMMA AdvancedReached ==
  ASSUME NEW c \in Connection, NEW x \in c.calls, NEW o \in Offsets,
         NextUpdate(x, o), NEW p \in Always, p # o,
         p <= c.lastOffset \/ p <= o \/ \E y \in c.calls \ {x} : p <= y.cursor
  PROVE  Reached(c, p)
<1>1. x.filter \in Filters /\ x.cursor \in Int
  BY DEF Connection, Call, Positions
<1>2. p \in Served[x.filter] /\ p \in Int /\ o \in Int
  BY <1>1 DEF Always, Offsets
<1>3. p <= o => p <= x.cursor
  BY <1>1, <1>2 DEF NextUpdate
<1>4. QED
  BY <1>3 DEF Reached

\* What a connection a is after call x of c has moved to o.
MovedTo(c, x, o, a) ==
  /\ a.phase = c.phase /\ a.sock = c.sock /\ a.websocket = c.websocket
  /\ a.isActive = c.isActive /\ a.cancel = c.cancel /\ a.sent = c.sent
  /\ a.lastOffset = c.lastOffset /\ a.start = c.start /\ a.filter = c.filter
  /\ \A y \in a.calls : \/ y \in c.calls \ {x}
                         \/ /\ y.cursor = o /\ y.id = x.id
                            /\ y.cancelled = x.cancelled
                            /\ y = [x EXCEPT !.cursor = o]
  /\ \E y \in a.calls : y.cursor = o

LEMMA AdvancedFacts ==
  ASSUME NEW c \in Connection, NEW x \in c.calls, NEW o \in Offsets
  PROVE  MovedTo(c, x, o, Advanced(c, x, o))
<1> DEFINE z == [x EXCEPT !.cursor = o]
           S == (c.calls \ {x}) \cup {z}
           a == Advanced(c, x, o)
<1>1. z.cursor = o /\ z.id = x.id /\ z.cancelled = x.cancelled
  BY DEF Connection, Call
<1>2. a = [c EXCEPT !.calls = S]
  BY DEF Advanced
<1> HIDE DEF S, a
<1>3. /\ a.phase = c.phase /\ a.sock = c.sock /\ a.websocket = c.websocket
      /\ a.isActive = c.isActive /\ a.cancel = c.cancel /\ a.sent = c.sent
      /\ a.lastOffset = c.lastOffset /\ a.start = c.start
      /\ a.filter = c.filter /\ a.calls = S
  BY <1>2 DEF Connection
<1>4. QED
  BY <1>1, <1>3 DEF S, a, MovedTo

\* Data that does not reach the clients leaves the invariant alone.
LEMMA AdvancedInv ==
  ASSUME NEW c \in Connection, ConnInv(c), NEW x \in c.calls,
         NEW o \in Offsets, NextUpdate(x, o), o \notin Always
  PROVE  ConnInv(Advanced(c, x, o))
<1> DEFINE a == Advanced(c, x, o)
<1>0. MovedTo(c, x, o, a)
  BY AdvancedFacts
<1> HIDE DEF a
<1>1. Lifecycle(a)
  BY <1>0 DEF MovedTo, ConnInv, Lifecycle
<1>2. ASSUME NEW p \in Always, Reached(a, p) PROVE Reached(c, p)
  <2>1. p # o
    OBVIOUS
  <2>2. p <= c.lastOffset \/ p <= o \/ \E y \in c.calls \ {x} : p <= y.cursor
    BY <1>0, <1>2 DEF MovedTo, Reached
  <2>3. QED
    BY <2>1, <2>2, AdvancedReached
<1>3. CompleteInv(a)
  BY <1>0, <1>2 DEF MovedTo, ConnInv, CompleteInv, SentSet
<1>4. ASSUME Unmappable = {} PROVE OneCallInv(a)
  <2>1. c.calls = {x}
    BY <1>4 DEF ConnInv, OneCallInv
  <2>2. QED
    BY <1>0, <1>4, <2>1 DEF MovedTo, ConnInv, OneCallInv
<1>5. ASSUME Unmappable = {} PROVE OrderInv(a)
  <2>1. c.lastOffset <= x.cursor /\ x.cursor < o
    BY <1>5 DEF ConnInv, OrderInv, NextUpdate
  <2>2. c.lastOffset <= o
    BY <2>1 DEF Connection, Call, Positions, Offsets
  <2>3. QED
    BY <1>0, <1>5, <2>2 DEF MovedTo, ConnInv, OrderInv
<1>6. QED
  BY <1>1, <1>3, <1>4, <1>5 DEF ConnInv, a

\* Writing one more update to the socket.
LEMMA AppendFacts ==
  ASSUME NEW q \in Seq(Offsets), NEW o \in Offsets
  PROVE  /\ DOMAIN Append(q, o) = DOMAIN q \cup {Len(q) + 1}
         /\ \A i \in DOMAIN q : Append(q, o)[i] = q[i] /\ i < Len(q) + 1
         /\ Append(q, o)[Len(q) + 1] = o
         /\ Len(q) + 1 \notin DOMAIN q
OBVIOUS

\* What has been written to a socket are offsets.
LEMMA SentOffsets ==
  ASSUME NEW q \in Seq(Offsets), NEW i \in DOMAIN q
  PROVE  q[i] \in Int /\ i \in Int /\ i <= Len(q)
<1>1. q[i] \in Offsets /\ i \in 1..Len(q)
  OBVIOUS
<1>2. Len(q) \in Nat
  OBVIOUS
<1>3. QED
  BY <1>1, <1>2 DEF Offsets

\* An update written in order to a socket that has received q.
LEMMA AppendOrdered ==
  ASSUME NEW q \in Seq(Offsets), NEW o \in Offsets,
         \A i \in DOMAIN q : q[i] < o,
         \A i, j \in DOMAIN q : i < j => q[i] < q[j]
  PROVE  /\ \A i \in DOMAIN Append(q, o) : Append(q, o)[i] <= o
         /\ \A i, j \in DOMAIN Append(q, o) :
              i < j => Append(q, o)[i] < Append(q, o)[j]
<1> DEFINE r == Append(q, o)
<1>1. \A i \in DOMAIN q : q[i] \in Int /\ i \in Int /\ i <= Len(q)
  BY SentOffsets
<1>2. o \in Int /\ Len(q) \in Int
  BY DEF Offsets
<1>3. /\ DOMAIN r = DOMAIN q \cup {Len(q) + 1}
      /\ \A i \in DOMAIN q : r[i] = q[i]
      /\ r[Len(q) + 1] = o
  BY AppendFacts
<1> HIDE DEF r
<1>4. QED
  BY <1>1, <1>2, <1>3 DEF r

LEMMA DataInv ==
  ASSUME NEW c \in Connection, ConnInv(c), NEW x \in c.calls,
         NEW o \in Offsets \ Unmappable, NextUpdate(x, o)
  PROVE  ConnInv(OnUpdate(Advanced(c, x, o), o))
<1> DEFINE a == Advanced(c, x, o)
           q == IF a.websocket /\ a.sock = "open"
                THEN Append(a.sent, o) ELSE a.sent
           d == [a EXCEPT !.lastOffset = o, !.sent = q]
<1>1. MovedTo(c, x, o, a) /\ a \in Connection
  BY AdvancedFacts, AdvancedType
<1>2. c.filter \in Filters /\ c.sent \in Seq(Offsets)
  BY DEF Connection
<1>3. CASE o \notin Passes[c.filter]
  <2>1. o \notin Always
    BY <1>2, <1>3 DEF Always
  <2>2. OnUpdate(a, o) = a
    BY <1>1, <1>3 DEF OnUpdate, MovedTo
  <2>3. QED
    BY <2>1, <2>2, AdvancedInv
<1>4. CASE o \in Passes[c.filter]
  <2> HIDE DEF a
  <2>1. o \in Positions /\ q \in Seq(Offsets)
    <3>1. o \in Positions
      BY ConstantsOK DEF Offsets, Positions
    <3>2. a.sent \in Seq(Offsets)
      BY <1>1, <1>2 DEF MovedTo
    <3>3. QED
      BY <3>1, <3>2
  <2> HIDE DEF q
  <2>2. d \in Connection
    BY <1>1, <2>1 DEF Connection
  <2>3. /\ d.phase = c.phase /\ d.sock = c.sock /\ d.websocket = c.websocket
        /\ d.isActive = c.isActive /\ d.cancel = c.cancel /\ d.start = c.start
        /\ d.calls = a.calls /\ d.lastOffset = o /\ d.sent = q
    BY <1>1 DEF MovedTo, Connection
  <2>4. q = IF c.websocket /\ c.sock = "open"
            THEN Append(c.sent, o) ELSE c.sent
    BY <1>1 DEF MovedTo, q
  <2> HIDE DEF d
  <2>5. Lifecycle(d)
    BY <2>3 DEF ConnInv, Lifecycle
  <2>6. CompleteInv(d)
    <3> SUFFICES ASSUME d.phase = "live", d.sock = "open",
                        NEW p \in Always, d.start < p, Reached(d, p)
                 PROVE  p \in SentSet(d)
      BY DEF CompleteInv
    <3>1. d.sent = Append(c.sent, o)
      BY <2>3, <2>4 DEF ConnInv, Lifecycle
    <3>2. CASE p = o
      BY <1>2, <3>1, <3>2, AppendFacts DEF SentSet
    <3>3. CASE p # o
      <4>1. p <= o \/ \E y \in c.calls \ {x} : p <= y.cursor
        BY <1>1, <2>3 DEF Reached, MovedTo
      <4>2. Reached(c, p)
        BY <3>3, <4>1, AdvancedReached
      <4>3. p \in SentSet(c)
        BY <2>3, <4>2 DEF ConnInv, CompleteInv
      <4>4. QED
        BY <1>2, <3>1, <4>3, AppendFacts DEF SentSet
    <3>4. QED
      BY <3>2, <3>3
  <2>7. ASSUME Unmappable = {} PROVE OneCallInv(d) /\ OrderInv(d)
    <3>1. c.calls = {x} /\ OneCallInv(c) /\ OrderInv(c)
      BY <2>7 DEF ConnInv, OneCallInv
    <3>2. OneCallInv(d)
      BY <1>1, <2>3, <3>1 DEF MovedTo, OneCallInv
    <3>3. c.lastOffset <= x.cursor /\ x.cursor < o
      BY <3>1 DEF OrderInv, NextUpdate
    <3>4. c.lastOffset \in Int /\ x.cursor \in Int /\ o \in Int
      BY DEF Connection, Call, Positions, Offsets
    <3>5. \A i \in DOMAIN c.sent : c.sent[i] \in Int
      BY <1>2, SentOffsets
    <3>6. \A i \in DOMAIN c.sent : c.sent[i] < o
      BY <3>1, <3>3, <3>4, <3>5 DEF OrderInv
    <3>7. \A y \in d.calls : d.lastOffset <= y.cursor
      BY <1>1, <2>3, <3>1, <3>4 DEF MovedTo
    <3>8. CASE q = Append(c.sent, o)
      <4>1. /\ \A i \in DOMAIN q : q[i] <= o
            /\ \A i, j \in DOMAIN q : i < j => q[i] < q[j]
        <5>1. \A i, j \in DOMAIN c.sent : i < j => c.sent[i] < c.sent[j]
          BY <3>1 DEF OrderInv
        <5>2. QED
          BY <1>2, <3>6, <3>8, <5>1, AppendOrdered
      <4>2. d.sent = q /\ d.lastOffset = o
        BY <2>3
      <4>3. QED
        BY <3>2, <3>7, <4>1, <4>2, Zenon DEF OrderInv
    <3>9. CASE q = c.sent
      <4>1. \A i \in DOMAIN c.sent : c.sent[i] <= o
        BY <3>4, <3>5, <3>6
      <4>2. d.sent = c.sent /\ d.lastOffset = o
        BY <2>3, <3>9
      <4>3. QED
        BY <3>1, <3>2, <3>7, <4>1, <4>2, Zenon DEF OrderInv
    <3>10. QED
      BY <2>4, <3>2, <3>8, <3>9
  <2>8. ConnInv(d)
    BY <2>5, <2>6, <2>7 DEF ConnInv
  <2>9. OnUpdate(a, o) = d \/ OnUpdate(a, o) = UnsubscribeFromEventStream(d)
    BY <1>1, <1>4 DEF OnUpdate, MovedTo, d, q
  <2>10. QED
    BY <2>2, <2>8, <2>9, UnsubscribeInv DEF a
<1>5. QED
  BY <1>3, <1>4

LEMMA SubscribedInv ==
  ASSUME NEW c \in Connection, NEW from \in Positions, clientUp \in BOOLEAN,
         c.calls = {}, ~c.isActive, c.sent = <<>>
  PROVE  ConnInv(Subscribed(c, from))
<1> DEFINE d == [c EXCEPT !.phase = "live", !.websocket = TRUE,
                          !.start = from, !.lastOffset = from]
<1>1. d \in Connection
  BY DEF Connection
<1>2. /\ d.phase = "live" /\ d.websocket /\ d.calls = {} /\ d.sent = <<>>
      /\ d.start = from /\ d.lastOffset = from
  BY DEF Connection
<1> HIDE DEF d
<1>3. from \in Int
  BY DEF Positions
<1>4. ASSUME NEW o \in Always PROVE ~(d.start < o /\ Reached(d, o))
  <2>1. o \in Int
    BY DEF Always, Offsets
  <2>2. QED
    BY <1>2, <1>3, <2>1 DEF Reached
<1>5. ConnInv(d)
  BY <1>2, <1>4 DEF ConnInv, Lifecycle, CompleteInv, OneCallInv, OrderInv
<1>6. QED
  BY <1>1, <1>2, <1>5, StartStreamInv DEF Subscribed, d

-----------------------------------------------------------------------------
(***************************************************************************)
(* The inductive invariant: one step per action.                           *)
(***************************************************************************)

LEMMA InitInv == Init => IInv
<1> SUFFICES ASSUME Init, NEW s \in Subs PROVE ConnInv(Idle)
  BY DEF Init, IInv
<1>1. /\ Idle.phase = "idle" /\ Idle.calls = {} /\ ~Idle.isActive
      /\ Idle.sent = <<>> /\ ~Idle.websocket
  BY DEF Idle
<1>2. QED
  BY <1>1 DEF ConnInv, Lifecycle, CompleteInv, OneCallInv, OrderInv

LEMMA StepInv == TypeOK /\ IInv /\ [Next]_vars => IInv'
<1> SUFFICES ASSUME TypeOK, IInv, [Next]_vars PROVE IInv'
  OBVIOUS
<1>0. \A s \in Subs : conn[s] \in Connection /\ ConnInv(conn[s])
  BY DEF TypeOK, IInv
<1>a. ASSUME NEW s \in Subs, NEW c, ConnInv(c), Become(s, c)
      PROVE  IInv'
  <2>1. conn' = [conn EXCEPT ![s] = c] /\ DOMAIN conn = Subs
    BY <1>a DEF Become, TypeOK
  <2>2. \A t \in Subs : ConnInv(conn'[t])
    BY <1>0, <1>a, <2>1
  <2>3. QED
    BY <2>2 DEF IInv
<1>1. ASSUME NEW s \in Subs, NEW f \in Filters, OpenSocket(s, f)
      PROVE  IInv'
  <2> DEFINE c == [conn[s] EXCEPT !.phase = "lookup", !.sock = "open",
                                  !.asked = f, !.filter = f]
  <2>1. Lifecycle(conn[s]) /\ conn[s].phase = "idle"
    BY <1>0, <1>1 DEF OpenSocket, ConnInv
  <2>2. /\ c.phase = "lookup" /\ c.calls = {} /\ ~c.isActive
        /\ c.sent = <<>> /\ ~c.websocket
    BY <1>0, <2>1 DEF Lifecycle, Connection
  <2> HIDE DEF c
  <2>3. ConnInv(c)
    BY <2>2 DEF ConnInv, Lifecycle, CompleteInv, OneCallInv, OrderInv
  <2>4. QED
    BY <1>1, <1>a, <2>3 DEF OpenSocket, c
<1>2. ASSUME NEW s \in Subs, SubscribeToEventStream(s)
      PROVE  IInv'
  <2>1. StartOffset \in Positions /\ clientUp \in BOOLEAN
    BY ConstantsOK DEF StartOffset, TypeOK
  <2>2. /\ conn[s].calls = {} /\ ~conn[s].isActive /\ conn[s].sent = <<>>
    BY <1>0, <1>2 DEF SubscribeToEventStream, ConnInv, Lifecycle
  <2>3. ConnInv(Subscribed(conn[s], StartOffset))
    BY <1>0, <2>1, <2>2, SubscribedInv
  <2>4. QED
    BY <1>2, <1>a, <2>3 DEF SubscribeToEventStream
<1>3. ASSUME NEW s \in Subs, NEW f \in Filters, NEW o \in Positions,
             SubscribeFromOffset(s, f, o)
      PROVE  IInv'
  <2> DEFINE c == [conn[s] EXCEPT !.sock = "open", !.asked = f, !.filter = f]
  <2>1. conn[s].calls = {} /\ ~conn[s].isActive /\ conn[s].sent = <<>>
    BY <1>0, <1>3 DEF SubscribeFromOffset, ConnInv, Lifecycle
  <2>2. c \in Connection /\ c.calls = {} /\ ~c.isActive /\ c.sent = <<>>
    BY <1>0, <2>1 DEF Connection
  <2>3. clientUp \in BOOLEAN
    BY DEF TypeOK
  <2>4. ConnInv(Subscribed(c, o))
    BY <2>2, <2>3, SubscribedInv
  <2>5. QED
    BY <1>3, <1>a, <2>4 DEF SubscribeFromOffset
<1>4. ASSUME NEW s \in Subs, Data(s)
      PROVE  IInv'
  <2>1. PICK x \in conn[s].calls, o \in Offsets \ Unmappable :
          /\ NextUpdate(x, o)
          /\ Become(s, OnUpdate(Advanced(conn[s], x, o), o))
    BY <1>4 DEF Data
  <2>2. ConnInv(OnUpdate(Advanced(conn[s], x, o), o))
    BY <1>0, <2>1, DataInv
  <2>3. QED
    BY <1>a, <2>1, <2>2
<1>5. ASSUME NEW s \in Subs, MappingError(s)
      PROVE  IInv'
  <2>1. PICK x \in conn[s].calls, o \in Unmappable :
          /\ NextUpdate(x, o)
          /\ Become(s, OnError(Advanced(conn[s], x, o)))
    BY <1>5 DEF MappingError
  <2> DEFINE a == Advanced(conn[s], x, o)
  <2>2. o \in Offsets /\ o \notin Always /\ Unmappable # {}
    BY <2>1, ConstantsOK DEF Always
  <2>3. a \in Connection /\ ConnInv(a)
    BY <1>0, <2>1, <2>2, AdvancedType, AdvancedInv
  <2> HIDE DEF a
  <2>4. /\ OnError(a).phase = a.phase /\ OnError(a).sock = a.sock
        /\ OnError(a).websocket = a.websocket /\ OnError(a).calls = a.calls
        /\ OnError(a).sent = a.sent /\ OnError(a).start = a.start
        /\ OnError(a).lastOffset = a.lastOffset /\ ~OnError(a).isActive
    BY <2>3 DEF OnError, Connection
  <2>5. ConnInv(OnError(a))
    BY <2>2, <2>3, <2>4 DEF ConnInv, Lifecycle, CompleteInv, Reached, SentSet
  <2>6. QED
    BY <1>a, <2>1, <2>5 DEF a
<1>6. ASSUME NEW s \in Subs, CallFails(s) \/ CallCancelled(s) \/ CallEnds(s)
      PROVE  IInv'
  <2>1. PICK x \in conn[s].calls :
          LET c == [conn[s] EXCEPT !.calls = conn[s].calls \ {x}]
          IN Become(s, OnError(c)) \/ Become(s, OnEnd(c))
    BY <1>6 DEF CallFails, CallCancelled, CallEnds
  <2> DEFINE c == [conn[s] EXCEPT !.calls = conn[s].calls \ {x}]
  <2>2. conn[s] \in Connection /\ ConnInv(conn[s])
    BY <1>0
  <2>3. ConnInv(OnError(c))
    <3>1. /\ OnError(c).calls = conn[s].calls \ {x} /\ ~OnError(c).isActive
          /\ OnError(c).phase = conn[s].phase /\ OnError(c).sock = conn[s].sock
          /\ OnError(c).websocket = conn[s].websocket
          /\ OnError(c).cancel = conn[s].cancel
          /\ OnError(c).sent = conn[s].sent /\ OnError(c).start = conn[s].start
          /\ OnError(c).lastOffset = conn[s].lastOffset
      BY <2>2 DEF OnError, Connection
    <3>2. QED
      BY <2>2, <3>1, CallOverInv
  <2>4. ConnInv(OnEnd(c))
    <3>1. /\ OnEnd(c).calls = conn[s].calls \ {x} /\ ~OnEnd(c).isActive
          /\ OnEnd(c).phase = conn[s].phase /\ OnEnd(c).sock = conn[s].sock
          /\ OnEnd(c).websocket = conn[s].websocket
          /\ OnEnd(c).cancel = conn[s].cancel
          /\ OnEnd(c).sent = conn[s].sent /\ OnEnd(c).start = conn[s].start
          /\ OnEnd(c).lastOffset = conn[s].lastOffset
      BY <2>2 DEF OnEnd, Connection
    <3>2. QED
      BY <2>2, <3>1, CallOverInv
  <2>5. QED
    BY <1>a, <2>1, <2>3, <2>4
<1>7. ASSUME NEW s \in Subs, RetryTimer(s)
      PROVE  IInv'
  <2> DEFINE c == [conn[s] EXCEPT !.retries = conn[s].retries - 1]
  <2>1. conn[s].retries - 1 \in Nat
    BY <1>0, <1>7 DEF RetryTimer, Connection
  <2>2. c \in Connection
    BY <1>0, <2>1 DEF Connection
  <2>3. ConnInv(c)
    BY <1>0, SameInv DEF Connection
  <2>4. clientUp \in BOOLEAN
    BY DEF TypeOK
  <2> HIDE DEF c
  <2>5. ConnInv(Reconnect(c))
    BY <2>2, <2>3, <2>4, StartStreamInv DEF Reconnect
  <2>6. QED
    BY <1>7, <1>a, <2>5 DEF RetryTimer, c
<1>8. ASSUME NEW s \in Subs, NEW f \in Filters, FilterUpdate(s, f)
      PROVE  IInv'
  <2> DEFINE c == [conn[s] EXCEPT !.asked = f]
  <2>1. c \in Connection /\ clientUp \in BOOLEAN
    BY <1>0, ZenonT(60) DEF Connection, TypeOK
  <2>2. ConnInv(c)
    BY <1>0, SameInv DEF Connection
  <2>3. ConnInv(UpdateStreamFilter(c, f, clientUp))
    BY <2>1, <2>2, UpdateStreamFilterInv
  <2>4. QED
    BY <1>8, <1>a, <2>3 DEF FilterUpdate
<1>9. ASSUME NEW s \in Subs,
             SocketClosing(s) \/ SocketError(s) \/ SocketClosed(s)
      PROVE  IInv'
  <2>1. PICK c : Become(s, c) /\ c \in
          {[conn[s] EXCEPT !.sock = "closing"],
           [conn[s] EXCEPT !.sock = "closing", !.websocket = FALSE],
           [conn[s] EXCEPT !.sock = "closed"],
           OnClose([conn[s] EXCEPT !.sock = "closed"])}
    BY <1>9 DEF SocketClosing, SocketError, SocketClosed
  <2>2. /\ c.phase = conn[s].phase /\ c.calls = conn[s].calls
        /\ c.isActive = conn[s].isActive /\ c.sent = conn[s].sent
        /\ c.cancel = conn[s].cancel /\ c.lastOffset = conn[s].lastOffset
        /\ c.websocket => conn[s].websocket
        /\ c.sock # "open"
    BY <1>0, <2>1, ZenonT(60) DEF OnClose, Connection
  <2>3. ConnInv(conn[s])
    BY <1>0
  <2>4. ConnInv(c)
    BY <2>2, <2>3 DEF ConnInv, Lifecycle, CompleteInv, OneCallInv, OrderInv
  <2>5. QED
    BY <1>a, <2>1, <2>4
<1>10. ASSUME NEW s \in Subs, GraceTimer(s)
       PROVE  IInv'
  <2> DEFINE c == [conn[s] EXCEPT !.grace = FALSE]
  <2>1. c \in Connection
    BY <1>0 DEF Connection
  <2>2. ConnInv(c)
    BY <1>0, SameInv DEF Connection
  <2>3. ConnInv(UnsubscribeFromEventStream(c))
    BY <2>1, <2>2, UnsubscribeInv
  <2>4. QED
    BY <1>10, <1>a, <2>2, <2>3 DEF GraceTimer
<1>11. ASSUME Disconnect PROVE IInv'
  <2>1. \A s \in Subs : ConnInv(UnsubscribeFromEventStream(conn[s]))
    BY <1>0, UnsubscribeInv
  <2>2. QED
    BY <1>11, <2>1 DEF Disconnect, IInv
<1>12. CASE Expire \/ UNCHANGED vars
  BY <1>0, <1>12 DEF Expire, vars, IInv
<1>13. QED
  BY <1>1, <1>2, <1>3, <1>4, <1>5, <1>6, <1>7, <1>8, <1>9, <1>10, <1>11,
     <1>12 DEF Next

\* The inductive invariant holds in every reachable state.
THEOREM Invariant == Spec => []IInv
BY InitInv, StepInv, TypeCorrect, PTL DEF Spec

\* While the socket is open, every update up to lastOffset that all filters
\* let through has been written to it: reconnecting at lastOffset skips
\* nothing, with mapping errors and without.
THEOREM NothingMissed == Spec => []NoMissedUpdates
<1>1. IInv => NoMissedUpdates
  BY DEF IInv, ConnInv, CompleteInv, NoMissedUpdates, Reached
<1>2. QED
  BY <1>1, Invariant, PTL

\* As long as every update can be mapped, isActive keeps a subscription from
\* reading the ledger through two calls.
THEOREM SingleCall ==
  ASSUME Unmappable = {}
  PROVE  Spec => []OneCall
<1>1. IInv => OneCall
  BY DEF IInv, ConnInv, OneCallInv, OneCall
<1>2. QED
  BY <1>1, Invariant, PTL

\* As long as every update can be mapped, whatever runs can be cancelled, and
\* nothing runs once a subscription has been unsubscribed.
THEOREM CallsCancellable ==
  ASSUME Unmappable = {}
  PROVE  Spec => []RunningCallsCancellable
<1>1. IInv => RunningCallsCancellable
  BY DEF IInv, ConnInv, OneCallInv, RunningCallsCancellable
<1>2. QED
  BY <1>1, Invariant, PTL

\* As long as every update can be mapped, no update is written to a socket
\* twice or out of order.
THEOREM SentInOrder ==
  ASSUME Unmappable = {}
  PROVE  Spec => []NoDuplicates
<1>1. IInv => NoDuplicates
  BY DEF IInv, ConnInv, OrderInv, NoDuplicates
<1>2. QED
  BY <1>1, Invariant, PTL

-----------------------------------------------------------------------------
(***************************************************************************)
(* What a subscription that has ended still does: an action property.      *)
(***************************************************************************)

Ended(c, d) ==
  c.phase = "gone" => d.phase = "gone" /\ d.sent = c.sent

\* Outside the map, the operators write nothing and bring nothing back.
LEMMA OperatorsEnded ==
  ASSUME NEW c \in Connection, c.phase = "gone", ~c.websocket
  PROVE  /\ \A o \in Offsets : Ended(c, OnUpdate(c, o))
         /\ Ended(c, OnError(c)) /\ Ended(c, OnEnd(c)) /\ Ended(c, OnClose(c))
         /\ UnsubscribeFromEventStream(c) = c /\ Reconnect(c) = c
         /\ \A f \in Filters : UpdateStreamFilter(c, f, clientUp) = c
<1>1. ASSUME NEW o \in Offsets PROVE Ended(c, OnUpdate(c, o))
  <2> DEFINE d == [c EXCEPT !.lastOffset = o,
                            !.sent = IF c.websocket /\ c.sock = "open"
                                     THEN Append(c.sent, o) ELSE c.sent]
  <2>1. d.phase = "gone" /\ d.sent = c.sent
    BY DEF Connection
  <2>2. UnsubscribeFromEventStream(d) = d
    BY <2>1 DEF UnsubscribeFromEventStream
  <2> HIDE DEF d
  <2>3. OnUpdate(c, o) = c \/ OnUpdate(c, o) = d
    BY <2>2 DEF OnUpdate, d
  <2>4. QED
    BY <2>1, <2>3 DEF Ended
<1>2. Ended(c, OnError(c)) /\ Ended(c, OnEnd(c)) /\ Ended(c, OnClose(c))
  BY DEF Ended, OnError, OnEnd, OnClose, Connection
<1>3. QED
  BY <1>1, <1>2
     DEF UnsubscribeFromEventStream, Reconnect, UpdateStreamFilter

\* No callback, timer or message of a subscription that has ended writes to
\* its socket or puts it back in the map.
THEOREM EndedIsSilent == Spec => SilentAfterEnd
<1>1. TypeOK /\ IInv /\ [Next]_vars =>
        \A s \in Subs : conn[s].phase = "gone" =>
          conn'[s].phase = "gone" /\ conn'[s].sent = conn[s].sent
  <2> SUFFICES ASSUME TypeOK, IInv, [Next]_vars, NEW s \in Subs,
                      conn[s].phase = "gone"
               PROVE  Ended(conn[s], conn'[s])
    BY DEF Ended
  <2>1. conn[s] \in Connection /\ ~conn[s].websocket
    BY DEF TypeOK, IInv, ConnInv, Lifecycle
  <2>2. conn'[s] = conn[s] => Ended(conn[s], conn'[s])
    BY DEF Ended
  <2>3. ASSUME NEW t \in Subs, NEW d, Become(t, d)
        PROVE  conn'[s] = IF s = t THEN d ELSE conn[s]
    BY <2>3 DEF Become, TypeOK
  <2>4. ASSUME NEW d \in Connection, d.phase = "gone", ~d.websocket,
               d.sent = conn[s].sent, NEW e, Ended(d, e)
        PROVE  Ended(conn[s], e)
    BY <2>4 DEF Ended
  <2>5. ASSUME NEW t \in Subs, NEW f \in Filters, OpenSocket(t, f)
        PROVE  Ended(conn[s], conn'[s])
    BY <2>2, <2>3, <2>5 DEF OpenSocket
  <2>6. ASSUME NEW t \in Subs, SubscribeToEventStream(t)
        PROVE  Ended(conn[s], conn'[s])
    BY <2>2, <2>3, <2>6 DEF SubscribeToEventStream
  <2>7. ASSUME NEW t \in Subs, NEW f \in Filters, NEW o \in Positions,
               SubscribeFromOffset(t, f, o)
        PROVE  Ended(conn[s], conn'[s])
    BY <2>2, <2>3, <2>7 DEF SubscribeFromOffset
  <2>8. ASSUME NEW t \in Subs, Data(t) \/ MappingError(t)
        PROVE  Ended(conn[s], conn'[s])
    <3>1. PICK x \in conn[t].calls, o \in Offsets :
            \/ Become(t, OnUpdate(Advanced(conn[t], x, o), o))
            \/ Become(t, OnError(Advanced(conn[t], x, o)))
      BY <2>8, ConstantsOK DEF Data, MappingError
    <3>2. CASE s # t
      BY <2>2, <2>3, <3>1, <3>2
    <3>3. CASE s = t
      <4> DEFINE a == Advanced(conn[s], x, o)
      <4>1. /\ a \in Connection /\ a.phase = "gone" /\ ~a.websocket
            /\ a.sent = conn[s].sent
        BY <2>1, <3>3, AdvancedType, AdvancedFacts DEF MovedTo
      <4> HIDE DEF a
      <4>2. Ended(a, OnUpdate(a, o)) /\ Ended(a, OnError(a))
        BY <4>1, OperatorsEnded
      <4>3. Ended(conn[s], OnUpdate(a, o)) /\ Ended(conn[s], OnError(a))
        BY <2>4, <4>1, <4>2
      <4>4. QED
        BY <2>3, <3>1, <3>3, <4>3 DEF a
    <3>4. QED
      BY <3>2, <3>3
  <2>9. ASSUME NEW t \in Subs, CallFails(t) \/ CallCancelled(t) \/ CallEnds(t)
        PROVE  Ended(conn[s], conn'[s])
    <3>1. PICK x \in conn[t].calls :
            LET c == [conn[t] EXCEPT !.calls = conn[t].calls \ {x}]
            IN Become(t, OnError(c)) \/ Become(t, OnEnd(c))
      BY <2>9 DEF CallFails, CallCancelled, CallEnds
    <3>2. CASE s # t
      BY <2>2, <2>3, <3>1, <3>2
    <3>3. CASE s = t
      <4> DEFINE c == [conn[s] EXCEPT !.calls = conn[s].calls \ {x}]
      <4>1. /\ c \in Connection /\ c.phase = "gone" /\ ~c.websocket
            /\ c.sent = conn[s].sent
        BY <2>1 DEF Connection
      <4> HIDE DEF c
      <4>2. Ended(conn[s], OnError(c)) /\ Ended(conn[s], OnEnd(c))
        BY <2>4, <4>1, OperatorsEnded
      <4>3. QED
        BY <2>3, <3>1, <3>3, <4>2 DEF c
    <3>4. QED
      BY <3>2, <3>3
  <2>10. ASSUME NEW t \in Subs, RetryTimer(t)
         PROVE  Ended(conn[s], conn'[s])
    <3> DEFINE c == [conn[s] EXCEPT !.retries = conn[s].retries - 1]
    <3>1. c.phase = "gone" /\ c.sent = conn[s].sent
      BY <2>1 DEF Connection
    <3>2. Reconnect(c) = c
      BY <3>1 DEF Reconnect
    <3> HIDE DEF c
    <3>3. s = t => conn'[s] = c
      BY <2>3, <2>10, <3>2 DEF RetryTimer, c
    <3>4. s # t => conn'[s] = conn[s]
      BY <2>3, <2>10 DEF RetryTimer
    <3>5. QED
      BY <2>2, <3>1, <3>3, <3>4 DEF Ended
  <2>11. ASSUME NEW t \in Subs, NEW f \in Filters, FilterUpdate(t, f)
         PROVE  Ended(conn[s], conn'[s])
    <3> DEFINE c == [conn[s] EXCEPT !.asked = f]
    <3>1. c.phase = "gone" /\ c.sent = conn[s].sent
      BY <2>1 DEF Connection
    <3>2. UpdateStreamFilter(c, f, clientUp) = c
      BY <3>1 DEF UpdateStreamFilter
    <3> HIDE DEF c
    <3>3. s = t => conn'[s] = c
      BY <2>3, <2>11, <3>2 DEF FilterUpdate, c
    <3>4. s # t => conn'[s] = conn[s]
      BY <2>3, <2>11 DEF FilterUpdate
    <3>5. QED
      BY <2>2, <3>1, <3>3, <3>4 DEF Ended
  <2>12. ASSUME NEW t \in Subs,
                \/ SocketClosing(t) \/ SocketError(t)
                \/ SocketClosed(t) \/ GraceTimer(t)
         PROVE  Ended(conn[s], conn'[s])
    <3> DEFINE g == [conn[s] EXCEPT !.grace = FALSE]
    <3>1. CASE s # t
      BY <2>2, <2>3, <2>12, <3>1
         DEF SocketClosing, SocketError, SocketClosed, GraceTimer
    <3>2. CASE s = t
      <4>1. g.phase = "gone" /\ UnsubscribeFromEventStream(g) = g
        BY <2>1 DEF Connection, UnsubscribeFromEventStream
      <4>2. conn'[s] \in
              {[conn[s] EXCEPT !.sock = "closing"],
               [conn[s] EXCEPT !.sock = "closing", !.websocket = FALSE],
               [conn[s] EXCEPT !.sock = "closed"],
               OnClose([conn[s] EXCEPT !.sock = "closed"]), g}
        BY <2>3, <2>12, <3>2, <4>1
           DEF SocketClosing, SocketError, SocketClosed, GraceTimer
      <4>3. QED
        BY <2>1, <4>2 DEF Ended, OnClose, Connection
    <3>3. QED
      BY <3>1, <3>2
  <2>13. ASSUME Disconnect PROVE Ended(conn[s], conn'[s])
    BY <2>1, <2>2, <2>13 DEF Disconnect, UnsubscribeFromEventStream
  <2>14. CASE Expire \/ UNCHANGED vars
    BY <2>2, <2>14 DEF Expire, vars
  <2>15. QED
    BY <2>5, <2>6, <2>7, <2>8, <2>9, <2>10, <2>11, <2>12, <2>13, <2>14
       DEF Next
<1>2. QED
  BY <1>1, TypeCorrect, Invariant, PTL DEF Spec, SilentAfterEnd

-----------------------------------------------------------------------------
(***************************************************************************)
(* The subscriptions implement the feed of Feed, for every number of       *)
(* sockets, filters and offsets, when every update can be mapped.  Most    *)
(* callbacks show the client nothing or the end of its feed; the lemmas    *)
(* say so operator by operator, and what is left is a subscription that    *)
(* starts and an update that arrives.                                      *)
(***************************************************************************)

\* d is c after a callback that writes nothing: the socket may close, the
\* subscription may leave the map, and a new call starts at lastOffset.
Quiet(c, d) ==
  /\ d.start = c.start /\ d.sent = c.sent /\ d.lastOffset = c.lastOffset
  /\ \A y \in d.calls : \/ y.cursor = c.lastOffset
                         \/ \E x \in c.calls : y.cursor = x.cursor
  /\ \/ c.phase \in {"idle", "lookup"} /\ d.phase \in {"idle", "lookup"}
     \/ /\ c.phase = "live" /\ d.phase = "live"
        /\ d.sock = "open" => c.sock = "open"
     \/ c.phase \in {"live", "gone"} /\ d.phase = "gone"

\* Two such callbacks, one after the other.
LEMMA QuietTwice ==
  ASSUME NEW c, NEW d, NEW e, Quiet(c, d), Quiet(d, e)
  PROVE  Quiet(c, e)
BY DEF Quiet

\* Fields that change without showing.
LEMMA SameQuiet ==
  ASSUME NEW c \in Connection, NEW d,
         d.start = c.start, d.sent = c.sent, d.lastOffset = c.lastOffset,
         d.calls \subseteq c.calls, d.phase = c.phase, d.sock = c.sock
  PROVE  Quiet(c, d)
BY DEF Quiet, Connection

LEMMA UnsubscribeQuiet ==
  ASSUME NEW c \in Connection
  PROVE  Quiet(c, UnsubscribeFromEventStream(c))
<1> DEFINE d == UnsubscribeFromEventStream(c)
<1>1. CASE c.phase # "live"
  BY <1>1, SameQuiet DEF UnsubscribeFromEventStream
<1>2. CASE c.phase = "live"
  <2>1. /\ d.phase = "gone" /\ d.sent = c.sent /\ d.start = c.start
        /\ d.lastOffset = c.lastOffset /\ d.calls = CancelCall(c).calls
    BY <1>2, CancelCallType DEF UnsubscribeFromEventStream, CancelCall, Connection
  <2>2. QED
    BY <1>2, <2>1, CancelCallFacts DEF Quiet
<1>3. QED
  BY <1>1, <1>2

LEMMA StartStreamQuiet ==
  ASSUME NEW c \in Connection, NEW up \in BOOLEAN
  PROVE  Quiet(c, StartStream(c, up))
<1> DEFINE d == OpenCall(c, c.lastOffset)
           x == [id |-> c.opened + 1, filter |-> c.filter,
                 cursor |-> c.lastOffset, cancelled |-> FALSE]
<1>1. /\ d.phase = c.phase /\ d.calls = c.calls \cup {x} /\ d.sent = c.sent
      /\ d.sock = c.sock /\ d.lastOffset = c.lastOffset /\ d.start = c.start
  BY DEF OpenCall, Connection
<1>2. x.cursor = c.lastOffset
  OBVIOUS
<1>3. c.phase \in {"idle", "lookup", "live", "gone"}
  BY DEF Connection
<1> HIDE DEF d, x
<1>4. Quiet(c, d)
  BY <1>1, <1>2, <1>3 DEF Quiet
<1>5. QED
  BY <1>4, SameQuiet, UnsubscribeQuiet DEF StartStream, d

LEMMA UpdateStreamFilterQuiet ==
  ASSUME NEW c \in Connection, NEW f \in Filters, NEW up \in BOOLEAN
  PROVE  Quiet(c, UpdateStreamFilter(c, f, up))
<1> DEFINE d == [CancelCall(c) EXCEPT !.filter = f, !.cancel = NoCall]
<1>1. /\ d.phase = c.phase /\ d.sent = c.sent /\ d.sock = c.sock
      /\ d.calls = CancelCall(c).calls /\ d.lastOffset = c.lastOffset
      /\ d.start = c.start
  BY CancelCallType DEF CancelCall, Connection
<1>2. d \in Connection
  BY CancelCallType DEF Connection, NoCall
<1>3. c.phase = "live" => Quiet(c, d)
  <2> HIDE DEF d
  <2> QED BY <1>1, CancelCallFacts DEF Quiet
<1>4. Quiet(d, StartStream(d, up))
  BY <1>2, StartStreamQuiet
<1> HIDE DEF d
<1>5. c.phase = "live" => Quiet(c, StartStream(d, up))
  BY <1>3, <1>4, QuietTwice
<1>6. QED
  BY <1>5, SameQuiet DEF UpdateStreamFilter, d

\* What a quiet callback shows the client: nothing, or the end of its feed.
LEMMA QuietShows ==
  ASSUME NEW c, NEW d, Quiet(c, d)
  PROVE  \/ Seen(d) = Seen(c)
         \/ /\ Seen(c).status = "open"
            /\ Seen(d) = [Seen(c) EXCEPT !.status = "ended"]
BY DEF Quiet, Seen

\* A quiet callback goes nowhere before the start.
LEMMA QuietStarted ==
  ASSUME NEW c, NEW d, Quiet(c, d), StartedAfter(c)
  PROVE  StartedAfter(d)
BY DEF Quiet, StartedAfter

-----------------------------------------------------------------------------
(***************************************************************************)
(* What one callback shows the client.                                     *)
(***************************************************************************)

\* The client sees nothing, or the end of an open feed.
SameOrEnded(f, g) ==
  g = f \/ (f.status = "open" /\ g = [f EXCEPT !.status = "ended"])

Opened(f, g) ==
  /\ f.status = "unopened"
  /\ \E from \in Positions, status \in {"open", "ended"} :
       g = [status |-> status, after |-> from, received |-> <<>>]

Delivered(f, g) ==
  \E u \in Offsets :
    /\ Listening!MayDeliver(f, u)
    /\ g = [f EXCEPT !.received = Append(f.received, u)]

Shows(f, g) == SameOrEnded(f, g) \/ Opened(f, g) \/ Delivered(f, g)

\* d may follow c: nothing is before the start, and the client sees a step of
\* its feed.
Follows(c, d) ==
  StartedAfter(d) /\ (Unmappable = {} => Shows(Seen(c), Seen(d)))

LEMMA QuietFollows ==
  ASSUME NEW c, NEW d, Quiet(c, d), StartedAfter(c)
  PROVE  Follows(c, d)
BY QuietShows, QuietStarted DEF Follows, Shows, SameOrEnded

\* A subscription that starts has received nothing.
LEMMA SubscribedFollows ==
  ASSUME NEW c \in Connection, NEW e \in Connection, NEW from \in Positions,
         clientUp \in BOOLEAN, c.phase \in {"idle", "lookup"},
         e.calls = {}, e.sent = <<>>
  PROVE  Follows(c, Subscribed(e, from))
<1> DEFINE d == [e EXCEPT !.phase = "live", !.websocket = TRUE,
                          !.start = from, !.lastOffset = from]
           g == Subscribed(e, from)
<1>1. d \in Connection
  BY DEF Connection
<1>2. /\ d.phase = "live" /\ d.calls = {} /\ d.sent = <<>>
      /\ d.start = from /\ d.lastOffset = from
  BY DEF Connection
<1> HIDE DEF d
<1>3. Quiet(d, g)
  BY <1>1, StartStreamQuiet DEF Subscribed, d
<1> HIDE DEF g
<1>4. StartedAfter(d)
  BY <1>2 DEF StartedAfter, Positions
<1>5. StartedAfter(g)
  BY <1>3, <1>4, QuietStarted
<1>6. g.phase \in {"live", "gone"} /\ g.start = from /\ g.sent = <<>>
  BY <1>2, <1>3 DEF Quiet
<1>7. Opened(Seen(c), Seen(g))
  BY <1>6 DEF Opened, Seen
<1>8. QED
  BY <1>5, <1>7 DEF Follows, Shows, g

\* A call that moves on shows nothing.
LEMMA AdvancedStarted ==
  ASSUME NEW c \in Connection, StartedAfter(c), NEW x \in c.calls,
         NEW o \in Offsets, NextUpdate(x, o)
  PROVE  /\ StartedAfter(Advanced(c, x, o))
         /\ Seen(Advanced(c, x, o)) = Seen(c)
<1> DEFINE a == Advanced(c, x, o)
<1>1. MovedTo(c, x, o, a)
  BY AdvancedFacts
<1> HIDE DEF a
<1>2. c.start \in Int /\ x.cursor \in Int /\ o \in Int
  BY DEF Connection, Call, Positions, Offsets
<1>3. c.start <= x.cursor /\ x.cursor < o
  BY <1>2 DEF StartedAfter, NextUpdate
<1>4. c.start <= o
  BY <1>2, <1>3
<1>5. \A y \in a.calls : c.start <= y.cursor
  BY <1>1, <1>4 DEF MovedTo, StartedAfter
<1>6. StartedAfter(a)
  BY <1>1, <1>5 DEF MovedTo, StartedAfter
<1>7. Seen(a) = Seen(c)
  BY <1>1 DEF MovedTo, Seen
<1>8. QED
  BY <1>6, <1>7 DEF a

\* Where the feed of an open socket stands: between its start and
\* lastOffset, at the last update it has received.
LEMMA PositionFacts ==
  ASSUME NEW c \in Connection, StartedAfter(c), OrderInv(c)
  PROVE  LET p == Listening!Position(Seen(c)) IN
         /\ p \in Int /\ c.start <= p /\ p <= c.lastOffset
         /\ \A i \in DOMAIN c.sent : c.sent[i] <= p
<1> DEFINE p == Listening!Position(Seen(c))
<1>1. c.sent \in Seq(Offsets) /\ c.start \in Int
  BY DEF Connection, Positions
<1>2. Seen(c).received = c.sent /\ Seen(c).after = c.start
  BY DEF Seen
<1>3. CASE c.sent = <<>>
  BY <1>1, <1>2, <1>3 DEF Listening!Position, StartedAfter
<1>4. CASE c.sent # <<>>
  <2> DEFINE n == Len(c.sent)
  <2>1. n \in DOMAIN c.sent /\ n \in Nat /\ DOMAIN c.sent = 1..n
    BY <1>1, <1>4
  <2>2. p = c.sent[n]
    BY <1>2, <1>4 DEF Listening!Position
  <2>3. \A i \in DOMAIN c.sent : c.sent[i] \in Int
    BY <1>1, SentOffsets
  <2> HIDE DEF n, p
  <2>4. p \in Int /\ c.start <= p /\ p <= c.lastOffset
    BY <1>1, <2>1, <2>2, <2>3 DEF StartedAfter, OrderInv
  <2>5. ASSUME NEW i \in DOMAIN c.sent PROVE c.sent[i] <= p
    <3>1. CASE i = n
      BY <2>2, <2>4, <3>1
    <3>2. CASE i # n
      <4>1. i < n
        BY <2>1, <3>2
      <4>2. c.sent[i] < c.sent[n]
        BY <2>1, <4>1 DEF OrderInv
      <4>3. QED
        BY <2>1, <2>2, <2>3, <4>2
    <3>3. QED
      BY <3>1, <3>2
  <2>6. QED
    BY <2>4, <2>5 DEF p
<1>5. QED
  BY <1>3, <1>4

\* The next update of a call comes after everything the feed has received and
\* leaves out nothing every filter asks for.
LEMMA NextUpdateDeliverable ==
  ASSUME NEW c \in Connection, ConnInv(c), StartedAfter(c), Unmappable = {},
         c.phase = "live", c.sock = "open",
         NEW x \in c.calls, NEW o \in Offsets, NextUpdate(x, o)
  PROVE  Listening!MayDeliver(Seen(c), o)
<1> DEFINE p == Listening!Position(Seen(c))
<1>1. /\ p \in Int /\ c.start <= p /\ p <= c.lastOffset
      /\ \A i \in DOMAIN c.sent : c.sent[i] <= p
  BY PositionFacts DEF ConnInv
<1> HIDE DEF p
<1>2. /\ c.start \in Int /\ c.lastOffset \in Int /\ o \in Int
      /\ x.cursor \in Int /\ x.filter \in Filters
  BY DEF Connection, Call, Positions, Offsets
<1>3. c.lastOffset <= x.cursor /\ x.cursor < o
  BY <1>2 DEF ConnInv, OrderInv, NextUpdate
<1>4. p < o
  BY <1>1, <1>2, <1>3
<1>5. ASSUME NEW r \in Always, p < r, r < o PROVE FALSE
  <2>1. r \in Int /\ r \in Served[x.filter]
    BY <1>2 DEF Always, Offsets
  <2>2. r <= x.cursor
    BY <1>2, <1>5, <2>1 DEF NextUpdate
  <2>3. c.start < r
    BY <1>1, <1>2, <1>5, <2>1
  <2>4. r \in SentSet(c)
    BY <2>2, <2>3 DEF ConnInv, CompleteInv, Reached
  <2>5. r <= p
    BY <1>1, <2>4 DEF SentSet
  <2>6. QED
    BY <1>1, <1>5, <2>1, <2>5
<1>6. Seen(c).status = "open"
  BY DEF Seen
<1>7. QED
  BY <1>4, <1>5, <1>6 DEF Listening!MayDeliver, p

\* An update that arrives is delivered to an open socket; where there is
\* none, nothing shows.
LEMMA DataFollows ==
  ASSUME NEW c \in Connection, ConnInv(c), StartedAfter(c), NEW x \in c.calls,
         NEW o \in Offsets \ Unmappable, NextUpdate(x, o)
  PROVE  Follows(c, OnUpdate(Advanced(c, x, o), o))
<1> DEFINE a == Advanced(c, x, o)
           q == IF a.websocket /\ a.sock = "open"
                THEN Append(a.sent, o) ELSE a.sent
           d == [a EXCEPT !.lastOffset = o, !.sent = q]
           e == OnUpdate(a, o)
<1>1. /\ MovedTo(c, x, o, a) /\ a \in Connection
      /\ StartedAfter(a) /\ Seen(a) = Seen(c)
  BY AdvancedFacts, AdvancedType, AdvancedStarted
<1>2. c.sent \in Seq(Offsets) /\ c.phase \in {"idle", "lookup", "live", "gone"}
  BY DEF Connection
<1>3. c.phase \notin {"idle", "lookup"} /\ (c.websocket => c.phase = "live")
  BY DEF ConnInv, Lifecycle
<1>4. e = a \/ e = d \/ e = UnsubscribeFromEventStream(d)
  BY DEF OnUpdate
<1>5. e = UnsubscribeFromEventStream(d) /\ e # d /\ e # a => ~a.websocket
  BY DEF OnUpdate
<1> HIDE DEF a, e
<1>6. q = IF c.websocket /\ c.sock = "open" THEN Append(c.sent, o) ELSE c.sent
  BY <1>1 DEF MovedTo
<1>7. o \in Positions /\ q \in Seq(Offsets)
  <2>1. o \in Positions
    BY ConstantsOK DEF Offsets, Positions
  <2>2. Append(c.sent, o) \in Seq(Offsets)
    BY <1>2
  <2>3. QED
    BY <1>2, <1>6, <2>1, <2>2
<1> HIDE DEF q
<1>8. /\ d.phase = c.phase /\ d.sock = c.sock /\ d.start = c.start
      /\ d.calls = a.calls /\ d.lastOffset = o /\ d.sent = q
  BY <1>1 DEF MovedTo, Connection
<1>9. d \in Connection
  BY <1>1, <1>7 DEF Connection
<1> HIDE DEF d
<1>10. c.start \in Int /\ x.cursor \in Int /\ o \in Int /\ c.start < o
  <2>1. c.start \in Int /\ x.cursor \in Int /\ o \in Int
    BY DEF Connection, Call, Positions, Offsets
  <2>2. c.start <= x.cursor /\ x.cursor < o
    BY <2>1 DEF StartedAfter, NextUpdate
  <2>3. QED
    BY <2>1, <2>2
<1>11. StartedAfter(d)
  <2>1. \A y \in d.calls : d.start <= y.cursor
    BY <1>1, <1>8 DEF StartedAfter, MovedTo
  <2>2. \A i \in DOMAIN q : d.start < q[i]
    <3>1. \A i \in DOMAIN c.sent : c.start < c.sent[i]
      BY DEF StartedAfter
    <3>2. CASE q = c.sent
      BY <1>8, <3>1, <3>2
    <3>3. CASE q = Append(c.sent, o)
      BY <1>2, <1>8, <1>10, <3>1, <3>3, AppendFacts
    <3>4. QED
      BY <1>6, <3>2, <3>3
  <2>3. QED
    BY <1>8, <1>10, <2>1, <2>2 DEF StartedAfter
<1>12. StartedAfter(e)
  BY <1>1, <1>4, <1>9, <1>11, UnsubscribeQuiet, QuietStarted
<1>13. ASSUME Unmappable = {} PROVE Shows(Seen(c), Seen(e))
  <2>1. CASE e = a
    BY <1>1, <2>1 DEF Shows, SameOrEnded
  <2>2. CASE c.phase = "live" /\ c.sock = "open" /\ e # a
    <3>1. c.websocket
      BY <2>2 DEF ConnInv, Lifecycle
    <3>2. e = d
      BY <1>1, <1>4, <1>5, <2>2, <3>1 DEF MovedTo
    <3>3. Listening!MayDeliver(Seen(c), o)
      BY <1>13, <2>2, NextUpdateDeliverable
    <3>4. q = Append(c.sent, o)
      BY <1>6, <2>2, <3>1
    <3>5. Seen(d) = [Seen(c) EXCEPT !.received = Append(Seen(c).received, o)]
      <4>1. Seen(c) = [status |-> "open", after |-> c.start, received |-> c.sent]
        BY <2>2 DEF Seen
      <4>2. Seen(d) = [status |-> "open", after |-> c.start, received |-> q]
        BY <1>8, <2>2 DEF Seen
      <4>3. ASSUME NEW u, NEW p, NEW r
            PROVE  [status |-> u, after |-> p, received |-> r] =
                   [[status |-> u, after |-> p, received |-> c.sent]
                      EXCEPT !.received = r]
        OBVIOUS
      <4>4. Seen(c).received = c.sent
        BY DEF Seen
      <4>5. Seen(d) = [Seen(c) EXCEPT !.received = q]
        BY <4>1, <4>2, <4>3
      <4>6. QED
        BY <3>4, <4>4, <4>5, Zenon
    <3>6. QED
      BY <3>2, <3>3, <3>5 DEF Shows, Delivered
  <2>3. CASE ~(c.phase = "live" /\ c.sock = "open") /\ e # a
    <3>1. q = c.sent
      BY <1>3, <1>6, <2>3
    <3>2. Seen(d) = Seen(c) /\ Seen(c).status = "ended"
      BY <1>2, <1>3, <1>8, <2>3, <3>1 DEF Seen
    <3>3. Quiet(d, e)
      BY <1>4, <1>9, <2>3, SameQuiet, UnsubscribeQuiet
    <3>4. QED
      BY <3>2, <3>3, QuietShows DEF Shows, SameOrEnded
  <2>4. QED
    BY <2>1, <2>2, <2>3
<1>14. QED
  BY <1>12, <1>13 DEF Follows, a, e

-----------------------------------------------------------------------------
(***************************************************************************)
(* Every step: one case per action.                                        *)
(***************************************************************************)

\* A step changes nothing a client sees, moves one connection to one that
\* may follow it, or disconnects the session.
LEMMA StepFollows ==
  ASSUME TypeOK, IInv, StartInv, [Next]_vars
  PROVE  \/ conn' = conn
         \/ \E s \in Subs : \E d : Become(s, d) /\ Follows(conn[s], d)
         \/ conn' = [s \in Subs |-> UnsubscribeFromEventStream(conn[s])]
<1> DEFINE Goal == \E s \in Subs : \E d : Become(s, d) /\ Follows(conn[s], d)
<1>0. /\ clientUp \in BOOLEAN
      /\ \A s \in Subs : /\ conn[s] \in Connection /\ ConnInv(conn[s])
                         /\ StartedAfter(conn[s])
  BY DEF TypeOK, IInv, StartInv
<1>a. ASSUME NEW s \in Subs, NEW d, Become(s, d), Quiet(conn[s], d)
      PROVE  Goal
  BY <1>0, <1>a, QuietFollows
<1>1. ASSUME NEW s \in Subs, NEW f \in Filters, OpenSocket(s, f)
      PROVE  Goal
  <2> DEFINE c == [conn[s] EXCEPT !.phase = "lookup", !.sock = "open",
                                  !.asked = f, !.filter = f]
  <2>1. Become(s, c) /\ conn[s].phase = "idle"
    BY <1>1 DEF OpenSocket
  <2>2. Quiet(conn[s], c)
    BY <1>0, <2>1 DEF Quiet, Connection
  <2>3. QED
    BY <1>a, <2>1, <2>2
<1>2. ASSUME NEW s \in Subs, SubscribeToEventStream(s)
      PROVE  Goal
  <2>1. StartOffset \in Positions /\ conn[s].phase = "lookup"
    BY <1>2, ConstantsOK DEF StartOffset, TypeOK, SubscribeToEventStream
  <2>2. conn[s].calls = {} /\ conn[s].sent = <<>>
    BY <1>0, <2>1 DEF ConnInv, Lifecycle
  <2>3. Follows(conn[s], Subscribed(conn[s], StartOffset))
    BY <1>0, <2>1, <2>2, SubscribedFollows
  <2>4. QED
    BY <1>2, <2>3 DEF SubscribeToEventStream
<1>3. ASSUME NEW s \in Subs, NEW f \in Filters, NEW o \in Positions,
             SubscribeFromOffset(s, f, o)
      PROVE  Goal
  <2> DEFINE c == [conn[s] EXCEPT !.sock = "open", !.asked = f, !.filter = f]
  <2>1. conn[s].phase = "idle"
    BY <1>3 DEF SubscribeFromOffset
  <2>2. conn[s].calls = {} /\ conn[s].sent = <<>>
    BY <1>0, <2>1 DEF ConnInv, Lifecycle
  <2>3. c \in Connection /\ c.calls = {} /\ c.sent = <<>>
    BY <1>0, <2>2 DEF Connection
  <2>4. Follows(conn[s], Subscribed(c, o))
    BY <1>0, <2>1, <2>3, SubscribedFollows
  <2>5. QED
    BY <1>3, <2>4 DEF SubscribeFromOffset
<1>4. ASSUME NEW s \in Subs, Data(s)
      PROVE  Goal
  <2>1. PICK x \in conn[s].calls, o \in Offsets \ Unmappable :
          /\ NextUpdate(x, o)
          /\ Become(s, OnUpdate(Advanced(conn[s], x, o), o))
    BY <1>4 DEF Data
  <2>2. Follows(conn[s], OnUpdate(Advanced(conn[s], x, o), o))
    BY <1>0, <2>1, DataFollows
  <2>3. QED
    BY <2>1, <2>2
<1>5. ASSUME NEW s \in Subs, MappingError(s)
      PROVE  Goal
  <2>1. PICK x \in conn[s].calls, o \in Unmappable :
          /\ NextUpdate(x, o)
          /\ Become(s, OnError(Advanced(conn[s], x, o)))
    BY <1>5 DEF MappingError
  <2> DEFINE a == Advanced(conn[s], x, o)
  <2>2. a \in Connection /\ StartedAfter(a) /\ Unmappable # {}
    BY <1>0, <2>1, ConstantsOK, AdvancedType, AdvancedStarted
  <2> HIDE DEF a
  <2>3. Quiet(a, OnError(a))
    <3>1. /\ OnError(a).phase = a.phase /\ OnError(a).sock = a.sock
          /\ OnError(a).sent = a.sent /\ OnError(a).start = a.start
          /\ OnError(a).calls = a.calls
          /\ OnError(a).lastOffset = a.lastOffset
      BY <2>2 DEF OnError, Connection
    <3>2. QED
      BY <2>2, <3>1, SameQuiet
  <2>4. Follows(conn[s], OnError(a))
    BY <2>2, <2>3, QuietStarted DEF Follows
  <2>5. QED
    BY <2>1, <2>4 DEF a
<1>6. ASSUME NEW s \in Subs, CallFails(s) \/ CallCancelled(s) \/ CallEnds(s)
      PROVE  Goal
  <2>1. PICK x \in conn[s].calls :
          LET c == [conn[s] EXCEPT !.calls = conn[s].calls \ {x}]
          IN Become(s, OnError(c)) \/ Become(s, OnEnd(c))
    BY <1>6 DEF CallFails, CallCancelled, CallEnds
  <2> DEFINE c == [conn[s] EXCEPT !.calls = conn[s].calls \ {x}]
  <2>2. /\ OnError(c).calls \subseteq conn[s].calls
        /\ OnError(c).phase = conn[s].phase /\ OnError(c).sock = conn[s].sock
        /\ OnError(c).sent = conn[s].sent /\ OnError(c).start = conn[s].start
        /\ OnError(c).lastOffset = conn[s].lastOffset
    BY <1>0 DEF OnError, Connection
  <2>3. /\ OnEnd(c).calls \subseteq conn[s].calls
        /\ OnEnd(c).phase = conn[s].phase /\ OnEnd(c).sock = conn[s].sock
        /\ OnEnd(c).sent = conn[s].sent /\ OnEnd(c).start = conn[s].start
        /\ OnEnd(c).lastOffset = conn[s].lastOffset
    BY <1>0 DEF OnEnd, Connection
  <2> HIDE DEF c
  <2>4. Quiet(conn[s], OnError(c)) /\ Quiet(conn[s], OnEnd(c))
    BY <1>0, <2>2, <2>3, SameQuiet
  <2>5. QED
    BY <1>a, <2>1, <2>4 DEF c
<1>7. ASSUME NEW s \in Subs, RetryTimer(s)
      PROVE  Goal
  <2> DEFINE c == [conn[s] EXCEPT !.retries = conn[s].retries - 1]
  <2>1. conn[s].retries - 1 \in Nat
    BY <1>0, <1>7 DEF RetryTimer, Connection
  <2>2. c \in Connection
    BY <1>0, <2>1 DEF Connection
  <2>3. Quiet(conn[s], c)
    BY <1>0, SameQuiet DEF Connection
  <2>4. Become(s, Reconnect(c))
    BY <1>7 DEF RetryTimer
  <2> HIDE DEF c
  <2>5. Quiet(conn[s], StartStream(c, clientUp))
    BY <1>0, <2>2, <2>3, StartStreamQuiet, QuietTwice
  <2>6. Quiet(conn[s], Reconnect(c))
    BY <2>3, <2>5 DEF Reconnect
  <2>7. QED
    BY <1>a, <2>4, <2>6
<1>8. ASSUME NEW s \in Subs, NEW f \in Filters, FilterUpdate(s, f)
      PROVE  Goal
  <2> DEFINE c == [conn[s] EXCEPT !.asked = f]
  <2>1. c \in Connection
    BY <1>0 DEF Connection
  <2>2. Quiet(conn[s], c)
    BY <1>0, SameQuiet DEF Connection
  <2>3. Become(s, UpdateStreamFilter(c, f, clientUp))
    BY <1>8 DEF FilterUpdate
  <2> HIDE DEF c
  <2>4. Quiet(conn[s], UpdateStreamFilter(c, f, clientUp))
    BY <1>0, <2>1, <2>2, UpdateStreamFilterQuiet, QuietTwice
  <2>5. QED
    BY <1>a, <2>3, <2>4
<1>9. ASSUME NEW s \in Subs,
             SocketClosing(s) \/ SocketError(s) \/ SocketClosed(s)
      PROVE  Goal
  <2>1. PICK c : Become(s, c) /\ c \in
          {[conn[s] EXCEPT !.sock = "closing"],
           [conn[s] EXCEPT !.sock = "closing", !.websocket = FALSE],
           [conn[s] EXCEPT !.sock = "closed"],
           OnClose([conn[s] EXCEPT !.sock = "closed"])}
    BY <1>9 DEF SocketClosing, SocketError, SocketClosed
  <2>2. /\ c.phase = conn[s].phase /\ c.calls = conn[s].calls
        /\ c.sent = conn[s].sent /\ c.start = conn[s].start
        /\ c.lastOffset = conn[s].lastOffset /\ c.sock # "open"
    BY <1>0, <2>1 DEF OnClose, Connection
  <2>3. conn[s].phase \in {"idle", "lookup", "live", "gone"}
    BY <1>0 DEF Connection
  <2>4. Quiet(conn[s], c)
    BY <2>2, <2>3 DEF Quiet
  <2>5. QED
    BY <1>a, <2>1, <2>4
<1>10. ASSUME NEW s \in Subs, GraceTimer(s)
       PROVE  Goal
  <2> DEFINE c == [conn[s] EXCEPT !.grace = FALSE]
  <2>1. c \in Connection
    BY <1>0 DEF Connection
  <2>2. Quiet(conn[s], c)
    BY <1>0, SameQuiet DEF Connection
  <2>3. Quiet(conn[s], UnsubscribeFromEventStream(c))
    BY <2>1, <2>2, UnsubscribeQuiet, QuietTwice
  <2>4. QED
    BY <1>10, <1>a, <2>2, <2>3 DEF GraceTimer
<1>11. CASE Disconnect
  BY <1>11 DEF Disconnect
<1>12. CASE Expire \/ UNCHANGED vars
  BY <1>12 DEF Expire, vars
<1>13. QED
  BY <1>1, <1>2, <1>3, <1>4, <1>5, <1>6, <1>7, <1>8, <1>9, <1>10, <1>11,
     <1>12 DEF Next

-----------------------------------------------------------------------------
(***************************************************************************)
(* The theorems.                                                           *)
(***************************************************************************)

LEMMA StartStep == TypeOK /\ IInv /\ StartInv /\ [Next]_vars => StartInv'
<1> SUFFICES ASSUME TypeOK, IInv, StartInv, [Next]_vars,
                    NEW s \in Subs
             PROVE  StartedAfter(conn'[s])
  BY DEF StartInv
<1>1. /\ conn[s] \in Connection /\ StartedAfter(conn[s])
      /\ DOMAIN conn = Subs
  BY DEF TypeOK, StartInv
<1>2. CASE conn' = conn
  BY <1>1, <1>2
<1>3. CASE \E t \in Subs : \E d : Become(t, d) /\ Follows(conn[t], d)
  <2>1. PICK t \in Subs : \E d : Become(t, d) /\ Follows(conn[t], d)
    BY <1>3
  <2>2. PICK d : Become(t, d) /\ Follows(conn[t], d)
    BY <2>1
  <2>3. conn'[s] = IF s = t THEN d ELSE conn[s]
    BY <1>1, <2>2 DEF Become
  <2>4. QED
    BY <1>1, <2>2, <2>3 DEF Follows
<1>4. CASE conn' = [t \in Subs |-> UnsubscribeFromEventStream(conn[t])]
  BY <1>1, <1>4, UnsubscribeQuiet, QuietStarted
<1>5. QED
  BY <1>2, <1>3, <1>4, StepFollows

\* Nothing of a subscription lies before the offset it was opened at: no call
\* reads from there, lastOffset never falls behind it and no such update is
\* written to the socket, whatever fails, ends or cannot be mapped.
THEOREM NothingBeforeStart == Spec => []StartInv
<1>1. Init => StartInv
  <2>1. StartedAfter(Idle)
    BY DEF StartedAfter, Idle
  <2>2. QED
    BY <2>1 DEF Init, StartInv
<1>2. QED
  BY <1>1, StartStep, TypeCorrect, Invariant, PTL DEF Spec

\* The initial state shows feeds that nobody has opened.
LEMMA FeedInit == Init => Listening!Init
<1>1. Seen(Idle) = Listening!Unopened
  BY DEF Seen, Idle, Listening!Unopened
<1>2. QED
  BY <1>1 DEF Init, Listening!Init

\* What one socket is shown is a step of the feeds.
LEMMA OneShown ==
  ASSUME TypeOK, NEW s \in Subs, NEW d, Become(s, d),
         Shows(Seen(conn[s]), Seen(d))
  PROVE  [Listening!Next]_[t \in Subs |-> Seen(conn[t])]
<1> DEFINE feed == [t \in Subs |-> Seen(conn[t])]
<1>1. conn' = [conn EXCEPT ![s] = d] /\ DOMAIN conn = Subs
  BY DEF Become, TypeOK
<1>2. feed' = [feed EXCEPT ![s] = Seen(d)]
  BY <1>1
<1>3. feed[s] = Seen(conn[s])
  OBVIOUS
<1>4. CASE Seen(d) = Seen(conn[s])
  BY <1>2, <1>3, <1>4
<1>5. CASE /\ Seen(conn[s]).status = "open"
           /\ Seen(d) = [Seen(conn[s]) EXCEPT !.status = "ended"]
  <2>1. feed' = [t \in Subs |-> IF t \in {s}
                                THEN [feed[t] EXCEPT !.status = "ended"]
                                ELSE feed[t]]
    BY <1>2, <1>5
  <2>2. {s} \in SUBSET Subs /\ \A t \in {s} : feed[t].status = "open"
    BY <1>5
  <2>3. Listening!End
    BY <2>1, <2>2 DEF Listening!End
  <2>4. QED
    BY <2>3 DEF Listening!Next
<1>6. CASE Opened(Seen(conn[s]), Seen(d))
  <2>1. PICK from \in Positions, status \in {"open", "ended"} :
          Seen(d) = [status |-> status, after |-> from, received |-> <<>>]
    BY <1>6 DEF Opened
  <2>2. from \in Offsets \cup {0}
    BY ConstantsOK DEF Offsets, Positions
  <2>3. Listening!Open(s, from, status)
    BY <1>2, <1>6, <2>1 DEF Opened, Listening!Open
  <2>4. QED
    BY <2>2, <2>3 DEF Listening!Next
<1>7. CASE Delivered(Seen(conn[s]), Seen(d))
  <2>1. PICK u \in Offsets :
          /\ Listening!MayDeliver(Seen(conn[s]), u)
          /\ Seen(d) = [Seen(conn[s]) EXCEPT
                          !.received = Append(Seen(conn[s]).received, u)]
    BY <1>7 DEF Delivered
  <2>2. Listening!Deliver(s, u)
    BY <1>2, <2>1 DEF Listening!Deliver
  <2>3. QED
    BY <2>2 DEF Listening!Next
<1>8. QED
  BY <1>4, <1>5, <1>6, <1>7 DEF Shows, SameOrEnded

\* A disconnect ends every open feed of the session at once.
LEMMA DisconnectShown ==
  ASSUME TypeOK, conn' = [s \in Subs |-> UnsubscribeFromEventStream(conn[s])]
  PROVE  [Listening!Next]_[t \in Subs |-> Seen(conn[t])]
<1> DEFINE feed == [t \in Subs |-> Seen(conn[t])]
           S == {t \in Subs : Seen(conn'[t]) # Seen(conn[t])}
<1>1. ASSUME NEW t \in S
      PROVE  /\ Seen(conn[t]).status = "open"
             /\ Seen(conn'[t]) = [Seen(conn[t]) EXCEPT !.status = "ended"]
  <2>1. Quiet(conn[t], conn'[t])
    BY UnsubscribeQuiet DEF TypeOK
  <2>2. QED
    BY <2>1, QuietShows
<1>2. \A t \in Subs \ S : Seen(conn'[t]) = Seen(conn[t])
  OBVIOUS
<1> HIDE DEF S
<1>3. feed' = [t \in Subs |-> IF t \in S
                              THEN [feed[t] EXCEPT !.status = "ended"]
                              ELSE feed[t]]
  BY <1>1, <1>2
<1>4. S \in SUBSET Subs /\ \A t \in S : feed[t].status = "open"
  BY <1>1 DEF S
<1>5. Listening!End
  BY <1>3, <1>4 DEF Listening!End
<1>6. QED
  BY <1>5 DEF Listening!Next

\* The subscriptions implement the feed: with every update mappable, a socket
\* receives updates in the order of the ledger, none twice and none left out
\* that every filter asks for, and nothing after its end.
THEOREM StreamImplementsFeed ==
  ASSUME Unmappable = {}
  PROVE  Spec => ImplementsFeed
<1>1. TypeOK /\ IInv /\ StartInv /\ [Next]_vars =>
        [Listening!Next]_[s \in Subs |-> Seen(conn[s])]
  <2> SUFFICES ASSUME TypeOK, IInv, StartInv, [Next]_vars
               PROVE  [Listening!Next]_[s \in Subs |-> Seen(conn[s])]
    OBVIOUS
  <2>1. CASE conn' = conn
    BY <2>1
  <2>2. CASE \E s \in Subs : \E d : Become(s, d) /\ Follows(conn[s], d)
    BY <2>2, OneShown DEF Follows
  <2>3. CASE conn' = [s \in Subs |-> UnsubscribeFromEventStream(conn[s])]
    BY <2>3, DisconnectShown
  <2>4. QED
    BY <2>1, <2>2, <2>3, StepFollows
<1>2. Spec => []TypeOK /\ []IInv /\ []StartInv
  BY TypeCorrect, Invariant, NothingBeforeStart
<1>3. Spec => Listening!Init
  BY FeedInit DEF Spec
<1>4. Spec => [][Listening!Next]_[s \in Subs |-> Seen(conn[s])]
  BY <1>1, <1>2, PTL DEF Spec
<1>5. QED
  BY <1>3, <1>4, PTL DEF ImplementsFeed, Listening!Spec
=============================================================================
