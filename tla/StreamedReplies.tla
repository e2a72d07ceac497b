--------------------------- MODULE StreamedReplies ---------------------------
(***************************************************************************)
(* Routes that answer one request from a server-streamed call: the         *)
(* reassignments list (routes/reassignments.ts), the workflow timeline by  *)
(* trace or workflow id (routes/workflows.ts), the command completions     *)
(* (services/command-completion-service.ts), the recent updates and the    *)
(* update at an offset (services/update-service.ts).                       *)
(*                                                                         *)
(* They share one shape: messages are collected, a limit cancels the call, *)
(* its error or end settles the request, and so does a timer.  They differ *)
(* in what settles, how often, and whether late messages still count.  A   *)
(* cancelled call may still deliver what was under way and then fails with *)
(* CANCELLED; an open one may stay silent for ever.                        *)
(***************************************************************************)
EXTENDS Integers, Sequences, FiniteSets

CONSTANTS
  Reassigned,   \* reassignment ids
  MaxMessages,  \* bound: messages of a call
  MaxLimit      \* bound: the limit of a request

ASSUME RepliesConstantsOK ==
  IsFiniteSet(Reassigned) /\ MaxMessages \in Nat /\ MaxLimit \in Nat \ {0}

Kinds == {"reassignments", "timeline", "completions", "recent", "offset"}

Timed   == Kinds \ {"recent"}
Bounded == {"reassignments", "timeline", "recent"}    \* those with a limit

\* Of a reassignment or of something else; wanted or not; or one that the
\* mapping to an update throws on.
Plain   == {[type |-> t] : t \in {"wanted", "other"}}
Broken  == [type |-> "broken"]
Moves   == [type : {"unassigned", "assigned"}, id : Reassigned]

\* What a call of each kind may bring, every reassignment event at most once.
Messages(kind) ==
  (IF kind = "reassignments" THEN Moves \cup {[type |-> "other"]} ELSE Plain)
    \cup (IF kind = "completions" THEN {} ELSE {Broken})

Scripts(kind) ==
  {s \in UNION {[1..n -> Messages(kind)] : n \in 0..MaxMessages} :
     \A i, j \in DOMAIN s : i # j /\ s[i] = s[j] => s[i] \notin Moves}

VARIABLES
  query,      \* the request
  call,       \* the streamed call
  backlog,     \* what the ledger has for it, in the order of the stream
  given,      \* how many messages of the backlog were delivered
  paired,     \* reassignmentMap
  collected,  \* the list the reply is made of
  replies,    \* every reply that was sent or promise that was settled
  timer,      \* the safety timeout
  faulted     \* history: the call failed or a message was broken

repliesVars == <<query, call, backlog, given, paired, collected, replies,
                 timer, faulted>>

NoQuery == [kind |-> "none", limit |-> 1, wanted |-> {}]

\* A list: what is in it, and how long it is.
EmptyList == [items |-> {}, length |-> 0]

RepliesInit ==
  /\ query = NoQuery
  /\ call = "none" /\ backlog = <<>> /\ given = 0
  /\ paired = {} /\ collected = EmptyList
  /\ replies = <<>> /\ timer = "off" /\ faulted = FALSE

\* What is fixed by the request.
Asked == query.kind # "none"

NoTimeout(kind) ==                   \* mutant: only the completions have one
  IF kind = "completions" THEN "armed" ELSE "off"

SafetyTimeout(kind) == IF kind \in Timed THEN "armed" ELSE "off"

Ask(kind) ==
  /\ ~Asked
  /\ \E limit \in 1..MaxLimit, wanted \in SUBSET Reassigned :
       /\ kind \notin Bounded => limit = 1
       /\ kind # "reassignments" => wanted = {}
       /\ query' = [kind |-> kind, limit |-> limit, wanted |-> wanted]
  /\ call' = "open"
  /\ backlog' \in Scripts(kind)
  /\ timer' = SafetyTimeout(kind)
  /\ UNCHANGED <<given, paired, collected, replies, faulted>>

Cancelled(c) == IF c = "open" THEN "cancelled" ELSE c

-----------------------------------------------------------------------------
(***************************************************************************)
(* Settling a request.                                                     *)
(***************************************************************************)

Settled == replies # <<>>

Status(entry) ==
  IF entry.unassigned /\ ~entry.assigned THEN "in_flight" ELSE "assigned"

ListOf(entries) == {[id |-> e.id, status |-> Status(e)] : e \in entries}

\* finalize() of the reassignments appends the whole map to the list it may
\* have sent before.
Finalized(list) ==
  [items |-> list.items \cup ListOf(paired),
   length |-> list.length + Cardinality(paired)]

\* A reply, and for the record how much of the stream it is made from.
Reply(list, upTo) ==
  [ok |-> TRUE, list |-> list, upTo |-> upTo]

Rejection(upTo) == [ok |-> FALSE, list |-> EmptyList, upTo |-> upTo]

\* The first settling of a promise counts; finalize() replies every time.
Settle ==
  IF query.kind = "reassignments"
  THEN /\ collected' = Finalized(collected)
       /\ replies' = Append(replies, Reply(Finalized(collected), given'))
  ELSE /\ replies' = IF Settled THEN replies
                     ELSE <<Reply(collected, given')>>
       /\ UNCHANGED collected

Reject ==
  /\ replies' = IF Settled THEN replies ELSE <<Rejection(given')>>
  /\ UNCHANGED collected

\* onError: the lists that have a timer make do with what they have.
Failed ==
  IF query.kind \in {"reassignments", "timeline"} THEN Settle ELSE Reject

-----------------------------------------------------------------------------
(***************************************************************************)
(* Messages.                                                               *)
(***************************************************************************)

NextMessage == backlog[given + 1]

Entry(id) ==
  IF \E e \in paired : e.id = id THEN CHOOSE e \in paired : e.id = id
  ELSE [id |-> id, unassigned |-> FALSE, assigned |-> FALSE]

MovedAnew(m) ==                      \* mutant: the other half is forgotten
  [id |-> m.id, unassigned |-> m.type = "unassigned",
   assigned |-> m.type = "assigned"]

\* The entry of a reassignment after one of its two events.
Moved(m) ==
  [Entry(m.id) EXCEPT !.unassigned = @ \/ m.type = "unassigned",
                      !.assigned = @ \/ m.type = "assigned"]

\* An entry of another contract than the one asked for is removed again, and
\* the rest of the handler, the test of the limit, is skipped.
Paired(m) ==
  LET others == {e \in paired : e.id # m.id}
  IN IF m.id \in query.wanted THEN others \cup {Moved(m)} ELSE others

Reassignment ==
  LET m == NextMessage
  IN /\ query.kind = "reassignments" /\ m \in Moves
     /\ paired' = Paired(m)
     /\ call' = IF m.id \in query.wanted
                   /\ Cardinality(paired') >= query.limit
                THEN Cancelled(call) ELSE call
     /\ UNCHANGED <<collected, replies, timer, faulted>>

Collect == [items |-> collected.items \cup {[id |-> given + 1, status |-> "wanted"]},
            length |-> collected.length + 1]

\* Completions have no limit.  Those of an already settled request are still
\* appended to its array, which nobody reads any more.
Collecting ==
  /\ query.kind \in {"timeline", "completions"}
  /\ collected' = Collect
  /\ call' = IF query.kind = "timeline" /\ Collect.length >= query.limit
             THEN Cancelled(call) ELSE call
  /\ UNCHANGED <<paired, replies, timer, faulted>>

\* With its last update the promise is resolved at once and later messages
\* are ignored; the update at an offset is the first one that comes.
Resolving ==
  /\ query.kind \in {"recent", "offset"}
  /\ IF Settled THEN UNCHANGED <<collected, call, replies>>
     ELSE /\ collected' = Collect
          /\ IF Collect.length >= query.limit
             THEN /\ call' = Cancelled(call)
                  /\ replies' = <<Reply(Collect, given')>>
             ELSE UNCHANGED <<call, replies>>
  /\ UNCHANGED <<paired, timer, faulted>>

Ignoring ==
  /\ NextMessage.type = "other"
  /\ UNCHANGED <<paired, collected, call, replies, timer, faulted>>

\* The exception is reported through onError although the call goes on.
MappingFails ==
  /\ NextMessage = Broken
  /\ Failed
  /\ faulted' = TRUE
  /\ UNCHANGED <<paired, call, timer>>

MessageArrives ==
  /\ call \in {"open", "cancelled"} /\ given < Len(backlog)
  /\ given' = given + 1
  /\ \/ Reassignment
     \/ NextMessage.type = "wanted" /\ (Collecting \/ Resolving)
     \/ Ignoring
     \/ MappingFails
  /\ UNCHANGED <<query, backlog>>

-----------------------------------------------------------------------------
(***************************************************************************)
(* The end of the call and the timer.                                      *)
(***************************************************************************)

\* getCompletions clears its timer, the others leave theirs running.
ClearTimer ==
  timer' = IF query.kind = "completions" /\ timer = "armed" THEN "off"
           ELSE timer

CallEnds ==
  /\ call = "open" /\ given = Len(backlog)
  /\ call' = "closed"
  /\ ClearTimer
  /\ UNCHANGED given
  /\ Settle
  /\ UNCHANGED <<query, backlog, paired, faulted>>

CallFails ==
  /\ call \in {"open", "cancelled"}
  /\ call' = "closed"
  /\ faulted' = (faulted \/ call = "open")
  /\ ClearTimer
  /\ UNCHANGED given
  /\ Failed
  /\ UNCHANGED <<query, backlog, paired>>

\* Only the update at an offset looks first whether it is still needed.
TimeoutFires ==
  /\ timer = "armed"
  /\ timer' = "fired"
  /\ call' = IF query.kind = "offset" /\ Settled THEN call ELSE Cancelled(call)
  /\ UNCHANGED given
  /\ Settle
  /\ UNCHANGED <<query, backlog, paired, faulted>>

RepliesNext ==
  \/ \E kind \in Kinds : Ask(kind)
  \/ MessageArrives \/ CallEnds \/ CallFails \/ TimeoutFires

\* A cancelled call fails and timers fire; the participant owes nothing.
CancelledCallEnds == call = "cancelled" /\ CallFails

-----------------------------------------------------------------------------
Item ==
  IF query.kind = "reassignments"
  THEN [id : Reassigned, status : {"in_flight", "assigned"}]
  ELSE [id : 1..MaxMessages, status : {"wanted"}]

RepliesTypeOK ==
  /\ query \in [kind : Kinds \cup {"none"}, limit : 1..MaxLimit,
                wanted : SUBSET Reassigned]
  /\ call \in {"none", "open", "cancelled", "closed"}
  /\ given \in 0..Len(backlog)
  /\ paired \subseteq [id : Reassigned, unassigned : BOOLEAN, assigned : BOOLEAN]
  /\ collected.items \subseteq Item /\ collected.length \in Nat
  /\ timer \in {"off", "armed", "fired"}
  /\ faulted \in BOOLEAN

\* What a reply made of the first n messages should list.
Happened(id, type, n) == \E i \in 1..n : backlog[i] = [type |-> type, id |-> id]

TrueStatus(id, n) ==
  IF Happened(id, "assigned", n) THEN "assigned" ELSE "in_flight"

ShouldList(n) ==
  IF query.kind = "reassignments"
  THEN {[id |-> r, status |-> TrueStatus(r, n)] :
          r \in {w \in query.wanted : \E t \in {"unassigned", "assigned"} :
                                         Happened(w, t, n)}}
  ELSE {[id |-> i, status |-> "wanted"] :
          i \in {j \in 1..n : backlog[j].type = "wanted"}}

\* The reply the client gets is made of what the ledger has: it lists every
\* wanted thing the stream had brought by then, once and in its final state,
\* whatever order the events of a reassignment came in, and it covers the
\* whole range unless the limit was reached, the call failed or the timer
\* fired.
RepliesFaithful ==
  Settled /\ replies[1].ok =>
    LET reply == replies[1]
    IN /\ reply.list.length = Cardinality(reply.list.items)
       /\ reply.list.items = ShouldList(reply.upTo)
       /\ \/ reply.list.items = ShouldList(Len(backlog))
          \/ query.kind \in Bounded \cup {"offset"}
             /\ reply.list.length >= query.limit
          \/ faulted \/ timer = "fired"

\* A request that is due an answer.  The list of recent updates has no
\* timeout and may stay unanswered if the participant falls silent.
RepliesBusy == query.kind \in Timed /\ ~Settled

-----------------------------------------------------------------------------
(***************************************************************************)
(* The inductive invariant behind it.                                      *)
(***************************************************************************)

RepliesSpec == RepliesInit /\ [][RepliesNext]_repliesVars

Heard == Plain \cup {Broken} \cup Moves

ReplyLists == [items : SUBSET Item, length : Nat]

RepliesShape ==
  /\ backlog \in Seq(Heard) /\ Len(backlog) <= MaxMessages
  /\ replies \in Seq([ok : BOOLEAN, list : ReplyLists, upTo : Nat])
  /\ collected \in ReplyLists
  /\ Asked => call # "none"
  /\ ~Asked => /\ call = "none" /\ given = 0 /\ paired = {} /\ timer = "off"
               /\ collected = EmptyList /\ replies = <<>>

\* The map has an entry for each wanted reassignment that was heard of, with
\* the halves that were; the list is made from it when the request settles.
PairedInv ==
  /\ IsFiniteSet(paired)
  /\ ~Settled => collected = EmptyList
  /\ \A e \in paired :
       /\ e.id \in query.wanted /\ (e.unassigned \/ e.assigned)
       /\ e.unassigned <=> Happened(e.id, "unassigned", given)
       /\ e.assigned <=> Happened(e.id, "assigned", given)
  /\ \A w \in query.wanted, t \in {"unassigned", "assigned"} :
       Happened(w, t, given) => \E e \in paired : e.id = w

\* The list has what was wanted so far, as long as messages are collected.
CollectedInv ==
  /\ IsFiniteSet(collected.items)
  /\ collected.length = Cardinality(collected.items)
  /\ query.kind \in {"timeline", "completions"} \/ ~Settled =>
       collected.items = ShouldList(given)

\* A call is cancelled for its limit, for its answer or by the timer.
CancelledInv ==
  call = "cancelled" =>
    CASE query.kind = "reassignments" ->
           timer = "fired" \/ Cardinality(paired) >= query.limit
      [] query.kind = "timeline" ->
           timer = "fired" \/ collected.length >= query.limit
      [] OTHER -> timer = "fired" \/ Settled

RepliesInv ==
  /\ RepliesTypeOK /\ RepliesShape
  /\ IF query.kind = "reassignments" THEN PairedInv ELSE CollectedInv
  /\ CancelledInv /\ RepliesFaithful
=============================================================================
