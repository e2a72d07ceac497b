-------------------------- MODULE TransactionDetail --------------------------
(***************************************************************************)
(* How a transaction becomes the tree and the state diff a user sees:      *)
(* mapTransactionToDetail and computeStateDiff of update-service.ts, the   *)
(* enrichment of GET /api/v1/transactions/:updateId, the normalisation of  *)
(* an engine's trace (routes/trace.ts) and the tree drawn by               *)
(* transaction-tree.tsx.  A participant describes a transaction in one of  *)
(* several shapes, only some of which tell which event is under which.     *)
(***************************************************************************)
EXTENDS EventTree, FiniteSets
LOCAL INSTANCE SequencesExt

CONSTANT MaxTxEvents       \* bound: the events of a transaction

ASSUME DetailConstantsOK == MaxTxEvents \in Nat

\* How the events come: by id with their children (Canton before 3.4), as a
\* flat list whose ids may collide (3.4), as the flat list of the net effect
\* (ACS_DELTA), and by id from the engine of the debugger.
Shapes == {"byId", "flat", "delta", "engine"}

VARIABLES
  tx,      \* the transaction: its events, in the order of the ledger
  shown    \* the request about it

detailVars == <<tx, shown>>

\* The contract an event creates has the number of the event; contract 0 is
\* an older one.  parent is the exercise the event is a consequence of.
Event == [type : {"created", "exercised", "archived"}, consuming : BOOLEAN,
          contract : 0..MaxTxEvents, parent : 0..MaxTxEvents]

\* Ids as the detail has them: an event id of the participant, the suffix
\* that makes it unique, and whether it is of an archive that was added.
Id == [base : 1..MaxTxEvents, at : 0..MaxTxEvents, archive : BOOLEAN]

NoRequest == [step |-> "idle", shape |-> "none", rootEventIds |-> <<>>,
            eventsById |-> <<>>, inputs |-> {}, outputs |-> {},
            waiting |-> {}]

DetailInit == tx = <<>> /\ shown = NoRequest

-----------------------------------------------------------------------------
(***************************************************************************)
(* The ledger executes a transaction, depth first.                         *)
(***************************************************************************)

\* The exercises whose consequences the next event may still be among: all
\* that came after them is below them.
OpenExercises ==
  {i \in DOMAIN tx : /\ tx[i].type = "exercised"
                     /\ \A j \in (i + 1)..Len(tx) : tx[j].parent >= i}

Consumed(events) ==
  {events[i].contract : i \in {j \in DOMAIN events : events[j].consuming}}

CreatedBy(events) ==
  {events[i].contract : i \in {j \in DOMAIN events : events[j].type = "created"}}

Perform ==
  /\ shown.step = "idle" /\ Len(tx) < MaxTxEvents
  /\ \E parent \in {0} \cup OpenExercises :
       \/ tx' = Append(tx, [type |-> "created", consuming |-> FALSE,
                            contract |-> Len(tx) + 1, parent |-> parent])
       \/ \E c \in ({0} \cup CreatedBy(tx)) \ Consumed(tx), b \in BOOLEAN :
            tx' = Append(tx, [type |-> "exercised", consuming |-> b,
                              contract |-> c, parent |-> parent])
  /\ UNCHANGED shown

\* The net effect: creates and archives of contracts that were not both.
Net(events) ==
  LET fleeting == CreatedBy(events) \cap Consumed(events)
      net(e) == [type |-> IF e.consuming THEN "archived" ELSE "created",
                 consuming |-> e.consuming, contract |-> e.contract,
                 parent |-> 0]
  IN FlattenSeq([i \in DOMAIN events |->
       IF /\ events[i].type = "created" \/ events[i].consuming
          /\ events[i].contract \notin fleeting
       THEN <<net(events[i])>> ELSE <<>>])

\* The events as the participant gives them.
Given(shape) == IF shape = "delta" THEN Net(tx) ELSE tx

\* Event ids, each named after the first event that has it.  In the flat
\* shapes any of them may coincide.
RawIds(shape) ==
  LET n == Len(Given(shape))
  IN IF shape \in {"flat", "delta"}
     THEN {raw \in [1..n -> 1..n] :
             \A i \in 1..n : raw[i] <= i /\ raw[raw[i]] = raw[i]}
     ELSE {[i \in 1..n |-> i]}

-----------------------------------------------------------------------------
(***************************************************************************)
(* mapTransactionToDetail.                                                 *)
(***************************************************************************)

\* hasCollisions when event i is reached.
Collided(raw, i) == \E j, k \in 1..i : j < k /\ raw[j] = raw[k]

SyntheticId(raw, i) ==
  [base |-> raw[i], at |-> IF Collided(raw, i) THEN i ELSE 0,
   archive |-> FALSE]

\* The top of exerciseStack when event i is reached.  Nothing is ever popped.
TopExercise(events, i) ==
  Max({0} \cup {j \in 1..(i - 1) : events[j].type = "exercised"})

\* Where event i is put: under an event, or among the roots.
PutUnder(shape, events, raw, i) ==
  IF shape \in {"byId", "engine"} THEN events[i].parent
  ELSE IF Collided(raw, Len(events)) THEN TopExercise(events, i) ELSE 0

Below(shape, events, raw, i) ==
  FlattenSeq([j \in DOMAIN events |->
                IF PutUnder(shape, events, raw, j) = i
                THEN <<SyntheticId(raw, j)>> ELSE <<>>])

EventsById(shape, events, raw) ==
  LET last(id) == Max({i \in DOMAIN events : SyntheticId(raw, i) = id})
  IN [id \in {SyntheticId(raw, i) : i \in DOMAIN events} |->
        LET i == last(id)
        IN [type |-> events[i].type, consuming |-> events[i].consuming,
            contract |-> events[i].contract, number |-> i,
            childEventIds |-> Below(shape, events, raw, i)]]

\* computeStateDiff.  A consumed contract has its payload if the transaction
\* also created it.
Inputs(events) ==
  {[event |-> id, contract |-> events[id].contract,
    payload |-> IF \E c \in DOMAIN events : /\ events[c].type = "created"
                                            /\ events[c].contract = events[id].contract
                THEN "known" ELSE "none"] :
     id \in {e \in DOMAIN events : \/ events[e].type = "archived"
                                   \/ events[e].consuming}}

Outputs(events) ==
  {events[id].contract : id \in {e \in DOMAIN events :
                                   events[e].type = "created"}}

\* The route asks for the payloads that are missing, all at once.
Lacking(inputs) == {i \in inputs : i.payload = "none"}

AskDetail(shape) ==
  /\ shown.step = "idle" /\ Len(tx) > 0
  /\ \E raw \in RawIds(shape) :
       LET events == Given(shape)
           byId == EventsById(shape, events, raw)
       IN shown' = [step |-> "enriching", shape |-> shape,
                    rootEventIds |-> Below(shape, events, raw, 0),
                    eventsById |-> byId,
                    inputs |-> Inputs(byId),
                    outputs |-> Outputs(byId),
                    waiting |-> IF shape = "engine" THEN {}
                                ELSE Lacking(Inputs(byId))]
  /\ UNCHANGED tx

\* One of the lookups answers, with or without the created event.
Enrich ==
  /\ shown.step = "enriching"
  /\ \E i \in shown.waiting, payload \in {"known", "refused"} :
       shown' = [shown EXCEPT
                   !.waiting = @ \ {i},
                   !.inputs = (@ \ {i}) \cup {[i EXCEPT !.payload = payload]}]
  /\ UNCHANGED tx

-----------------------------------------------------------------------------
\* Only of an engine's transaction does the gateway add the archives; the page
\* does for all.
DetailReplied ==
  /\ shown.step = "enriching" /\ shown.waiting = {}
  /\ shown' = [shown EXCEPT !.step = "replied",
                            !.eventsById = IF shown.shape = "engine"
                                           THEN Normalized(@) ELSE @]
  /\ UNCHANGED tx

Draw ==
  /\ shown.step = "replied"
  /\ shown' = [shown EXCEPT !.step = "drawn", !.eventsById = Synthesized(@)]
  /\ UNCHANGED tx

DetailStep == Enrich \/ DetailReplied \/ Draw

DetailNext == Perform \/ (\E shape \in Shapes : AskDetail(shape)) \/ DetailStep

DetailSpec == DetailInit /\ [][DetailNext]_detailVars

-----------------------------------------------------------------------------
DetailTypeOK ==
  /\ tx \in Seq(Event) /\ Len(tx) <= MaxTxEvents
  /\ shown.step \in {"idle", "enriching", "replied", "drawn"}
  /\ DOMAIN shown.eventsById \subseteq Id
  /\ \A i \in shown.inputs : i.payload \in {"none", "known", "refused"}
  /\ shown.waiting \subseteq shown.inputs

Number(id) == shown.eventsById[id].number

\* The nodes of the tree in the order addEvent of buildTree comes to them, and
\* the events drawn under a node, at any depth.
Drawn == TreeOf(shown.rootEventIds, shown.eventsById)

DrawnBelow(id) == ToSet(TreeOf(<<id>>, shown.eventsById)) \ {id}

\* Every event exactly once and in the order of the ledger, whatever its ids,
\* and right under a consuming exercise one archive, however often archives
\* are added.
DrawnInOrder ==
  LET nodes == Drawn
      archiving == Archiving(shown.eventsById)
      given == Given(shown.shape)
  IN /\ FlattenSeq([k \in DOMAIN nodes |->
                      IF nodes[k].archive THEN <<>> ELSE <<Number(nodes[k])>>])
          = [k \in DOMAIN given |-> k]
     /\ \A k \in DOMAIN nodes :
          (nodes[k] \in archiving) <=>
            (k < Len(nodes) /\ nodes[k + 1] = ArchiveOf(nodes[k]))
     /\ Len(nodes) = Len(given) + Cardinality(archiving)

\* Right below an event are its consequences and nothing else, where the
\* participant says which they are.  Of a flat list whose ids are distinct the
\* mapping makes roots.  If they collide it puts below an exercise all that
\* follows it: its consequences, and also what is none of them, since nothing
\* is ever taken off exerciseStack.
BelowAsGiven ==
  LET given == Given(shown.shape)
      distinct == \A id \in DOMAIN shown.eventsById : id.at = 0
      numbers(ids) == {Number(id) : id \in ids} \ {0}
      rightBelow(id) == numbers(ToSet(shown.eventsById[id].childEventIds))
      follow(i) == IF given[i].type = "exercised" THEN (i + 1)..Len(given) ELSE {}
  IN \A id \in {e \in DOMAIN shown.eventsById : ~e.archive} :
       /\ shown.shape \in {"byId", "engine"} =>
            rightBelow(id) = {j \in DOMAIN given : given[j].parent = Number(id)}
       /\ shown.shape = "delta" \/ (shown.shape = "flat" /\ distinct) =>
            rightBelow(id) = {}
       /\ shown.shape = "flat" /\ ~distinct =>
            numbers(DrawnBelow(id)) = follow(Number(id))

\* The state diff has every contract the transaction consumed once, and every
\* contract it created.
DiffComplete ==
  LET given == Given(shown.shape)
  IN /\ {i.contract : i \in shown.inputs} = Consumed(given)
     /\ Cardinality(shown.inputs) = Cardinality(Consumed(given))
     /\ shown.outputs = CreatedBy(given)

\* In whatever shape the participant gave the transaction and however the
\* lookups end, what a user sees are its events, its contracts and, as far as
\* the shape tells them, the causes of its events.
TreeKept ==
  shown.step = "drawn" => DrawnInOrder /\ BelowAsGiven /\ DiffComplete
=============================================================================
