----------------------------- MODULE EventTree -----------------------------
(***************************************************************************)
(* The events of a transaction by id, as the gateway hands them to the     *)
(* browser, and the tree that is drawn of them.  An event is a record with *)
(* its type, whether it is consuming, its contract, its children's ids and *)
(* its number in the transaction.  Nothing says that a child or a root is  *)
(* among the events.                                                       *)
(***************************************************************************)
EXTENDS Integers, Sequences
LOCAL INSTANCE SequencesExt

\* The id of the archive that is added for an exercise (`${eventId}:archive`).
ArchiveOf(id) == [id EXCEPT !.archive = TRUE]

Archiving(events) ==
  {id \in DOMAIN events : events[id].type = "exercised" /\ events[id].consuming}

\* The archives of the exercises of a set, each the first child of its own.
AddArchives(events, ids) ==
  [id \in DOMAIN events \cup {ArchiveOf(e) : e \in ids} |->
     IF id.archive /\ id \notin DOMAIN events
     THEN [type |-> "archived", consuming |-> FALSE, childEventIds |-> <<>>,
           contract |-> events[[id EXCEPT !.archive = FALSE]].contract,
           number |-> 0]
     ELSE IF id \in ids
          THEN [events[id] EXCEPT !.childEventIds = <<ArchiveOf(id)>> \o @]
          ELSE events[id]]

\* normalizeResultTransaction of the gateway goes by the archive's id,
Normalized(events) ==
  AddArchives(events, {id \in Archiving(events) :
    /\ ArchiveOf(id) \notin DOMAIN events
    /\ ~Contains(events[id].childEventIds, ArchiveOf(id))})

\* synthesizeArchiveEvents of the page by the contract of an archive child.
Synthesized(events) ==
  AddArchives(events, {id \in Archiving(events) :
    ~\E k \in DOMAIN events[id].childEventIds :
       LET child == events[id].childEventIds[k]
       IN /\ child \in DOMAIN events
          /\ events[child].type = "archived"
          /\ events[child].contract = events[id].contract})

\* The ids of a tree in the order they are drawn.  An id that is not among the
\* events is passed over, with whatever is under it.
TreeOf(rootEventIds, events) ==
  LET draw[id \in DOMAIN events] ==
        <<id>> \o FlattenSeq(
          [k \in DOMAIN events[id].childEventIds |->
             LET child == events[id].childEventIds[k]
             IN IF child \in DOMAIN events THEN draw[child] ELSE <<>>])
  IN FlattenSeq([k \in DOMAIN rootEventIds |->
                   IF rootEventIds[k] \in DOMAIN events
                   THEN draw[rootEventIds[k]] ELSE <<>>])
=============================================================================
