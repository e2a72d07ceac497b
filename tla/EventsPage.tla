------------------------------ MODULE EventsPage ------------------------------
(***************************************************************************)
(* The tabs of the events page (frontend/src/features/events), of which    *)
(* one is mounted at a time; a behaviour stays with one of them, since     *)
(* they share nothing but the list of the event store.                     *)
(*                                                                         *)
(* Stream: the updates of the event store, cut down by filters and drawn   *)
(* as one card for each event, newest first.  A click keeps a copy of the  *)
(* event for the panel beside the list and the key of its card, which is   *)
(* made of the card's place in a list that grows at its front.             *)
(*                                                                         *)
(* Errors and reassignments: tables of rows that a query polls, one key    *)
(* for each filter; the rows of the filter before stand in for those of a  *)
(* filter that has no answer yet.                                          *)
(***************************************************************************)
EXTENDS Integers, Sequences, FiniteSets, Queries, Sorting

CONSTANTS
  Content,     \* the events of each update: type, template, contract, party
  EmptyType,   \* the updateType of an update without events
  MaxListed,   \* bound: the updates in the store
  MaxUnseen,   \* bound: newEventsSinceScroll
  MaxRows,     \* bound: the completions or reassignments of the ledger
  MaxFetches   \* bound: the fetches of a table

Nobody  == "nobody"    \* of an archived event, which names no parties
Unset == "nothing"

EventsOf(u) == {Content[u][i] : i \in DOMAIN Content[u]}
AllEvents == UNION {EventsOf(u) : u \in DOMAIN Content}
EventTypes == {e.type : e \in AllEvents} \cup {EmptyType}
PartiesSeen == {e.party : e \in AllEvents} \ {Nobody}
TemplatesSeen == {e.template : e \in AllEvents}
ContractsSeen == {e.contract : e \in AllEvents}

ASSUME EventsConstantsOK ==
  /\ \A u \in DOMAIN Content : Content[u] \in Seq(EventsOf(u))
  /\ {MaxListed, MaxUnseen, MaxRows, MaxFetches} \subseteq Nat

VARIABLES
  tab,     \* the tab that is open
  list,    \* the stream tab, with the store's list of updates
  table    \* the errors or the reassignments tab, with its query

eventsVars == <<tab, list, table>>

-----------------------------------------------------------------------------
(***************************************************************************)
(* The stream tab.                                                         *)
(***************************************************************************)

NoFilter == [types |-> {}, template |-> Unset, party |-> Unset, contract |-> Unset]

\* The filters on single events.
EventPasses(f, e) ==
  /\ f.types = {} \/ e.type \in f.types
  /\ f.template = Unset \/ e.template = f.template
  /\ f.party = Unset \/ e.party = f.party

\* The search for a contract keeps or drops a whole update; one without events
\* has no contracts and passes a filter on parties.
UpdatePasses(f, u) ==
  /\ f.contract = Unset \/ \E e \in EventsOf(u) : e.contract = f.contract
  /\ IF Content[u] = <<>> THEN f.types = {} \/ EmptyType \in f.types
     ELSE \E e \in EventsOf(u) : EventPasses(f, e)

\* The places of the updates in the list that are kept.
FilteredEvents(l) ==
  {i \in DOMAIN l.updates : UpdatePasses(l.filter, l.updates[i])}

\* What is drawn of an update without events.
Summary == [type |-> "created", template |-> Unset, contract |-> Unset, party |-> Nobody]

EventAt(u, k) == IF Content[u] = <<>> THEN Summary ELSE Content[u][k]

\* The events of an update that are drawn, by their places in it.
CardsOf(f, u) ==
  IF Content[u] = <<>> THEN {1}
  ELSE {k \in DOMAIN Content[u] : EventPasses(f, Content[u][k])}

\* flatEvents: an update and an event of it, both by their places.
Places(l) ==
  UNION {{<<i, k>> : k \in CardsOf(l.filter, l.updates[i])} : i \in FilteredEvents(l)}

NewestFirst(places) ==
  {p \in places \X places :
     \/ p[1][1] > p[2][1]
     \/ p[1][1] = p[2][1] /\ p[1][2] > p[2][2]}

Cards(l) ==
  LET drawn == Sorted(Places(l), NewestFirst(Places(l)))
  IN [n \in DOMAIN drawn |->
        LET u == l.updates[drawn[n][1]]
        IN [update |-> u, event |-> EventAt(u, drawn[n][2])]]

EventKeyByPlace(cards, i) == <<Unset, i>>    \* mutant: without the update

EventKey(cards, i) == <<cards[i].update, i>>

NoChoice == [key |-> <<Unset, 0>>, card |-> [update |-> Unset, event |-> Summary]]

\* The effect of EventList on the length of what it is given.
Counted(l) ==
  LET n == Cardinality(FilteredEvents(l))
  IN [l EXCEPT !.counted = n,
        !.unseen = IF n > l.counted /\ ~l.atTop THEN @ + n - l.counted ELSE @]

ListInit ==
  [updates |-> <<>>, filter |-> NoFilter, chosen |-> NoChoice, atTop |-> TRUE,
   unseen |-> 0, counted |-> 0]

Stored(l) == {l.updates[i] : i \in DOMAIN l.updates}

\* What the store does to its list: a message, an older update that a fetched
\* list brings, a clearing.
Arrives ==
  /\ Len(list.updates) < MaxListed /\ list.unseen < MaxUnseen
  /\ \E u \in DOMAIN Content \ Stored(list) :
       \/ list' = Counted([list EXCEPT !.updates = Append(@, u)])
       \/ list' = Counted([list EXCEPT !.updates = <<u>> \o @])

ClearList ==
  list.updates # <<>> /\ list' = Counted([list EXCEPT !.updates = <<>>])

\* One change of the filter bar, or its reset.
FilterList ==
  /\ list.unseen < MaxUnseen
  /\ \/ \E t \in EventTypes : list' = Counted([list EXCEPT
          !.filter.types = IF t \in @ THEN @ \ {t} ELSE @ \cup {t}])
     \/ \E t \in TemplatesSeen \cup {Unset} :
          list' = Counted([list EXCEPT !.filter.template = t])
     \/ \E p \in PartiesSeen \cup {Unset} :
          list' = Counted([list EXCEPT !.filter.party = p])
     \/ \E c \in ContractsSeen \cup {Unset} :
          list' = Counted([list EXCEPT !.filter.contract = c])
     \/ list' = Counted([list EXCEPT !.filter = NoFilter])

\* handleSelectEvent, and the button that closes the panel.
SelectEvent ==
  \/ LET cards == Cards(list)
     IN \E i \in DOMAIN cards :
          list' = [list EXCEPT !.chosen =
                     IF @.key = EventKey(cards, i) THEN NoChoice
                     ELSE [key |-> EventKey(cards, i), card |-> cards[i]]]
  \/ list' = [list EXCEPT !.chosen = NoChoice]

\* handleScroll, and scrollToTop.  An empty list has nothing to scroll.
Scroll ==
  /\ Cards(list) # <<>>
  /\ \/ list' = [list EXCEPT !.atTop = TRUE, !.unseen = 0]
     \/ list' = [list EXCEPT !.atTop = FALSE]

\* Another tab and back: the store keeps the list and the filters that are its
\* own, the rest starts again.
ReopenStream ==
  LET l == [ListInit EXCEPT !.updates = list.updates,
                            !.filter = [list.filter EXCEPT !.contract = Unset]]
  IN list' = [l EXCEPT !.counted = Cardinality(FilteredEvents(l))]

StreamTab ==
  /\ tab = "stream" /\ UNCHANGED <<tab, table>>
  /\ Arrives \/ ClearList \/ FilterList \/ SelectEvent \/ Scroll \/ ReopenStream

-----------------------------------------------------------------------------
(***************************************************************************)
(* The tabs with tables.  A row is not there yet (0) or has one of two     *)
(* states: a category of errors, or a reassignment in flight and assigned. *)
(***************************************************************************)

Lines == 1..MaxRows
NoLine == 0
Unfiltered == 0
TableFilters == {Unfiltered, 1, 2}
Answers == [Lines -> 0..2]

Filtered(filter, answer) ==
  [row \in Lines |-> IF filter \in {Unfiltered, answer[row]} THEN answer[row] ELSE 0]

NoneListed == [row \in Lines |-> 0]

TableInit ==
  [ledger |-> NoneListed, filter |-> Unfiltered, before |-> Unfiltered,
   entries |-> [f \in TableFilters |-> NoEntry], fetches |-> 0,
   byState |-> FALSE, descending |-> TRUE,
   selected |-> NoLine, detail |-> 0]

\* Errors are filtered by the gateway, reassignments by the hook.
TableReply(t) == IF tab = "errors" THEN Filtered(t.filter, t.ledger) ELSE t.ledger

TableEntry(t) == t.entries[t.filter]

\* The data of the hooks, with keepPreviousData.
TableData(t) ==
  LET lent == t.entries[t.before].data
      raw  == IF TableEntry(t).data # Missing THEN TableEntry(t).data
              ELSE IF IsError(TableEntry(t)) THEN Missing ELSE lent
  IN IF raw = Missing THEN NoneListed
     ELSE IF tab = "errors" THEN Value(raw) ELSE Filtered(t.filter, Value(raw))

\* A failed fetch of errors puts a message in place of the table, one of
\* reassignments a message above it.
TableShown(t) == IF tab = "errors" /\ IsError(TableEntry(t)) THEN NoneListed ELSE TableData(t)

\* The rows in their order: errors as the gateway sends them, reassignments by
\* a column, those with equal values as the gateway sends them.
Precedes(t, a, b) ==
  LET value(row) == IF t.byState THEN TableShown(t)[row] ELSE row
  IN IF tab = "errors" \/ value(a) = value(b) THEN a < b
     ELSE IF t.descending THEN value(a) > value(b) ELSE value(a) < value(b)

ListedRows(t) == {row \in Lines : TableShown(t)[row] > 0}
Listing(t) ==
  LET rows == ListedRows(t)
  IN Sorted(rows, {p \in rows \X rows : Precedes(t, p[1], p[2])})

Unsynced(t) == t                     \* mutant: the effect is missing

\* The effect that keeps the copy of the selected reassignment in step.  An
\* error is selected by its id and its detail drawn from its row.
Synced(t) ==
  IF t.selected # NoLine /\ TableShown(t)[t.selected] > 0
  THEN [t EXCEPT !.detail = TableShown(t)[t.selected]] ELSE t

RowChanges ==
  \E row \in Lines :
    /\ row > 1 => table.ledger[row - 1] > 0
    /\ IF tab = "errors" THEN table.ledger[row] = 0 ELSE table.ledger[row] < 2
    /\ \E state \in (table.ledger[row] + 1)..2 :
         table' = [table EXCEPT !.ledger[row] = state]

FetchTable(t) ==
  [t EXCEPT !.entries[t.filter] = FetchStarted(@, TableReply(t)), !.fetches = @ + 1]

\* On mount, every 10 or 30 s, on focus, by a button.
PollTable ==
  /\ ~IsFetching(TableEntry(table)) /\ table.fetches < MaxFetches
  /\ table' = Synced(FetchTable(table))

TableAnswered ==
  \E f \in TableFilters :
    /\ IsFetching(table.entries[f])
    /\ \/ table' = Synced([table EXCEPT !.entries[f] = FetchSucceeded(@)])
       \/ table' = Synced([table EXCEPT !.entries[f] = FetchFailed(@)])

\* A filter without an answer is fetched at once, one with an old answer may be.
ApplyFilters ==
  \E f \in TableFilters \ {table.filter} :
    LET t == [table EXCEPT !.filter = f,
                !.before = IF TableEntry(table).data = Missing THEN @ ELSE table.filter]
    IN /\ table.fetches < MaxFetches
       /\ \/ TableEntry(t).data # Missing /\ table' = Synced(t)
          \/ table' = Synced(FetchTable(t))

\* A click expands or selects a row; one on an expanded error closes it.
SelectRow ==
  \E row \in Lines :
    /\ TableShown(table)[row] > 0
    /\ table' = IF tab = "errors" /\ table.selected = row
                THEN [table EXCEPT !.selected = NoLine]
                ELSE [table EXCEPT !.selected = row, !.detail = TableShown(table)[row]]

\* handleSort.
SortBy ==
  /\ tab = "reassignments"
  /\ \E byState \in BOOLEAN :
       table' = [table EXCEPT !.byState = byState,
                   !.descending = IF byState = table.byState THEN ~@ ELSE TRUE]

TableTab ==
  /\ tab # "stream" /\ UNCHANGED <<tab, list>>
  /\ RowChanges \/ PollTable \/ TableAnswered \/ ApplyFilters \/ SelectRow \/ SortBy

EventsInit(open) ==
  /\ tab \in (IF open THEN {"stream", "errors", "reassignments"} ELSE {"stream"})
  /\ list = ListInit /\ table = TableInit

EventsNext == StreamTab \/ TableTab

-----------------------------------------------------------------------------
EventFilters == [types : SUBSET EventTypes, template : TemplatesSeen \cup {Unset},
                 party : PartiesSeen \cup {Unset}, contract : ContractsSeen \cup {Unset}]

EventsTypeOK ==
  /\ tab \in {"stream", "errors", "reassignments"}
  /\ list.updates \in Seq(DOMAIN Content) /\ list.filter \in EventFilters
  /\ list.atTop \in BOOLEAN /\ {list.unseen, list.counted} \subseteq Nat
  /\ table.ledger \in Answers /\ {table.filter, table.before} \subseteq TableFilters
  /\ table.entries \in [TableFilters -> Entries(Answers)]
  /\ table.fetches \in 0..MaxFetches /\ {table.byState, table.descending} \subseteq BOOLEAN
  /\ table.selected \in Lines \cup {NoLine} /\ table.detail \in 0..2

\* The stream tab says of its list what the store has: the cards are the events
\* that pass the filters, of a later update before those of an earlier one;
\* whatever arrived since a card was clicked, the card that is marked belongs
\* to the update of the panel, though it may be that of another event of it;
\* and no update is counted as unseen at the top.
StreamListed ==
  LET cards == Cards(list)
      place(u) == CHOOSE i \in DOMAIN list.updates : list.updates[i] = u
      wanted == {[update |-> u, event |-> e] : u \in Stored(list), e \in AllEvents}
      passes(c) == /\ c.event \in EventsOf(c.update)
                   /\ UpdatePasses(list.filter, c.update)
                   /\ EventPasses(list.filter, c.event)
      drawn == {cards[i] : i \in DOMAIN cards}
  IN /\ {c \in drawn : Content[c.update] # <<>>} = {c \in wanted : passes(c)}
     /\ \A i, j \in DOMAIN cards :
          i < j => place(cards[i].update) >= place(cards[j].update)
     /\ \A i \in DOMAIN cards :
          list.chosen.key = EventKey(cards, i) => cards[i].update = list.chosen.card.update
     /\ list.atTop => list.unseen = 0

\* A table says what the ledger said at one time under the filter that is set,
\* only the rows of the errors' filter before may stand in while the first
\* answer is awaited; every row comes once, in order; and the detail of a
\* reassignment that is listed is the one of its row, although answers to
\* several filters arrive in any order and the selection outlives them.
TableListed ==
  LET rows == Listing(table)
      shown == TableShown(table)
      lent  == tab = "errors" /\ TableEntry(table).data = Missing
  IN /\ \A row \in Lines :
          shown[row] > 0 => /\ shown[row] <= table.ledger[row]
                            /\ lent \/ table.filter \in {Unfiltered, shown[row]}
     /\ \A i, j \in DOMAIN rows :
          i < j => rows[i] # rows[j] /\ Precedes(table, rows[i], rows[j])
     /\ (tab = "reassignments" /\ table.selected # NoLine /\ shown[table.selected] > 0)
          => table.detail = shown[table.selected]

EventsListed == StreamListed /\ TableListed
=============================================================================
