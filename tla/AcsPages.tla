------------------------------- MODULE AcsPages -------------------------------
(***************************************************************************)
(* The active contracts page: features/contracts of the frontend with its  *)
(* query cache, GET /api/v1/acs (routes/acs.ts) and the snapshots that     *)
(* services/cache.ts keeps in Redis.  The whole list is fetched for every  *)
(* page and the page is cut from it, so pages agree only as far as the     *)
(* lists do, while the ledger goes on, snapshots expire, answers come late *)
(* and the user clicks on.                                                 *)
(***************************************************************************)
EXTENDS Integers, Sequences, FiniteSets

CONSTANTS
  Sorts,        \* of contracts, which filters by template or party tell apart
  Filters,      \* the filters the user chooses from: the sorts they let pass
  PrunedUpTo,   \* bootstrapInfo.pruningOffset
  PageSize,
  MaxOffset,    \* bound: the offsets of the ledger
  MaxClicks     \* bound: what the user does

ASSUME PagesConstantsOK ==
  /\ IsFiniteSet(Sorts) /\ Sorts \in Filters /\ Filters \subseteq SUBSET Sorts
  /\ PageSize \in Nat \ {0} /\ PrunedUpTo \in Nat
  /\ MaxOffset \in Nat /\ MaxClicks \in Nat

VARIABLES
  acs,        \* acs[o]: the active contracts at offset o
  snapshots,  \* the lists Redis has, by offset and filter
  requests,   \* the requests under way
  page        \* the contracts page

pagesVars == <<acs, snapshots, requests, page>>

\* The ledger streams contracts in the order they were created in.
Active == [id : 1..MaxOffset, sort : Sorts]

Live == 0                \* instead of the offset that was travelled to
None == [at |-> 0, items |-> <<>>, next |-> 0, isPruned |-> FALSE]

\* What a query is made with, and its key in the query cache of the page.
Params == [offset : 0..MaxOffset, filter : Filters,
           token : 0..(MaxOffset + PageSize)]

First == [offset |-> Live, filter |-> Sorts, token |-> 0]

PagesInit ==
  /\ acs = <<>> /\ snapshots = <<>> /\ requests = {}
  /\ page = [params |-> First, tokens |-> <<>>, results |-> <<>>,
             shown |-> None, open |-> FALSE, clicks |-> 0, hurried |-> FALSE]

Commit ==
  /\ Len(acs) < MaxOffset
  /\ LET now == IF acs = <<>> THEN <<>> ELSE acs[Len(acs)]
     IN \/ \E s \in Sorts :
             acs' = Append(acs, Append(now, [id |-> Len(acs) + 1, sort |-> s]))
        \/ \E i \in DOMAIN now :
             acs' = Append(acs, SubSeq(now, 1, i - 1) \o SubSeq(now, i + 1, Len(now)))
  /\ UNCHANGED <<snapshots, requests, page>>

-----------------------------------------------------------------------------
(***************************************************************************)
(* GET /api/v1/acs.                                                        *)
(***************************************************************************)

\* What getActiveContracts returns, filtered once more by the route.
Passed(list, filter) == SelectSeq(list, LAMBDA c : c.sort \in filter)
Snapshot(offset, filter) == Passed(acs[offset], filter)

UnfilteredKey(offset, filter) ==     \* mutant: the key lacks the filter
  [offset |-> offset, filter |-> Sorts]

\* The key of a snapshot: its offset, parties and template filter.
SnapshotKey(offset, filter) == [offset |-> offset, filter |-> filter]

\* paginateContracts.  Token 0 stands for no token.
Paginated(list, token) ==
  LET end == token + PageSize
  IN [items |-> SubSeq(list, token + 1, IF end < Len(list) THEN end ELSE Len(list)),
      next |-> IF end < Len(list) THEN end ELSE 0]

PageReply(offset, list, token, pruned) ==
  [at |-> offset, items |-> Paginated(list, token).items,
   next |-> Paginated(list, token).next, isPruned |-> pruned]

\* The answer reaches the query cache, and the page if it shows that query.
PageAnswered(r, reply) ==
  /\ requests' = requests \ {r}
  /\ page' = [page EXCEPT
       !.results = [p \in DOMAIN @ \cup {r.params} |->
                      IF p = r.params THEN reply ELSE @[p]],
       !.shown = IF page.params = r.params THEN reply ELSE @]

Advance(r, step, at) ==
  requests' = (requests \ {r}) \cup {[r EXCEPT !.step = step, !.at = at]}

\* An offset the user gave is not looked up; a pruned one is answered at once.
LedgerEnd(r) ==
  /\ r.step = "began" /\ r.params.offset = Live /\ acs # <<>>
  /\ Advance(r, "looking", Len(acs))
  /\ UNCHANGED <<acs, snapshots, page>>

GivenOffset(r) ==
  /\ r.step = "began" /\ r.params.offset # Live
  /\ IF r.params.offset <= PrunedUpTo
     THEN PageAnswered(r, PageReply(r.params.offset, <<>>, 0, TRUE))
     ELSE Advance(r, "looking", r.params.offset) /\ UNCHANGED page
  /\ UNCHANGED <<acs, snapshots>>

Hit(r) ==
  /\ r.step = "looking"
  /\ SnapshotKey(r.at, r.params.filter) \in DOMAIN snapshots
  /\ PageAnswered(r, PageReply(r.at, snapshots[SnapshotKey(r.at, r.params.filter)],
                       r.params.token, FALSE))
  /\ UNCHANGED <<acs, snapshots>>

\* Redis may be unavailable, whatever it has.
Miss(r) ==
  /\ r.step = "looking"
  /\ Advance(r, "fetching", r.at)
  /\ UNCHANGED <<acs, snapshots, page>>

\* The list is stored, if that works, and a page of it sent.
Fetched(r) ==
  /\ r.step = "fetching" /\ r.at <= Len(acs)
  /\ LET list == Snapshot(r.at, r.params.filter)
         key == SnapshotKey(r.at, r.params.filter)
     IN /\ PageAnswered(r, PageReply(r.at, list, r.params.token, FALSE))
        /\ \/ snapshots' = [k \in DOMAIN snapshots \cup {key} |->
                              IF k = key THEN list ELSE snapshots[k]]
           \/ UNCHANGED snapshots
  /\ UNCHANGED acs

\* The participant refuses, as it does an offset it has not reached, or an
\* answer is lost, also when tried once more.
RequestFails(r) ==
  /\ requests' = requests \ {r}
  /\ page' = [page EXCEPT
       !.shown = IF page.params = r.params /\ r.params \notin DOMAIN page.results
                 THEN None ELSE @]
  /\ UNCHANGED <<acs, snapshots>>

Served == \E r \in requests :
  \/ LedgerEnd(r) \/ GivenOffset(r) \/ Hit(r) \/ Miss(r) \/ Fetched(r)
  \/ RequestFails(r)

\* After 60 s.
Expire ==
  /\ \E key \in DOMAIN snapshots :
       snapshots' = [k \in DOMAIN snapshots \ {key} |-> snapshots[k]]
  /\ UNCHANGED <<acs, requests, page>>

-----------------------------------------------------------------------------
(***************************************************************************)
(* The page.                                                               *)
(***************************************************************************)

\* useQuery with other parameters: what it has for them is shown, or else
\* what was shown before, and a request is made unless one is under way.
Query(p, params) ==
  /\ page' = [p EXCEPT !.params = params, !.open = TRUE,
                       !.shown = IF params \in DOMAIN page.results
                                 THEN page.results[params] ELSE @]
  /\ requests' =
       IF \/ params = page.params /\ page.open
          \/ \E r \in requests : r.params = params
       THEN requests
       ELSE requests \cup {[params |-> params, step |-> "began", at |-> 0]}
  /\ UNCHANGED <<acs, snapshots>>

OpenPage == ~page.open /\ Query(page, First)

Clicks == page.open /\ page.clicks < MaxClicks

Clicked == [page EXCEPT !.clicks = @ + 1]

\* Whether what is shown is of another query: its next token then is, too.
Placeholder ==
  \/ page.params \notin DOMAIN page.results
  \/ page.results[page.params] # page.shown

NextPage ==
  /\ Clicks /\ page.shown # None /\ page.shown.next # 0
  /\ Query([Clicked EXCEPT !.tokens = Append(@, page.params.token),
                           !.hurried = @ \/ Placeholder],
           [page.params EXCEPT !.token = page.shown.next])

PrevPage ==
  /\ Clicks /\ page.tokens # <<>>
  /\ LET last == Len(page.tokens)
     IN Query([Clicked EXCEPT !.tokens = SubSeq(@, 1, last - 1)],
              [page.params EXCEPT !.token = page.tokens[last]])

\* FilterBar and TimeTravel.  The presets of the latter, "5 min ago", give their
\* seconds for an offset, so that any offset may be asked for.
FiltersOffered == Filters \ {page.params.filter}
OffsetsOffered == (0..MaxOffset) \ {page.params.offset}

\* Other filters start at the first page, another offset does not.
SetFilter ==
  /\ Clicks
  /\ \E f \in FiltersOffered :
       Query([Clicked EXCEPT !.tokens = <<>>],
             [page.params EXCEPT !.filter = f, !.token = 0])

SetOffset ==
  /\ Clicks
  /\ \E o \in OffsetsOffered :
       Query(Clicked, [page.params EXCEPT !.offset = o])

PagesNext ==
  \/ Commit \/ Served \/ Expire
  \/ OpenPage \/ NextPage \/ PrevPage \/ SetFilter \/ SetOffset

-----------------------------------------------------------------------------
ReplyType == [at : 1..MaxOffset, items : Seq(Active), next : 0..MaxOffset,
              isPruned : BOOLEAN]

PagesTypeOK ==
  /\ \A o \in DOMAIN acs : acs[o] \in Seq(Active)
  /\ \A k \in DOMAIN snapshots :
       k.offset \in DOMAIN acs /\ k.filter \in Filters /\ snapshots[k] \in Seq(Active)
  /\ \A r \in requests : /\ r.params \in Params /\ r.at \in 0..MaxOffset
                         /\ r.step \in {"began", "looking", "fetching"}
  /\ page.params \in Params
  /\ page.tokens \in Seq(0..MaxOffset)
  /\ \A p \in DOMAIN page.results : p \in Params /\ page.results[p] \in ReplyType
  /\ page.shown \in ReplyType \cup {None}

\* What page a query should get at the offset it was answered for.
Due(params, at) ==
  LET whole == Snapshot(at, params.filter)
      upTo == params.token + PageSize
  IN [items |-> SubSeq(whole, params.token + 1,
                       IF upTo < Len(whole) THEN upTo ELSE Len(whole)),
      more |-> upTo < Len(whole)]

\* Pages cut the list at one offset: every answer is the part of the filtered
\* contracts at the offset it names that starts at its token, with a further
\* page exactly if there is more, so pages of an offset neither overlap nor
\* leave a contract out, whatever was cached by whom; one for an offset the
\* user chose is for that offset.  Turning pages leads from part to part:
\* what precedes the page are all the pages before it, unless the user clicked
\* "next" on a page that was still that of another query.
PagesPartition ==
  /\ \A p \in DOMAIN page.results :
       LET r == page.results[p]
       IN IF r.isPruned THEN p.offset \in 1..PrunedUpTo /\ r.items = <<>>
          ELSE /\ p.offset \in {Live, r.at}
               /\ r.items = Due(p, r.at).items
               /\ r.next = IF Due(p, r.at).more THEN p.token + PageSize ELSE 0
  /\ ~page.hurried =>
       /\ page.params.token = PageSize * Len(page.tokens)
       /\ \A k \in DOMAIN page.tokens : page.tokens[k] = PageSize * (k - 1)

-----------------------------------------------------------------------------
(***************************************************************************)
(* The inductive invariant behind it.                                      *)
(***************************************************************************)

PagesSpec == PagesInit /\ [][PagesNext]_pagesVars

PageQueries == [offset : Nat, filter : Filters, token : Nat]

PagesShape ==
  /\ acs \in Seq(Seq(Active)) /\ Len(acs) <= MaxOffset
  /\ requests \subseteq
       [params : PageQueries, step : {"began", "looking", "fetching"}, at : Nat]
  /\ page.params \in PageQueries /\ page.tokens \in Seq(Nat) /\ page.shown.next \in Nat
  /\ page.open \/ page.tokens = <<>>
  /\ page = [params |-> page.params, tokens |-> page.tokens, results |-> page.results,
             shown |-> page.shown, open |-> page.open, clicks |-> page.clicks,
             hurried |-> page.hurried]

\* An answer is the part of the list at an offset the ledger has.
PartOf(p, r) ==
  IF r.isPruned THEN p.offset \in 1..PrunedUpTo /\ r.items = <<>> /\ r.next = 0
  ELSE /\ r.at \in DOMAIN acs /\ p.offset \in {Live, r.at}
       /\ r.items = Due(p, r.at).items
       /\ r.next = IF Due(p, r.at).more THEN p.token + PageSize ELSE 0

\* A page in a row of pages that were turned one by one.
TurnedTo ==
  /\ page.params.token = PageSize * Len(page.tokens)
  /\ \A k \in DOMAIN page.tokens : page.tokens[k] = PageSize * (k - 1)

PagesInv ==
  /\ PagesShape
  /\ \A k \in DOMAIN snapshots :
       k.offset \in DOMAIN acs /\ snapshots[k] = Snapshot(k.offset, k.filter)
  /\ \A r \in requests : r.step # "began" => r.at > 0 /\ r.params.offset \in {Live, r.at}
  /\ \A p \in DOMAIN page.results : p \in PageQueries /\ PartOf(p, page.results[p])
  /\ page.hurried \/ TurnedTo
=============================================================================
