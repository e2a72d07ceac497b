---------------------------- MODULE ContractPanel ----------------------------
(***************************************************************************)
(* The panel of the active contracts page (features/contracts): which      *)
(* contract it shows, with its history, while the address changes under    *)
(* it.  "/contracts" and "/contracts/$contractId" are two routes of one    *)
(* page (router.tsx): going from one to the other mounts the page anew,    *)
(* going from contract to contract does not.  The pages of the list are    *)
(* those of AcsPages, fixed here; the histories are ContractHistory's.     *)
(***************************************************************************)
EXTENDS ContractHistory

CONSTANTS
  Sheets,         \* the pages of the list: sets of contracts
  Histories,      \* the history of every contract the participant knows
  Strangers,      \* what is taken for a contract and is none
  MaxPanelMoves   \* bound: what the user does

NoContract == "none"     \* as an address: "/contracts"
OtherPage == "elsewhere"
Ids == DOMAIN Histories \cup Strangers

\* There is a first page, if an empty one.  The contracts an event links to are
\* contracts, or strangers.
ASSUME PanelConstantsOK ==
  /\ Sheets \in Seq(SUBSET DOMAIN Histories) /\ Sheets # <<>>
  /\ Strangers \cap DOMAIN Histories = {}
  /\ {NoContract, OtherPage} \cap Ids = {}
  /\ \A c \in DOMAIN Histories :
       LET h == Histories[c]
           exercises == {h.exercises[i] : i \in DOMAIN h.exercises}
       IN /\ h.exercises \in Seq(exercises) /\ h.archived \in BOOLEAN
          /\ \A e \in exercises \cup {h.creation, h.archival} : e.children \subseteq Ids
  /\ MaxPanelMoves \in Nat

VARIABLE desk    \* the page, the query cache and the address

contractsVars == <<desk>>

Unasked == [data |-> FALSE, failed |-> FALSE, asking |-> FALSE]

\* The three states of the page, by its route.
Route(path) == CASE path = NoContract -> "contracts"
                 [] path = OtherPage  -> "transactions"
                 [] OTHER             -> "contractDetail"

-----------------------------------------------------------------------------
(***************************************************************************)
(* The timeline.                                                           *)
(***************************************************************************)

\* A card is folded by its key: those of the creation and the archival are
\* their places.  An event may name no update, and an archival no offset.
EventCard(kind, at, event, last) ==
  [key |-> [kind |-> kind, at |-> at,
            update |-> IF kind = "exercise" THEN event.update ELSE NoContract],
   link |-> CASE event.update # NoContract -> "update"
              [] event.offset              -> "offset"
              [] OTHER                     -> "none",
   children |-> event.children, last |-> last]

LifecycleCards(h) ==
  LET total == 1 + Len(h.exercises) + (IF h.archived THEN 1 ELSE 0)
  IN <<EventCard("creation", 0, h.creation, total = 1)>>
     \o [i \in DOMAIN h.exercises |->
           EventCard("exercise", i, h.exercises[i],
                     ~h.archived /\ i = Len(h.exercises))]
     \o (IF h.archived THEN <<EventCard("archival", 0, h.archival, TRUE)>> ELSE <<>>)

CardKeys(c) == {LifecycleCards(Histories[c])[i].key :
                  i \in DOMAIN LifecycleCards(Histories[c])}

\* LifecycleTab: the timeline is drawn unless its query waits or has failed.
TimelineShown(d) ==
  /\ d.panel # NoContract /\ d.tab = "lifecycle"
  /\ d.queries[d.panel].data /\ ~d.queries[d.panel].failed

\* useContractLifecycle when it is mounted or its contract changes: asked, with
\* no error while there is nothing to show, unless there is a fresh answer.
AskedFor(queries, c, stale) ==
  LET q == queries[c]
  IN IF ~q.asking /\ (~q.data \/ stale)
     THEN [queries EXCEPT ![c] = [data |-> q.data, failed |-> q.failed /\ q.data,
                                  asking |-> TRUE]]
     ELSE queries

-----------------------------------------------------------------------------
(***************************************************************************)
(* The page.                                                               *)
(***************************************************************************)

\* The effect that selects the contract the page was opened for, as a
\* placeholder if it is not on the page of the list.
PanelOpened(d) ==
  IF Route(d.url) = "contractDetail" /\ d.shown # 0 /\ d.panel = NoContract
  THEN [d EXCEPT !.panel = d.url, !.whole = d.url \in Sheets[d.shown],
                 !.tab = "details"]
  ELSE d

\* What is drawn after a change.  Cards stay folded while a timeline stays, by
\* their keys, also when it becomes another contract's.
PanelDrawn(d, stale) ==
  LET s == PanelOpened(d)
      asks == s.panel # NoContract
              /\ (s.panel # desk.panel \/ s.tab # desk.tab \/ s.url # desk.url)
      asked == IF asks THEN [s EXCEPT !.queries = AskedFor(@, s.panel, stale)] ELSE s
  IN [asked EXCEPT !.folded = IF TimelineShown(desk) /\ TimelineShown(asked)
                              THEN @ \cap CardKeys(asked.panel) ELSE {}]

\* The address changes.  Another route mounts its page: it starts at the first
\* page of the list with no contract selected.
Visited(d, path) ==
  IF Route(path) = Route(d.path)
  THEN [d EXCEPT !.path = path]
  ELSE [d EXCEPT !.path = path, !.url = path, !.asked = 1,
                 !.shown = IF 1 \in d.got /\ path # OtherPage THEN 1 ELSE 0,
                 !.panel = NoContract, !.whole = FALSE, !.tab = "details",
                 !.strayed = FALSE]

PanelDo(d) == \E stale \in BOOLEAN : desk' = PanelDrawn(d, stale)

Busy == [desk EXCEPT !.clicks = @ + 1]
MayClick == desk.clicks < MaxPanelMoves

ContractsInit(on) ==
  \E path \in IF on THEN Ids \cup {NoContract} ELSE {NoContract} :
    desk = [path |-> path, url |-> path, behind |-> <<>>,
            asked |-> 1, shown |-> 0, got |-> {},
            panel |-> NoContract, whole |-> FALSE, tab |-> "details",
            queries |-> [c \in Ids |-> Unasked], folded |-> {},
            strayed |-> FALSE, clicks |-> 0]

\* The page of the list that is asked for.  Until it comes the last one is kept.
SheetArrives ==
  /\ desk.path # OtherPage /\ desk.asked \notin desk.got
  /\ PanelDo([desk EXCEPT !.got = @ \cup {desk.asked}, !.shown = desk.asked])

TurnSheet ==
  /\ MayClick /\ desk.shown # 0
  /\ \E s \in DOMAIN Sheets \ {desk.asked} :
       PanelDo([Busy EXCEPT !.asked = s, !.shown = IF s \in desk.got THEN s ELSE @])

\* ContractTable.
RowsOffered == IF desk.shown = 0 THEN {} ELSE Sheets[desk.shown]

\* handleSelectContract.  The tab of an open panel stays.
SelectContract ==
  /\ MayClick
  /\ \E c \in RowsOffered :
       PanelDo(Visited([Busy EXCEPT !.panel = c, !.whole = TRUE, !.strayed = FALSE], c))

\* handleCloseDetail.
CloseDetail ==
  /\ MayClick /\ desk.panel # NoContract
  /\ PanelDo(Visited([Busy EXCEPT !.panel = NoContract], NoContract))

OpenTab ==
  /\ MayClick /\ desk.panel # NoContract
  /\ \E tab \in {"details", "lifecycle"} \ {desk.tab} :
       PanelDo([Busy EXCEPT !.tab = tab])

-----------------------------------------------------------------------------
OpenCards == LifecycleCards(Histories[desk.panel])

\* An answer, to whatever contract the panel shows by now.
LifecycleAnswered ==
  \E c \in {c \in Ids : desk.queries[c].asking} :
    \E found \in IF c \in Strangers THEN {FALSE} ELSE BOOLEAN :
      LET q == [data |-> desk.queries[c].data \/ found, failed |-> ~found,
                asking |-> FALSE]
      IN PanelDo([desk EXCEPT !.queries[c] = q])

FoldCard ==
  /\ MayClick /\ TimelineShown(desk)
  /\ \E key \in CardKeys(desk.panel) :
       PanelDo([Busy EXCEPT !.folded = IF key \in @ THEN @ \ {key} ELSE @ \cup {key}])

\* handleNavigateContract: the address changes, and nothing else, as within the
\* route the page is not mounted anew.
FollowChild ==
  /\ MayClick /\ TimelineShown(desk)
  /\ \E i \in DOMAIN OpenCards : \E c \in OpenCards[i].children :
       PanelDo(Visited(IF c = desk.path THEN Busy
                       ELSE [Busy EXCEPT !.behind = Append(@, desk.path),
                                         !.strayed = TRUE], c))

\* handleNavigateTransaction, and handleNavigateOffset, which loads the
\* application anew, with no answers in its cache.
FollowUpdate ==
  /\ MayClick /\ TimelineShown(desk)
  /\ \E i \in DOMAIN OpenCards :
       LET left == [Busy EXCEPT !.behind = Append(@, desk.path)]
       IN CASE OpenCards[i].link = "update" -> PanelDo(Visited(left, OtherPage))
            [] OpenCards[i].link = "offset" ->
                 PanelDo(Visited([left EXCEPT !.got = {},
                                              !.queries = [c \in Ids |-> Unasked]],
                                 OtherPage))
            [] OTHER -> FALSE

\* The browser's button.
GoBack ==
  /\ MayClick /\ desk.behind # <<>>
  /\ LET last == Len(desk.behind)
         path == desk.behind[last]
     IN PanelDo(Visited([Busy EXCEPT !.behind = SubSeq(@, 1, last - 1),
                                     !.strayed = @ \/ path # desk.path], path))

ContractsNext ==
  \/ SheetArrives \/ TurnSheet \/ SelectContract \/ CloseDetail \/ OpenTab
  \/ LifecycleAnswered \/ FoldCard \/ FollowChild \/ FollowUpdate \/ GoBack

-----------------------------------------------------------------------------
ContractsTypeOK ==
  /\ desk.path \in Ids \cup {NoContract, OtherPage}
  /\ desk.url \in Ids \cup {NoContract, OtherPage}
  /\ desk.behind \in Seq(Ids \cup {NoContract})
  /\ desk.asked \in DOMAIN Sheets /\ desk.got \subseteq DOMAIN Sheets
  /\ desk.shown \in desk.got \cup {0}
  /\ desk.panel \in Ids \cup {NoContract}
  /\ desk.whole \in BOOLEAN /\ desk.strayed \in BOOLEAN
  /\ desk.tab \in {"details", "lifecycle"}
  /\ desk.queries \in [Ids -> [data : BOOLEAN, failed : BOOLEAN, asking : BOOLEAN]]
  /\ desk.clicks \in 0..MaxPanelMoves

\* The panel follows the address, which the user may send to others: it is
\* closed exactly where no contract is addressed, once there is a list, and
\* shows the contract that is addressed unless a link of its own or the
\* browser's button led on from it.  It is a placeholder only for the contract
\* the page was opened for, which the first page of the list does not have.
\* Whose history is drawn is a contract, it ends with the card drawn as last,
\* and cards that are folded are its cards.
PanelFollows ==
  /\ desk.panel # NoContract <=> Route(desk.path) = "contractDetail" /\ desk.shown # 0
  /\ desk.panel # NoContract /\ ~desk.strayed => desk.panel = desk.path
  /\ desk.panel # NoContract /\ ~desk.whole =>
       desk.panel = desk.url /\ desk.panel \notin Sheets[1]
  /\ TimelineShown(desk) =>
       LET cards == LifecycleCards(Histories[desk.panel])
       IN /\ desk.panel \in DOMAIN Histories
          /\ Cardinality(CardKeys(desk.panel)) = Len(cards)
          /\ \A i \in DOMAIN cards : cards[i].last <=> i = Len(cards)
  /\ desk.folded # {} => TimelineShown(desk) /\ desk.folded \subseteq CardKeys(desk.panel)

\* The history of a contract is told as the ledger has it, and the panel of the
\* page that shows it follows the contract that is addressed.
HistoryShown == HistoryFollowed /\ PanelFollows

-----------------------------------------------------------------------------
(***************************************************************************)
(* The inductive invariant behind it.                                      *)
(***************************************************************************)

PanelSpec == ContractsInit(TRUE) /\ [][ContractsNext]_contractsVars

Paths == Ids \cup {NoContract, OtherPage}

Desk == [path : Paths, url : Paths, behind : Seq(Ids \cup {NoContract}),
         asked : DOMAIN Sheets, shown : DOMAIN Sheets \cup {0},
         got : SUBSET DOMAIN Sheets, panel : Ids \cup {NoContract},
         whole : BOOLEAN, tab : {"details", "lifecycle"},
         queries : [Ids -> [data : BOOLEAN, failed : BOOLEAN, asking : BOOLEAN]],
         folded : SUBSET UNION {CardKeys(c) : c \in DOMAIN Histories},
         strayed : BOOLEAN, clicks : Nat]

\* What a change leaves the page to draw: an open panel is on the route of a
\* contract, where a list is shown; it shows the contract that is addressed
\* unless it strayed, and the one the page was opened for if it has no more of
\* it.  Only the first page of the list is waited for.
Ready(d) ==
  /\ d \in Desk /\ Route(d.url) = Route(d.path)
  /\ d.panel # NoContract => Route(d.path) = "contractDetail" /\ d.shown # 0
  /\ ~d.strayed => d.path = (IF d.panel = NoContract THEN d.url ELSE d.panel)
  /\ d.panel # NoContract /\ ~d.whole => d.panel = d.url /\ d.panel \notin Sheets[1]
  /\ d.shown = 0 => d.asked = 1
  /\ d.panel = NoContract /\ Route(d.path) = "contractDetail" => d.shown \in {0, 1}
  /\ \A c \in Ids : d.queries[c].data => c \in DOMAIN Histories

PanelInv ==
  /\ Ready(desk)
  /\ desk.panel = NoContract /\ Route(desk.path) = "contractDetail" => desk.shown = 0
  /\ desk.folded # {} => TimelineShown(desk) /\ desk.folded \subseteq CardKeys(desk.panel)
=============================================================================
