--------------------------- MODULE TemplateExplorer ---------------------------
(***************************************************************************)
(* The template explorer (frontend/src/features/template-explorer): a tree *)
(* of packages beside the template that is selected.  Only the package     *)
(* opened last and the one of the selection are asked for their templates, *)
(* what arrives is kept in a map of the page, and effects open the first   *)
(* package, select its first template or the one the address names.  The   *)
(* rows of the tree keep their own state, and lose it when a search or a   *)
(* closed group takes them from the tree.                                  *)
(***************************************************************************)
EXTENDS Integers, Sequences

CONSTANTS
  Library,    \* the packages as listed, the user's first: id, name, whether a
              \* user's, templates in their order
  Addresses,  \* the templates links name: package name or Unnamed, template
  Searches    \* what may be typed: names of packages or templates

Unnamed == "unnamed"
NoSearch == "no search"

ASSUME ExplorerConstantsOK ==
  Library \in Seq([id : STRING \ {Unnamed}, name : STRING, user : BOOLEAN,
                   templates : Seq(STRING)])

PackageIds == {Library[i].id : i \in DOMAIN Library}
PackageOf(id) == Library[CHOOSE i \in DOMAIN Library : Library[i].id = id]
Templates(id) == LET names == PackageOf(id).templates IN {names[i] : i \in DOMAIN names}

\* The first package of the list that has a property.
FirstListed(S) ==
  IF S = {} THEN Unnamed
  ELSE Library[CHOOSE i \in DOMAIN Library :
                 /\ Library[i].id \in S
                 /\ \A j \in 1..(i - 1) : Library[j].id \notin S].id

Unselected == [id |-> Unnamed, template |-> Unnamed]

VARIABLE explorer

explorerVars == <<explorer>>

-----------------------------------------------------------------------------
\* The packages as the gateway lists them, the user's first.
ListedPackages(x) == IF x.listed THEN PackageIds ELSE {}

FirstUserPackage(x) ==
  FirstListed({id \in ListedPackages(x) : PackageOf(id).user})

\* The packages whose templates are asked for.
Subscribed(x) == {x.selected.id, x.expanded} \ {Unnamed}

\* packageMatchesFilter, which knows the templates of the packages opened so
\* far, and packagesWithMatches.
MatchesWithin(x, id) == id \in x.known /\ x.search \in Templates(id)
MatchesSearch(x, id) ==
  x.search = NoSearch \/ x.search = PackageOf(id).name \/ MatchesWithin(x, id)

\* The rows of the tree.
Rowed(x) ==
  {id \in ListedPackages(x) : MatchesSearch(x, id) /\ (PackageOf(id).user \/ x.showSystem)}

IsOpen(x, id) == IF x.search = NoSearch THEN id \in x.open ELSE MatchesWithin(x, id)

\* The templates that can be clicked.
Clickable(x) ==
  {[id |-> id, template |-> t] :
     id \in Rowed(x) \cap x.known, t \in UNION {Templates(i) : i \in PackageIds}}
Shown(x) ==
  {s \in Clickable(x) : /\ IsOpen(x, s.id) /\ s.template \in Templates(s.id)
                        /\ x.search \in {NoSearch, s.template}}

ResolvedTemplate(x) ==
  IF x.selected.id \in x.known /\ x.selected.template \in Templates(x.selected.id)
  THEN x.selected ELSE Unselected

-----------------------------------------------------------------------------
(***************************************************************************)
(* The effects that follow a change from x to y.                           *)
(***************************************************************************)

\* The details of a subscribed package are asked for when there are none.
DetailsAsked(x, y) ==
  [y EXCEPT !.details = [id \in PackageIds |->
     IF id \in Subscribed(y) \ Subscribed(x) /\ @[id] \in {"none", "failed"}
     THEN "asked" ELSE @[id]]]

\* The address first, or the first package of the user's.
UrlTarget(y) ==
  LET named == {id \in ListedPackages(y) : PackageOf(id).name = y.url.package}
  IN IF named # {} THEN FirstListed(named) ELSE FirstUserPackage(y)

UrlHandled(y) ==
  LET target == UrlTarget(y)
  IN IF y.url = Unselected \/ y.urlHandled \/ target = Unnamed THEN y
     ELSE [y EXCEPT !.expanded = target, !.loaded = @ \cup {target}, !.urlHandled = TRUE,
                    !.selected = [id |-> target, template |-> y.url.template]]

AutoExpanded(x, y) ==
  LET first == FirstUserPackage(y)
  IN IF /\ first \notin {Unnamed, FirstUserPackage(x)} /\ y.url = Unselected
        /\ y.expanded = Unnamed /\ y.selected = Unselected
     THEN [y EXCEPT !.expanded = first, !.loaded = @ \cup {first}] ELSE y

\* What a subscribed package has answered goes into the map.
Known(y) == [y EXCEPT !.known = @ \cup {id \in Subscribed(y) : y.details[id] = "have"}]

AutoSelectedLate(y) ==               \* mutant: also over a selection
  LET first == FirstUserPackage(y)
  IN IF first \notin y.known \/ PackageOf(first).templates = <<>> THEN y
     ELSE [y EXCEPT !.selected = [id |-> first, template |-> PackageOf(first).templates[1]]]

AutoSelectedTemplate(y) ==
  LET first == FirstUserPackage(y)
  IN IF y.selected # Unselected \/ first \notin y.known \/ PackageOf(first).templates = <<>>
     THEN y
     ELSE [y EXCEPT !.selected = [id |-> first, template |-> PackageOf(first).templates[1]]]

\* The rows: one that appears is open when it has the selection, one that gets
\* the selection opens.
RowsKept(x, y) ==
  [y EXCEPT
     !.open = {id \in Rowed(y) :
                 \/ id \in y.open /\ id \in Rowed(x)
                 \/ id = y.selected.id /\ (id \notin Rowed(x) \/ id # x.selected.id)},
     !.closed = {id \in Rowed(y) \cap Rowed(x) : id \in y.closed /\ id = x.selected.id}]

Effects(x, y) ==
  LET opened == AutoExpanded(x, UrlHandled(y))
      known  == AutoSelectedTemplate(Known(DetailsAsked(x, opened)))
  IN RowsKept(x, DetailsAsked(opened, known))

-----------------------------------------------------------------------------
ExplorerInit(open) ==
  explorer \in [listed : {FALSE}, details : {[id \in PackageIds |-> "none"]}, known : {{}},
                loaded : {{}}, expanded : {Unnamed},
                selected : {Unselected}, picked : {Unselected},
                url : IF open THEN {Unselected} \cup Addresses ELSE {Unselected},
                urlHandled : {FALSE}, search : {NoSearch}, showSystem : {TRUE},
                open : {{}}, closed : {{}}]

Becomes(y) == explorer' = Effects(explorer, y)

LibraryListed ==
  ~explorer.listed /\ Becomes([explorer EXCEPT !.listed = TRUE])

\* After one retry.
DetailAnswered ==
  \E id \in PackageIds :
    /\ explorer.details[id] = "asked"
    /\ \E answer \in {"have", "failed"} : Becomes([explorer EXCEPT !.details[id] = answer])

\* handleToggle, which does nothing during a search.
TogglePackage ==
  /\ explorer.search = NoSearch
  /\ \E id \in Rowed(explorer) :
       LET opens == id \notin explorer.open
           asks  == opens /\ id \notin explorer.known
       IN Becomes([explorer EXCEPT
            !.open = IF opens THEN @ \cup {id} ELSE @ \ {id},
            !.closed = IF opens THEN @ \ {id} ELSE @ \cup {id},
            !.expanded = IF asks THEN id ELSE @,
            !.loaded = IF asks THEN @ \cup {id} ELSE @])

\* A click on a template, or on its module when it is the first there.
PickTemplate ==
  \E s \in Shown(explorer) :
    LET asks == s.id \notin explorer.loaded
    IN Becomes([explorer EXCEPT !.selected = s, !.picked = s,
         !.expanded = IF asks THEN s.id ELSE @,
         !.loaded = IF asks THEN @ \cup {s.id} ELSE @])

\* The search and its effect on the group of system packages.
Search ==
  \E text \in (Searches \cup {NoSearch}) \ {explorer.search} :
    LET y == [explorer EXCEPT !.search = text]
        systems == {id \in ListedPackages(y) : ~PackageOf(id).user /\ MatchesSearch(y, id)}
    IN Becomes([y EXCEPT !.showSystem =
         CASE text = NoSearch                                -> FALSE
           [] explorer.search = NoSearch /\ systems # {}     -> TRUE
           [] OTHER                                          -> @])

ToggleSystem ==
  /\ \E id \in ListedPackages(explorer) : ~PackageOf(id).user /\ MatchesSearch(explorer, id)
  /\ Becomes([explorer EXCEPT !.showSystem = ~@])

ExplorerNext ==
  LibraryListed \/ DetailAnswered \/ TogglePackage \/ PickTemplate \/ Search \/ ToggleSystem

-----------------------------------------------------------------------------
Names == {Unnamed} \cup (UNION {Templates(id) : id \in PackageIds})
           \cup {a.template : a \in Addresses}

Picks == [id : PackageIds \cup {Unnamed}, template : Names]

Explorer ==
  [listed : BOOLEAN, details : [PackageIds -> {"none", "asked", "have", "failed"}],
   known : SUBSET PackageIds, loaded : SUBSET PackageIds,
   expanded : PackageIds \cup {Unnamed}, selected : Picks, picked : Picks,
   url : {Unselected} \cup Addresses, urlHandled : BOOLEAN,
   search : Searches \cup {NoSearch}, showSystem : BOOLEAN,
   open : SUBSET PackageIds, closed : SUBSET PackageIds]

ExplorerTypeOK == explorer \in Explorer

\* Nothing the page selects by itself, for an address or a late answer, takes
\* the place of what the user has picked; what was picked is shown; the row of
\* the selection is open unless the user closed it, a search or a closed group
\* in between notwithstanding; and the templates of every package in the map
\* were asked for, so a click on one never has to ask for its package.
PickKept ==
  /\ explorer.picked # Unselected => ResolvedTemplate(explorer) = explorer.picked
  /\ (explorer.search = NoSearch /\ explorer.selected.id \in Rowed(explorer))
       => explorer.selected.id \in explorer.open \cup explorer.closed
  /\ explorer.known \subseteq explorer.loaded

-----------------------------------------------------------------------------
(***************************************************************************)
(* The inductive invariant behind it.                                      *)
(***************************************************************************)

ExplorerStart == \E open \in BOOLEAN : ExplorerInit(open)
ExplorerSpec == ExplorerStart /\ [][ExplorerNext]_explorerVars

\* What is in the map was asked for and has come; so was what is subscribed to.
MapFilled(x) ==
  /\ x.known \subseteq {id \in x.loaded : x.details[id] = "have"}
  /\ {x.expanded, x.selected.id} \subseteq x.loaded \cup {Unnamed}

PickedKnown(x) ==
  x.picked # Unselected =>
    /\ x.listed /\ x.selected = x.picked
    /\ x.picked.id \in x.known /\ x.picked.template \in Templates(x.picked.id)

\* An address waits only while the list has nothing for it.
Addressed(x) ==
  x.listed /\ x.url # Unselected /\ ~x.urlHandled => UrlTarget(x) = Unnamed

RowOfSelection(x) ==
  x.selected.id \in Rowed(x) => x.selected.id \in x.open \cup x.closed

ExplorerInv ==
  /\ ExplorerTypeOK /\ MapFilled(explorer) /\ PickedKnown(explorer)
  /\ Addressed(explorer) /\ RowOfSelection(explorer)
=============================================================================
