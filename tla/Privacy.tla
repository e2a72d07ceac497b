------------------------------ MODULE Privacy ------------------------------
(***************************************************************************)
(* Who sees what of a transaction: GET /api/v1/transactions/:updateId/     *)
(* privacy (routes/privacy.ts) and the tree and the matrix the browser     *)
(* draws of its reply (privacy-tree.tsx, visibility-matrix.tsx).           *)
(*                                                                         *)
(* The ledger decides who sees an event: its informees and those of every  *)
(* exercise above it.  The participant tells of an event only to requested *)
(* parties that see it, and names only these as its witnesses, while the   *)
(* signatories, observers and actors of an event are named in full.        *)
(***************************************************************************)
EXTENDS Integers, Sequences, FiniteSets, Sorting

CONSTANTS
  Parties,            \* bound: the parties, hosted by several participants
  MaxPrivateEvents    \* bound: the events of the transaction

ASSUME PrivacyConstantsOK ==
  MaxPrivateEvents \in Nat /\ IsFiniteSet(Parties)

VARIABLES
  executed,   \* the transaction: its events, in the order of the ledger
  privacy     \* the analysis of it

privacyVars == <<executed, privacy>>

\* parent is the exercise the event is a consequence of.
LedgerEvent ==
  [type : {"created", "exercised"}, signatories : SUBSET Parties,
   observers : SUBSET Parties, actingParties : SUBSET Parties,
   informees : SUBSET Parties, parent : 0..MaxPrivateEvents]

PrivacyEvent ==
  [number : 1..MaxPrivateEvents, type : {"created", "exercised"},
   signatories : SUBSET Parties, observers : SUBSET Parties,
   witnesses : SUBSET Parties, actingParties : SUBSET Parties,
   isDisclosed : BOOLEAN]

NotAnalyzed == [step |-> "idle", requested |-> {}, events |-> <<>>,
                matrix |-> <<>>, boundaries |-> {}]

PrivacyInit == executed = <<>> /\ privacy = NotAnalyzed

-----------------------------------------------------------------------------
(***************************************************************************)
(* The ledger.                                                             *)
(***************************************************************************)

\* Event n and the exercises above it: the least set with n that has with an
\* event its parent.
Lineage(n) ==
  {i \in 1..n : \A A \in SUBSET (1..n) :
     (n \in A /\ \A j \in A : executed[j].parent \in A \cup {0}) => i \in A}

Projection(n) == UNION {executed[i].informees : i \in Lineage(n)}

\* Depth first: the next event is a consequence of an exercise the last one
\* is under, or a root.
ExecuteEvent ==
  /\ privacy.step = "idle" /\ Len(executed) < MaxPrivateEvents
  /\ \E parent \in {0} \cup {i \in Lineage(Len(executed)) :
                               executed[i].type = "exercised"} :
       \/ \E s \in SUBSET Parties \ {{}}, o \in SUBSET Parties :
            /\ s \cap o = {}
            /\ executed' = Append(executed,
                 [type |-> "created", signatories |-> s, observers |-> o,
                  actingParties |-> {}, informees |-> s \cup o,
                  parent |-> parent])
       \/ \E a \in SUBSET Parties \ {{}}, i \in SUBSET Parties :
            /\ a \subseteq i
            /\ executed' = Append(executed,
                 [type |-> "exercised", signatories |-> {}, observers |-> {},
                  actingParties |-> a, informees |-> i, parent |-> parent])
  /\ UNCHANGED privacy

-----------------------------------------------------------------------------
(***************************************************************************)
(* The route.                                                              *)
(***************************************************************************)

\* getUpdateById: the events some requested party sees.
Visible(requested) ==
  LET seen == {n \in DOMAIN executed : Projection(n) \cap requested # {}}
  IN Sorted(seen, Ascending(seen))

BuildPrivacyEvent(n, requested) ==
  LET e == executed[n]
      w == Projection(n) \cap requested
  IN [number |-> n, type |-> e.type, signatories |-> e.signatories,
      observers |-> e.observers, witnesses |-> w,
      actingParties |-> e.actingParties,
      isDisclosed |-> /\ e.type = "exercised"
                      /\ Cardinality(w) > Cardinality(e.actingParties)]

IsVisibleToParty(pe, party) ==
  party \in pe.signatories \cup pe.observers \cup pe.witnesses
              \cup pe.actingParties

PartiesOf(events) ==
  UNION {{p \in Parties : IsVisibleToParty(events[i], p)} : i \in DOMAIN events}

\* For every party the positions of the events it can see.
VisibilityMatrix(events) ==
  [p \in PartiesOf(events) |->
     {i \in DOMAIN events : IsVisibleToParty(events[i], p)}]

\* Exercises have neither signatories nor observers here, so of a disclosed
\* one every party that sees it is listed, its actors too.
DisclosedBoundaries(events) ==
  {b \in [event : DOMAIN events, accessedBy : PartiesOf(events)] :
     LET pe == events[b.event]
     IN /\ pe.isDisclosed
        /\ IsVisibleToParty(pe, b.accessedBy)
        /\ b.accessedBy \notin pe.signatories \cup pe.observers}

PrivacyEvents(requested) ==
  LET seen == Visible(requested)
  IN [i \in DOMAIN seen |-> BuildPrivacyEvent(seen[i], requested)]

AnalysisOf(requested) ==
  LET events == PrivacyEvents(requested)
  IN [step |-> "analyzed", requested |-> requested, events |-> events,
      matrix |-> VisibilityMatrix(events),
      boundaries |-> DisclosedBoundaries(events)]

\* The requested parties are those the bootstrap found, which need not be all
\* that take part.
Analyze ==
  /\ privacy.step = "idle" /\ executed # <<>>
  /\ \E requested \in SUBSET Parties :
       privacy' = IF Visible(requested) = <<>>
                  THEN [NotAnalyzed EXCEPT !.step = "notFound"]
                  ELSE AnalysisOf(requested)
  /\ UNCHANGED executed

PrivacyNext == ExecuteEvent \/ Analyze

-----------------------------------------------------------------------------
(***************************************************************************)
(* The views.                                                              *)
(***************************************************************************)

\* invertVisibilityMatrix and canSee.
CanSee(event, party) == party \in {p \in DOMAIN privacy.matrix :
                                     event \in privacy.matrix[p]}

\* A tree node is greyed when the highlighted party, or without one every
\* selected party, is no witness.
IsGrayed(event, selected, highlighted) ==
  LET w == privacy.events[event].witnesses
  IN IF highlighted = {} THEN w \cap selected = {} ELSE highlighted \cap w = {}

RelatedByActors(x, y) ==                  \* mutant: no test of the witnesses
  x.actingParties \cap (y.signatories \cup y.witnesses) # {}

Related(x, y) ==
  \/ x.actingParties \cap (y.signatories \cup y.witnesses) # {}
  \/ x.witnesses \cap y.witnesses # {}

\* buildTreeLayout: a create goes under the first exercise before it that has
\* a party in common with it, whether or not it is a consequence of that one.
Claimants(y) ==
  {x \in 1..(y - 1) : /\ privacy.events[y].type = "created"
                      /\ privacy.events[x].type = "exercised"
                      /\ Related(privacy.events[x], privacy.events[y])}

DrawnUnder(x) ==
  {y \in DOMAIN privacy.events :
     x \in Claimants(y) /\ \A z \in Claimants(y) : x <= z}

Roots == {x \in DOMAIN privacy.events : Claimants(x) = {}}

\* A node of the tree, with the root it is drawn under.
TreeNodes ==
  {[event |-> x, root |-> x, depth |-> 0] : x \in Roots}
    \cup UNION {{[event |-> y, root |-> x, depth |-> 1] : y \in DrawnUnder(x)} :
                 x \in Roots}

\* layoutSubtree from every root.  Creates have no children of their own.
LayoutOrder ==
  {p \in TreeNodes \X TreeNodes :
     \/ p[1].root < p[2].root
     \/ /\ p[1].root = p[2].root
        /\ \/ p[1].depth < p[2].depth
           \/ p[1].depth = p[2].depth /\ p[1].event < p[2].event}

Layout == Sorted(TreeNodes, LayoutOrder)

\* Where the k-th node of a layout is drawn.
Place(nodes, k) ==
  [depth |-> nodes[k].depth,
   index |-> Cardinality({j \in 1..(k - 1) : nodes[j].depth = nodes[k].depth})]

-----------------------------------------------------------------------------
PrivacyTypeOK ==
  /\ executed \in Seq(LedgerEvent) /\ Len(executed) <= MaxPrivateEvents
  /\ privacy.step \in {"idle", "notFound", "analyzed"}
  /\ privacy.requested \subseteq Parties
  /\ privacy.events \in Seq(PrivacyEvent)
  /\ DOMAIN privacy.matrix \subseteq Parties

\* The analysis is true to the ledger.  No party is shown to see an event it
\* does not see, and of the requested parties none is missing, though the
\* witnesses are cut down to them.  The tree has every event once, each at a
\* place of its own, and no create among the roots whose exercise is drawn;
\* when every party was requested it greys what the matrix leaves unticked
\* and marks exercises that others than the actors see.  What is listed as a
\* disclosed boundary is seen there.
ProjectionShown ==
  privacy.step = "analyzed" =>
    LET events == privacy.events
        nodes == Layout
        all == Parties \subseteq privacy.requested
    IN /\ \A e \in DOMAIN events, p \in Parties :
            /\ CanSee(e, p) => p \in Projection(events[e].number)
            /\ p \in privacy.requested =>
                 (p \in Projection(events[e].number) => CanSee(e, p))
       /\ \A n \in DOMAIN executed, p \in privacy.requested :
            p \in Projection(n) => \E e \in DOMAIN events : events[e].number = n
       /\ \A k \in DOMAIN nodes : nodes[k].event \in DOMAIN events
       /\ \A e \in DOMAIN events : \E k \in DOMAIN nodes : nodes[k].event = e
       /\ \A j, k \in DOMAIN nodes :
            j # k => /\ nodes[j].event # nodes[k].event
                     /\ Place(nodes, j) # Place(nodes, k)
       /\ \A e, x \in DOMAIN events :
            /\ events[e].type = "created"
            /\ events[x].number \in Lineage(events[e].number) \ {events[e].number}
            => e \notin Roots
       /\ all => \A e \in DOMAIN events, selected \in SUBSET Parties :
            /\ IsGrayed(e, selected, {}) <=> ~\E p \in selected : CanSee(e, p)
            /\ events[e].type = "exercised" =>
                 (events[e].isDisclosed <=>
                    \E p \in Parties \ events[e].actingParties : CanSee(e, p))
       /\ \A b \in privacy.boundaries : CanSee(b.event, b.accessedBy)
=============================================================================
