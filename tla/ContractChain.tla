---------------------------- MODULE ContractChain ----------------------------
(***************************************************************************)
(* GET /api/v1/workflows by contract chain (correlateByContractChain and   *)
(* buildTimeline of routes/workflows.ts): from one contract on, the route  *)
(* follows archived contracts to the transactions that archived them and   *)
(* from there to the contracts these created, one participant call after   *)
(* the other, while the ledger goes on.  The parties of the request see    *)
(* the whole ledger and nothing of it is pruned.                           *)
(***************************************************************************)
EXTENDS Integers, Sequences, FiniteSets, Sorting

CONSTANTS
  Contracts,     \* bound: the contracts of the ledger
  MaxTxs         \* bound: the transactions of the ledger

ASSUME ChainConstantsOK ==
  /\ Contracts \subseteq Nat /\ IsFiniteSet(Contracts) /\ 1 \in Contracts
  /\ MaxTxs \in Nat

VARIABLES
  ledger,   \* the transactions, in the order of their record times
  chain     \* the request

chainVars == <<ledger, chain>>

\* uses: contracts a nonconsuming choice was exercised on.
Tx == [consumes : SUBSET Contracts, uses : SUBSET Contracts,
       creates : SUBSET Contracts]

Chain == [step     : {"idle", "looking", "fetching", "replied", "failed"},
          max      : 1..MaxTxs,               \* maxTransactions
          named    : BOOLEAN,                 \* event ids name their update
          queue    : Seq(Contracts),          \* contractQueue
          visited  : SUBSET Contracts,
          fetching : 0..MaxTxs,               \* the update being fetched
          updates  : Seq(1..MaxTxs),
          flows    : SUBSET [from : 1..MaxTxs, to : 1..MaxTxs,
                             contract : Contracts],
          began    : 0..MaxTxs]     \* history: the ledger's length at first

\* Contract 1, where the chains start, exists from the beginning.
Created  == {1} \cup UNION {ledger[t].creates : t \in DOMAIN ledger}
Archived == UNION {ledger[t].consumes : t \in DOMAIN ledger}

ChainInit ==
  /\ ledger = <<>>
  /\ chain = [step |-> "idle", max |-> 1, named |-> TRUE, queue |-> <<>>,
              visited |-> {}, fetching |-> 0, updates |-> <<>>, flows |-> {},
              began |-> 0]

\* A transaction archives active contracts or some of those it creates, which
\* get the lowest free numbers.
Fresh(creates) ==
  \A c \in creates, d \in Contracts \ Created : d < c => d \in creates

Transact ==
  /\ Len(ledger) < MaxTxs
  /\ chain.step \notin {"replied", "failed"}
  /\ \E creates \in {s \in SUBSET (Contracts \ Created) : Fresh(s)} :
       LET there == (Created \cup creates) \ Archived
       IN \E consumes \in SUBSET there, uses \in SUBSET there :
            /\ consumes \ creates # {}
            /\ Cardinality(uses) <= 1
            /\ ledger' = Append(ledger, [consumes |-> consumes, uses |-> uses,
                                         creates |-> creates])
  /\ UNCHANGED chain

-----------------------------------------------------------------------------
(***************************************************************************)
(* The request.  Each step that awaits the participant ends an action.     *)
(***************************************************************************)

ChainAsk ==
  /\ chain.step = "idle"
  /\ \E max \in 1..MaxTxs, named \in BOOLEAN :
       chain' = [chain EXCEPT !.step = "looking", !.max = max,
                              !.named = named, !.queue = <<1>>,
                              !.began = Len(ledger)]
  /\ UNCHANGED ledger

\* The loop goes on while there is a contract to look at and room for more.
Looking ==
  /\ chain.step = "looking"
  /\ chain.queue # <<>> /\ Len(chain.updates) < chain.max

Contract == Head(chain.queue)

\* A contract seen before is skipped.
Skip ==
  /\ Looking /\ Contract \in chain.visited
  /\ chain' = [chain EXCEPT !.queue = Tail(@)]
  /\ UNCHANGED ledger

\* The transaction that archived contract c, 0 if it is active.
Archiver(c) ==
  IF c \in Archived
  THEN CHOOSE t \in DOMAIN ledger : c \in ledger[t].consumes ELSE 0

\* getEventsByContractId.  Only the event of an archived contract leads to an
\* update, and only if event ids have the form #<updateId>:<index>.
Look ==
  /\ Looking /\ Contract \notin chain.visited
  /\ LET t == IF chain.named THEN Archiver(Contract) ELSE 0
     IN chain' = [chain EXCEPT !.queue = Tail(@), !.visited = @ \cup {Contract},
                               !.fetching = t,
                               !.step = IF t = 0 THEN "looking"
                                        ELSE "fetching"]
  /\ UNCHANGED ledger

AddAgain(updates, t) == Append(updates, t)       \* mutant: no test for it

Add(updates, t) ==
  IF \E i \in DOMAIN updates : updates[i] = t THEN updates
  ELSE Append(updates, t)

\* getUpdateById.  Its contracts are queued whether the update is new or not,
\* in the order of its events.
Fetch ==
  /\ chain.step = "fetching"
  /\ \E children \in Orders(ledger[chain.fetching].creates) :
       chain' = [chain EXCEPT !.step = "looking", !.fetching = 0,
                              !.updates = Add(@, chain.fetching),
                              !.queue = @ \o children]
  /\ UNCHANGED ledger

\* Either call throws, and the route with it.
ChainFails ==
  /\ chain.step = "fetching" \/ (Looking /\ Contract \notin chain.visited)
  /\ chain' = [chain EXCEPT !.step = "failed", !.queue = <<>>, !.visited = {},
                            !.fetching = 0, !.updates = <<>>]
  /\ UNCHANGED ledger

\* What buildTimeline takes for consumed: every contract a choice was
\* exercised on.
Exercised(t) == ledger[t].consumes \cup ledger[t].uses

Listed == {chain.updates[i] : i \in DOMAIN chain.updates}

\* A link from the listed creator of a contract to a listed consumer.
Links ==
  {f \in [from : Listed, to : Listed, contract : Contracts] :
     /\ f.from # f.to
     /\ f.contract \in ledger[f.from].creates
     /\ f.contract \in Exercised(f.to)}

\* buildTimeline sorts the updates by their record times.
Finish ==
  /\ chain.step = "looking" /\ ~Looking
  /\ \E p \in Orders(DOMAIN chain.updates) :
       LET sorted == [i \in DOMAIN p |-> chain.updates[p[i]]]
       IN /\ \A i, j \in DOMAIN sorted : i < j => sorted[i] <= sorted[j]
          /\ chain' = [chain EXCEPT !.step = "replied", !.flows = Links,
                                    !.updates = sorted]
  /\ UNCHANGED ledger

ChainStep == Skip \/ Look \/ Fetch \/ ChainFails \/ Finish

ChainNext == Transact \/ ChainAsk \/ ChainStep

-----------------------------------------------------------------------------
ChainTypeOK ==
  /\ ledger \in Seq(Tx) /\ Len(ledger) <= MaxTxs
  /\ chain \in Chain

\* A contract the chain reaches: the first one, or one that a listed update
\* created.
Reached == {1} \cup UNION {ledger[t].creates : t \in Listed}

\* The reply follows the chain: it lists every update at most once and no
\* more than asked for, each archives a contract the chain had reached, and
\* unless it is full none is missing that had archived one before the request
\* came.  Its links lead from earlier to later updates, and every contract
\* that passed between two of them is linked.
ChainFollowed ==
  chain.step = "replied" =>
    /\ Cardinality(Listed) = Len(chain.updates)
    /\ Len(chain.updates) <= chain.max
    /\ \A t \in Listed : ledger[t].consumes \cap Reached # {}
    /\ chain.named /\ Len(chain.updates) < chain.max =>
         \A t \in 1..chain.began :
           ledger[t].consumes \cap Reached # {} => t \in Listed
    /\ \A f \in chain.flows : f.from < f.to
    /\ \A t, u \in Listed : t # u =>
         \A c \in ledger[t].creates \cap ledger[u].consumes :
           [from |-> t, to |-> u, contract |-> c] \in chain.flows

-----------------------------------------------------------------------------
(***************************************************************************)
(* The inductive invariant behind it.                                      *)
(***************************************************************************)

\* A contract is created once, before it is used and archived, and archived
\* once.
LedgerInv ==
  /\ ledger \in Seq(Tx)
  /\ \A t \in DOMAIN ledger : 1 \notin ledger[t].creates
  /\ \A t, u \in DOMAIN ledger : t # u =>
       /\ ledger[t].creates \cap ledger[u].creates = {}
       /\ ledger[t].consumes \cap ledger[u].consumes = {}
  /\ \A t \in DOMAIN ledger : \A c \in Exercised(t) :
       c = 1 \/ \E u \in 1..t : c \in ledger[u].creates

Queue == {chain.queue[i] : i \in DOMAIN chain.queue}

ChainShape ==
  /\ chain = [step |-> chain.step, max |-> chain.max, named |-> chain.named,
              queue |-> chain.queue, visited |-> chain.visited,
              fetching |-> chain.fetching, updates |-> chain.updates,
              flows |-> chain.flows, began |-> chain.began]
  /\ chain.step \in {"idle", "looking", "fetching", "replied", "failed"}
  /\ chain.max \in Nat /\ chain.queue \in Seq(Contracts)
  /\ chain.updates \in Seq(DOMAIN ledger) /\ chain.began \in 0..Len(ledger)
  /\ chain.step = "idle" => chain.visited = {} /\ chain.updates = <<>>

\* The loop of a request: what it listed it reached, and what it reached it
\* has looked at, with the update that archived it, or will.
ChainLoop ==
  /\ \A i, j \in DOMAIN chain.updates : i # j => chain.updates[i] # chain.updates[j]
  /\ Len(chain.updates) <= chain.max
  /\ Queue \cup chain.visited = Reached
  /\ \A t \in Listed : ledger[t].consumes \cap chain.visited # {}
  /\ chain.step = "fetching" =>
       /\ chain.fetching \in DOMAIN ledger /\ Len(chain.updates) < chain.max
       /\ ledger[chain.fetching].consumes \cap chain.visited # {}
  /\ chain.named => \A t \in 1..chain.began :
       ledger[t].consumes \cap chain.visited # {} =>
         t \in Listed \/ (chain.step = "fetching" /\ t = chain.fetching)

ChainInv ==
  /\ LedgerInv /\ ChainShape
  /\ chain.step \in {"looking", "fetching"} => ChainLoop
  /\ ChainFollowed
=============================================================================
