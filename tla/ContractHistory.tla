--------------------------- MODULE ContractHistory ---------------------------
(***************************************************************************)
(* GET /api/v1/contracts/:contractId/lifecycle (routes/contracts.ts): when *)
(* a contract was created, which choices were exercised on it and when it  *)
(* was archived, put together from up to three calls to the participant    *)
(* while the ledger of ContractChain goes on.  A behaviour asks either for *)
(* the history of a contract or for a chain.                               *)
(*                                                                         *)
(* Participants before Canton 3.4 name the update in event ids and the     *)
(* offset of a creation in created_at; later ones do neither, and what is  *)
(* then taken for an offset is a time, beyond the end of the ledger.       *)
(***************************************************************************)
EXTENDS ContractChain

VARIABLE life     \* the request

historyVars == <<chainVars, life>>

Life == [step      : {"idle", "looking", "creation", "archival", "replied",
                      "notFound", "failed"},
         contract  : Contracts,
         named     : BOOLEAN,          \* the participant is an older one
         creation  : 0..MaxTxs,        \* the update of the creation, if found
         archived  : BOOLEAN,          \* there is an archival
         archival  : 0..MaxTxs,        \* its update, if found
         exercised : BOOLEAN,          \* a nonconsuming exercise is listed
         broke     : BOOLEAN,          \* a call failed and was passed over
         began     : 0..MaxTxs]        \* history: the ledger's length at first

HistoryInit ==
  /\ ChainInit
  /\ life = [step |-> "idle", contract |-> 1, named |-> FALSE, creation |-> 0,
             archived |-> FALSE, archival |-> 0, exercised |-> FALSE,
             broke |-> FALSE, began |-> 0]

HistoryAsk ==
  /\ life.step = "idle"
  /\ \E c \in Contracts, named \in BOOLEAN :
       life' = [life EXCEPT !.step = "looking", !.contract = c,
                            !.named = named, !.began = Len(ledger)]

\* getEventsByContractId.
LookUp ==
  /\ life.step = "looking"
  /\ life' = IF life.contract \notin Created
             THEN [life EXCEPT !.step = "notFound"]
             ELSE [life EXCEPT !.step = "creation",
                               !.archived = life.contract \in Archived]

\* The update that created contract c, 0 if it is older than the ledger.
Creator(c) ==
  IF \E t \in DOMAIN ledger : c \in ledger[t].creates
  THEN CHOOSE t \in DOMAIN ledger : c \in ledger[t].creates ELSE 0

AfterCreation == IF life.archived THEN "archival" ELSE "replied"

\* getUpdateMetadataAtOffset, which finds nothing at a time.
FindCreation ==
  /\ life.step = "creation"
  /\ life' = [life EXCEPT
       !.step = AfterCreation,
       !.creation = IF life.named THEN Creator(life.contract) ELSE 0]

ActiveArchival(t, c) == c \in ledger[t].uses     \* mutant: any exercise on it

IsArchival(t, c) == c \in ledger[t].consumes

\* getUpdateById of the update in the id of the archived event.  Only this
\* update is searched for nonconsuming exercises, too.
FindArchival ==
  /\ life.step = "archival"
  /\ LET t == IF life.named THEN Archiver(life.contract) ELSE 0
     IN life' = [life EXCEPT
          !.step = "replied",
          !.archival = IF t # 0 /\ IsArchival(t, life.contract) THEN t ELSE 0,
          !.exercised = t # 0 /\ life.contract \in ledger[t].uses]

\* A failure of the first call fails the request; the others are passed over,
\* and an archival is listed all the same.
LifeFails ==
  \/ life.step = "looking"  /\ life' = [life EXCEPT !.step = "failed"]
  \/ life.step = "creation" /\ life' = [life EXCEPT !.step = AfterCreation,
                                                    !.broke = TRUE]
  \/ life.step = "archival" /\ life' = [life EXCEPT !.step = "replied",
                                                    !.broke = TRUE]

LifeStep == LookUp \/ FindCreation \/ FindArchival \/ LifeFails

HistoryStep == \/ LifeStep /\ UNCHANGED chainVars
               \/ ChainStep /\ UNCHANGED life

HistoryNext ==
  \/ HistoryStep
  \/ Transact /\ life.step \notin {"replied", "notFound", "failed"}
              /\ UNCHANGED life
  \/ life.step = "idle" /\ ChainAsk /\ UNCHANGED life
  \/ chain.step = "idle" /\ HistoryAsk /\ UNCHANGED chainVars

-----------------------------------------------------------------------------
HistoryTypeOK == ChainTypeOK /\ life \in Life

\* The history tells of the contract what the ledger does, although the calls
\* see different ends of it and may fail: updates named for the creation and
\* the archival are those that created and archived it, in this order, an
\* exercise beside the archival is of its update, a contract that was archived
\* before the request came is archived in it, one that is not archived is not,
\* and only a failure or a participant that does not name updates leaves the
\* archival without its update.
LifecycleFollowed ==
  life.step = "replied" =>
    LET c == life.contract
    IN /\ life.creation # 0 => c \in ledger[life.creation].creates
       /\ life.archival # 0 => /\ c \in ledger[life.archival].consumes
                               /\ life.creation <= life.archival
                               /\ life.exercised <=>
                                    c \in ledger[life.archival].uses
       /\ (\E t \in 1..life.began : c \in ledger[t].consumes) => life.archived
       /\ life.archived => c \in Archived
       /\ life.archived /\ life.archival = 0 => ~life.named \/ life.broke

\* Both requests tell what the ledger does.
HistoryFollowed == ChainFollowed /\ LifecycleFollowed

-----------------------------------------------------------------------------
HistorySpec == HistoryInit /\ [][HistoryNext]_historyVars

\* What the request has found so far is so on the ledger.
LifeInv ==
  /\ life = [step |-> life.step, contract |-> life.contract, named |-> life.named,
             creation |-> life.creation, archived |-> life.archived,
             archival |-> life.archival, exercised |-> life.exercised,
             broke |-> life.broke, began |-> life.began]
  /\ life.named \in BOOLEAN /\ life.archived \in BOOLEAN /\ life.broke \in BOOLEAN
  /\ life.began \in 0..Len(ledger)
  /\ life.step \in {"idle", "looking", "creation"} => life.creation = 0
  /\ life.step \in {"idle", "looking", "creation", "archival"} => life.archival = 0
  /\ life.step \in {"creation", "archival", "replied"} =>
       /\ life.archived => life.contract \in Archived
       /\ (\E t \in 1..life.began : life.contract \in ledger[t].consumes) => life.archived
  /\ life.step = "archival" => life.archived
  /\ life.creation # 0 => /\ life.creation \in DOMAIN ledger
                          /\ life.contract \in ledger[life.creation].creates
  /\ life.archival # 0 => /\ life.archival \in DOMAIN ledger
                          /\ life.contract \in ledger[life.archival].consumes
  /\ LifecycleFollowed

HistoryInv == ChainInv /\ LifeInv
=============================================================================
