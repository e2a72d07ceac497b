---------------------------- MODULE EngineInput ----------------------------
(***************************************************************************)
(* What a trace or a simulation is run against.  POST /api/v1/trace and an *)
(* offline POST /api/v1/simulate collect the contracts of an offset and    *)
(* the packages the session knows, and have the engine service run the     *)
(* command on them (routes/trace.ts, simulate.ts, EngineExecutor.scala);   *)
(* an online one has the participant prepare it.  The ledger goes on       *)
(* between the awaits, packages are uploaded and the bootstrap data that   *)
(* name them are refreshed.                                                *)
(*                                                                         *)
(* The command is an exercise on one contract and is admitted whenever     *)
(* that contract and its package are found.  Package bytes are those of    *)
(* the hash that is the package's id, so a cached package is the           *)
(* participant's; of packages only the versions of the contract's one are  *)
(* told apart.                                                             *)
(***************************************************************************)
EXTENDS Integers, Sequences
LOCAL INSTANCE SequencesExt

CONSTANTS
  MaxVersion,   \* bound: the versions of the package
  MaxCommits    \* bound: the offsets of the ledger

ASSUME EngineInputConstantsOK == MaxVersion \in Nat \ {0} /\ MaxCommits \in Nat

Versions == 1..MaxVersion

\* No such version; the package name then stands for itself.
Unresolved == 0

VARIABLES
  target,     \* the contract of the command, and the end of the ledger
  uploaded,   \* the versions the participant has
  known,      \* those of bootstrapInfo.packages, in its order
  job         \* the request, with the locals of its handler

inputVars == <<target, uploaded, known, job>>

NoJob ==
  [step |-> "idle", kind |-> "none", timeTravel |-> FALSE, disclosed |-> "no",
   sees |-> FALSE, packages |-> <<>>, since |-> 0, offset |-> 0, acs |-> FALSE,
   loaded |-> 0, outcome |-> "none", source |-> Unresolved]

InputInit ==
  /\ target = [end |-> 0, created |-> 0, archived |-> 0, version |-> Unresolved]
  /\ uploaded = {} /\ known = <<>> /\ job = NoJob

-----------------------------------------------------------------------------
(***************************************************************************)
(* The participant.                                                        *)
(***************************************************************************)

ActiveAt(offset) ==
  /\ target.created \in 1..offset
  /\ target.archived = 0 \/ target.archived > offset

\* Bound: a behaviour ends with its reply.
Unanswered == job.step # "done"

\* The contract is created or archived, or something else happens.
Proceed ==
  LET next == [target EXCEPT !.end = @ + 1]
  IN /\ target.end < MaxCommits /\ Unanswered
     /\ \/ target' = next
        \/ /\ target.created = 0
           /\ \E v \in uploaded :
                target' = [next EXCEPT !.created = next.end, !.version = v]
        \/ /\ target.created > 0 /\ target.archived = 0
           /\ target' = [next EXCEPT !.archived = next.end]
     /\ UNCHANGED <<uploaded, known, job>>

\* Bound: before the request only, since it keeps the context it began with.
Upload ==
  /\ job.step = "idle" /\ \E v \in Versions \ uploaded : uploaded' = uploaded \cup {v}
  /\ UNCHANGED <<target, known, job>>

\* A connection or a refresh lists the packages anew, in any order.
Relisted ==
  /\ job.step = "idle"
  /\ known' \in SetToSeqs(uploaded)
  /\ UNCHANGED <<target, uploaded, job>>

-----------------------------------------------------------------------------
(***************************************************************************)
(* The routes.                                                             *)
(***************************************************************************)

\* A historical offset is one the ledger has reached; parties that act or read
\* see the contract or not; a disclosed contract comes with the name of its
\* package or, if the user knows it, its id.
AskFor ==
  /\ job.step = "idle"
  /\ \E kind \in {"trace", "offline", "online"}, sees \in BOOLEAN,
        disclosed \in {"no", "byName", "byId"}, timeTravel \in BOOLEAN :
       \E offset \in IF timeTravel THEN 0..target.end ELSE {0} :
         job' = [NoJob EXCEPT !.step = "ledgerEnd", !.kind = kind,
                   !.timeTravel = timeTravel, !.offset = offset, !.sees = sees,
                   !.disclosed = disclosed, !.packages = known,
                   !.since = target.end]
  /\ UNCHANGED <<target, uploaded, known>>

\* An online simulation takes no notice of a historical offset.
GetLedgerEnd ==
  /\ job.step = "ledgerEnd"
  /\ IF job.kind = "online"
     THEN job' = [job EXCEPT !.step = "prepare", !.offset = target.end]
     ELSE job' = [job EXCEPT !.step = "acs",
                    !.offset = IF job.timeTravel THEN @ ELSE target.end]
  /\ UNCHANGED <<target, uploaded, known>>

GetActiveContractsNow ==             \* mutant: the contracts of the moment
  /\ job.step = "acs"
  /\ job' = [job EXCEPT !.step = "packages", !.acs = job.sees /\ ActiveAt(target.end)]
  /\ UNCHANGED <<target, uploaded, known>>

GetActiveContracts ==
  /\ job.step = "acs"
  /\ job' = [job EXCEPT !.step = "packages", !.acs = job.sees /\ ActiveAt(job.offset)]
  /\ UNCHANGED <<target, uploaded, known>>

\* One package after the other, from the cache or from the participant.
GetPackage ==
  /\ job.step = "packages"
  /\ job' = IF job.loaded < Len(job.packages) THEN [job EXCEPT !.loaded = @ + 1]
            ELSE [job EXCEPT !.step = "engine"]
  /\ UNCHANGED <<target, uploaded, known>>

\* The first package of the name is taken for the package of the command, and
\* for that of every contract found on the ledger.
Resolved == IF job.packages = <<>> THEN Unresolved ELSE job.packages[1]

\* What is found as it is on the ledger is accepted, unless it is of another
\* version than the resolved one; what was only disclosed may be.
Outcomes(found, disclosed) ==
  (IF Resolved # Unresolved /\ (found \/ disclosed) THEN {"success"} ELSE {})
    \cup (IF found /\ Resolved = target.version THEN {} ELSE {"refused"})

\* Only a trace passes on disclosed contracts.  It leaves their package as it
\* is, and the engine knows no package by its name.
Disclosed == job.kind = "trace" /\ job.disclosed = "byId"

RunEngine ==
  /\ job.step = "engine"
  /\ \E outcome \in Outcomes(job.acs, Disclosed) :
       job' = [job EXCEPT !.outcome = outcome,
                 !.step = IF job.kind = "trace" /\ Resolved # Unresolved
                          THEN "decompile" ELSE "done"]
  /\ UNCHANGED <<target, uploaded, known>>

\* A trace comes without source, which the engine service decompiles from the
\* package; that it cannot is no failure of the trace.
Decompile ==
  /\ job.step = "decompile"
  /\ \E source \in {Resolved, Unresolved} :
       job' = [job EXCEPT !.step = "done", !.source = source]
  /\ UNCHANGED <<target, uploaded, known>>

\* The participant has the contracts of the moment.
PrepareSubmission ==
  /\ job.step = "prepare"
  /\ LET active == ActiveAt(target.end)
     IN \E outcome \in Outcomes(active /\ job.sees, active /\ job.disclosed # "no") :
          job' = [job EXCEPT !.step = "done", !.outcome = outcome]
  /\ UNCHANGED <<target, uploaded, known>>

\* The participant or the engine service cannot be reached.
InputCallFails ==
  /\ job.step \in {"ledgerEnd", "acs", "packages", "engine", "prepare"}
  /\ job' = [job EXCEPT !.step = "done", !.outcome = "failed"]
  /\ UNCHANGED <<target, uploaded, known>>

InputNext ==
  \/ Proceed \/ Upload \/ Relisted
  \/ AskFor \/ GetLedgerEnd \/ GetActiveContracts \/ GetPackage \/ RunEngine
  \/ Decompile \/ PrepareSubmission \/ InputCallFails

-----------------------------------------------------------------------------
Target == [end : 0..MaxCommits, created : 0..MaxCommits, archived : 0..MaxCommits,
           version : Versions \cup {Unresolved}]

Job == [step : {"idle", "ledgerEnd", "acs", "packages", "engine", "decompile",
                "prepare", "done"},
        kind : {"none", "trace", "offline", "online"}, timeTravel : BOOLEAN,
        disclosed : {"no", "byName", "byId"}, sees : BOOLEAN,
        packages : Seq(Versions), since : Nat, offset : Nat, acs : BOOLEAN,
        loaded : Nat, outcome : {"none", "success", "refused", "failed"},
        source : Versions \cup {Unresolved}]

InputTypeOK ==
  /\ target \in Target /\ {target.created, target.archived} \subseteq 0..target.end
  /\ uploaded \subseteq Versions /\ known \in Seq(Versions)
  /\ job \in Job /\ job.offset \in 0..target.end /\ job.loaded \in 0..Len(job.packages)

InputSpec == InputInit /\ [][InputNext]_inputVars

\* A trace or an offline simulation says what would have happened at the offset
\* it names, whatever the ledger did meanwhile: that offset is the one asked
\* for or an end of the ledger since then; the command succeeds only if its
\* contract was visible and active there, or was disclosed to a trace; and it
\* is refused only if it was not, or if the first version the session knew is
\* not the contract's.  An online simulation succeeds only if the contract was
\* active at its offset or later.  A decompiled source is that of the package
\* that was run.
EngineFed ==
  LET there == job.sees /\ ActiveAt(job.offset)
      later == \E offset \in job.offset..target.end : ActiveAt(offset)
  IN /\ job.outcome \in {"success", "refused"} /\ ~job.timeTravel =>
          job.offset >= job.since
     /\ job.outcome = "success" =>
          IF job.kind = "online" THEN later ELSE there \/ Disclosed
     /\ job.outcome = "refused" /\ job.kind # "online" =>
          ~there \/ Resolved # target.version
     /\ job.source \in {Resolved, Unresolved}

-----------------------------------------------------------------------------
(***************************************************************************)
(* The inductive invariant behind it.  The ledger only grows: what it had  *)
(* at an offset it has reached stays so.                                   *)
(***************************************************************************)

LedgerGrown ==
  /\ target.created = 0 => target.archived = 0
  /\ target.created > 0 => target.version \in Versions
  /\ target.archived > 0 => target.created > 0

\* The request has the offset it answers for, and the contract as of then.
Fixed == job.step \notin {"idle", "ledgerEnd"} /\ job.outcome # "failed"

JobInv ==
  /\ job.since \in 0..target.end
  /\ job.kind = "online" => job.step \in {"ledgerEnd", "prepare", "done"}
  /\ job.step = "prepare" => job.kind = "online"
  /\ Fixed /\ ~job.timeTravel => job.offset >= job.since
  /\ job.kind # "online" /\ Fixed /\ job.step # "acs" =>
       job.acs = (job.sees /\ ActiveAt(job.offset))
  /\ job.step \notin {"decompile", "done"} => job.outcome = "none"
  /\ job.step \in {"decompile", "done"} => job.outcome # "none"

InputInv == LedgerGrown /\ JobInv /\ EngineFed
=============================================================================
