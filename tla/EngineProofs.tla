----------------------------- MODULE EngineProofs -----------------------------
(***************************************************************************)
(* Proofs about the engine service and what is made of its answers: what   *)
(* it is run against (EngineInput), the rows and the contracts of a        *)
(* simulation (SimulationTab), and a trace beside its tree (Debugger), for *)
(* any number of versions, of nodes and of requests.                       *)
(***************************************************************************)
EXTENDS FiniteSets, EngineInput, SimulationTab, Debugger, Induction, SequenceTheorems
LOCAL INSTANCE SequencesExt

-----------------------------------------------------------------------------
(***************************************************************************)
(* What the engine service is run against.                                 *)
(***************************************************************************)

RequestOK == InputTypeOK /\ InputInv

LEMMA InputInitially == InputInit => RequestOK
<1> SUFFICES ASSUME InputInit PROVE RequestOK
  OBVIOUS
<1>1. <<>> \in Seq(Versions) /\ Len(<<>>) = 0 /\ MaxCommits \in Nat
  BY EmptySeq, EngineInputConstantsOK
<1>2. InputTypeOK
  BY <1>1 DEF InputInit, InputTypeOK, Target, Job, NoJob, Unresolved
<1>3. InputInv
  BY <1>1 DEF InputInit, InputInv, LedgerGrown, JobInv, EngineFed, NoJob, Fixed,
              Resolved, Unresolved
<1>4. QED
  BY <1>2, <1>3 DEF RequestOK

\* A transaction of the ledger comes after everything before it.
LEMMA LedgerGrows ==
  ASSUME RequestOK, Proceed
  PROVE  /\ target' \in Target /\ target'.end = target.end + 1
         /\ {target'.created, target'.archived} \subseteq 0..target'.end
         /\ LedgerGrown'
         /\ target.created > 0 => target'.version = target.version
         /\ \A offset \in 0..target.end : ActiveAt(offset)' = ActiveAt(offset)
<1> DEFINE next == [target EXCEPT !.end = target.end + 1]
<1>1. /\ target \in Target /\ target.end < MaxCommits /\ MaxCommits \in Nat
      /\ target.created \in 0..target.end /\ target.archived \in 0..target.end
      /\ LedgerGrown /\ uploaded \subseteq Versions
  BY EngineInputConstantsOK DEF RequestOK, InputTypeOK, InputInv, Proceed
<1>2. target.end \in Nat /\ target.end + 1 \in 0..MaxCommits
  BY <1>1 DEF Target
<1>3. /\ next \in Target /\ next.end = target.end + 1 /\ next.created = target.created
      /\ next.archived = target.archived /\ next.version = target.version
  BY <1>1, <1>2 DEF Target
<1>4. \/ target' = next
      \/ /\ target.created = 0
         /\ \E v \in uploaded :
              target' = [next EXCEPT !.created = next.end, !.version = v]
      \/ /\ target.created > 0 /\ target.archived = 0
         /\ target' = [next EXCEPT !.archived = next.end]
  BY DEF Proceed
<1> HIDE DEF next
<1>5. /\ target' \in Target /\ target'.end = target.end + 1
      /\ \/ /\ target'.created = target.created /\ target'.archived = target.archived
            /\ target'.version = target.version
         \/ /\ target.created = 0 /\ target'.created = target.end + 1
            /\ target'.archived = target.archived /\ target'.version \in Versions
         \/ /\ target.created > 0 /\ target.archived = 0
            /\ target'.created = target.created /\ target'.archived = target.end + 1
            /\ target'.version = target.version
  <2>1. CASE target' = next
    BY <1>3, <2>1
  <2>2. ASSUME target.created = 0, NEW v \in uploaded,
               target' = [next EXCEPT !.created = next.end, !.version = v]
        PROVE  /\ target' \in Target /\ target'.end = target.end + 1
               /\ target'.created = target.end + 1
               /\ target'.archived = target.archived /\ target'.version \in Versions
    BY <1>1, <1>2, <1>3, <2>2 DEF Target
  <2>3. CASE /\ target.created > 0 /\ target.archived = 0
             /\ target' = [next EXCEPT !.archived = next.end]
    BY <1>1, <1>2, <1>3, <2>3 DEF Target
  <2>4. QED
    BY <1>4, <2>1, <2>2, <2>3
<1>6. /\ {target'.created, target'.archived} \subseteq 0..target'.end
      /\ LedgerGrown'
  BY <1>1, <1>2, <1>5 DEF LedgerGrown
<1>7. target.created > 0 => target'.version = target.version
  BY <1>5
<1>8. ASSUME NEW offset \in 0..target.end
      PROVE  ActiveAt(offset)' = ActiveAt(offset)
  BY <1>1, <1>2, <1>5, <1>8 DEF ActiveAt, LedgerGrown
<1>9. QED
  BY <1>5, <1>6, <1>7, <1>8

LEMMA ProceedStep ==
  ASSUME RequestOK, Proceed
  PROVE  RequestOK'
<1>0. target \in Target /\ MaxCommits \in Nat
  BY EngineInputConstantsOK DEF RequestOK, InputTypeOK
<1>1. /\ UNCHANGED <<uploaded, known, job>> /\ job.step # "done"
      /\ job \in Job /\ job.offset \in 0..target.end /\ job.since \in 0..target.end
      /\ target.end \in Nat
  <2>1. target.end \in Nat
    BY <1>0 DEF Target
  <2>2. QED
    BY <2>1 DEF RequestOK, InputTypeOK, InputInv, JobInv, Proceed, Unanswered
<1>2. /\ target' \in Target /\ target'.end = target.end + 1
      /\ {target'.created, target'.archived} \subseteq 0..target'.end
      /\ LedgerGrown'
      /\ target.created > 0 => target'.version = target.version
      /\ ActiveAt(job.offset)' = ActiveAt(job.offset)
  <2>1. \A offset \in 0..target.end : ActiveAt(offset)' = ActiveAt(offset)
    BY LedgerGrows
  <2>2. \A offset \in 0..target.end : job.offset = offset =>
          ActiveAt(job.offset)' = ActiveAt(job.offset)
    BY <1>1, <2>1 DEF ActiveAt
  <2>3. QED
    BY <1>1, <2>2, LedgerGrows
<1>3. InputTypeOK'
  BY <1>1, <1>2 DEF RequestOK, InputTypeOK
<1>4. JobInv'
  BY <1>1, <1>2 DEF RequestOK, InputInv, JobInv, Fixed
<1>5. EngineFed'
  <2>1. job.outcome # "none" => job.step = "decompile" /\ job.kind # "online"
    BY <1>1 DEF RequestOK, InputInv, JobInv
  <2>2. ActiveAt(job.offset) => target.created > 0
    BY <1>1 DEF ActiveAt
  <2>3. QED
    BY <1>1, <1>2, <2>1, <2>2 DEF RequestOK, InputInv, EngineFed, Resolved, Disclosed
<1>6. QED
  BY <1>2, <1>3, <1>4, <1>5 DEF RequestOK, InputInv

\* A step of the request, which has the participant as it is.
LEMMA JobStep ==
  ASSUME RequestOK, UNCHANGED <<target, uploaded, known>>,
         job' \in Job, job'.offset \in 0..target.end,
         job'.loaded \in 0..Len(job'.packages), JobInv', EngineFed'
  PROVE  RequestOK'
BY DEF RequestOK, InputTypeOK, InputInv, LedgerGrown

LEMMA ParticipantStep ==
  ASSUME RequestOK, Upload \/ Relisted
  PROVE  RequestOK'
<1>1. CASE Upload
  BY <1>1 DEF Upload, RequestOK, InputTypeOK, InputInv, LedgerGrown, JobInv, EngineFed,
              Fixed, Resolved, Disclosed, ActiveAt
<1>2. CASE Relisted
  <2>1. uploaded \in SUBSET Versions /\ MaxVersion \in Int /\ 1 \in Int
    BY EngineInputConstantsOK DEF RequestOK, InputTypeOK
  <2>2. IsFiniteSet(Versions)
    BY <2>1, FS_Interval DEF Versions
  <2>3. IsFiniteSet(uploaded)
    BY <2>1, <2>2, FS_Subset
  <2> DEFINE size == Cardinality(uploaded)
  <2>4. size \in Nat
    BY <2>3, FS_CardinalityType
  <2>5. known' \in [1..size -> uploaded]
    BY <1>2 DEF Relisted, SetToSeqs
  <2> HIDE DEF size
  <2>6. known' \in Seq(Versions)
    <3>1. known' \in [1..size -> Versions]
      BY <2>1, <2>5
    <3>2. QED
      BY <2>4, <3>1, SeqDef
  <2>7. UNCHANGED <<target, uploaded, job>>
    BY <1>2 DEF Relisted
  <2>8. QED
    BY <2>6, <2>7 DEF RequestOK, InputTypeOK, InputInv, LedgerGrown, JobInv, EngineFed,
                      Fixed, Resolved, Disclosed, ActiveAt
<1>3. QED
  BY <1>1, <1>2

\* What the handlers know before they start.
LEMMA JobFacts ==
  ASSUME RequestOK
  PROVE  /\ target.end \in Nat /\ known \in Seq(Versions) /\ job \in Job
         /\ job.packages \in Seq(Versions) /\ Len(job.packages) \in Nat
         /\ job.offset \in 0..target.end /\ job.loaded \in 0..Len(job.packages)
         /\ job.since \in 0..target.end /\ JobInv /\ EngineFed
         /\ (ActiveAt(job.offset) => target.version \in Versions)
<1>1. /\ target.end \in Nat /\ known \in Seq(Versions) /\ job \in Job
      /\ job.packages \in Seq(Versions)
      /\ job.offset \in 0..target.end /\ job.loaded \in 0..Len(job.packages)
      /\ JobInv /\ EngineFed /\ LedgerGrown
  BY EngineInputConstantsOK DEF RequestOK, InputTypeOK, InputInv, Target, Job
<1>2. ActiveAt(job.offset) => target.version \in Versions
  BY <1>1 DEF LedgerGrown, ActiveAt
<1>3. QED
  BY <1>1, <1>2, LenProperties DEF JobInv

LEMMA AskForStep ==
  ASSUME RequestOK, AskFor
  PROVE  RequestOK'
<1>1. PICK kind \in {"trace", "offline", "online"}, sees \in BOOLEAN,
           disclosed \in {"no", "byName", "byId"}, timeTravel \in BOOLEAN :
        \E offset \in IF timeTravel THEN 0..target.end ELSE {0} :
          job' = [NoJob EXCEPT !.step = "ledgerEnd", !.kind = kind,
                    !.timeTravel = timeTravel, !.offset = offset, !.sees = sees,
                    !.disclosed = disclosed, !.packages = known,
                    !.since = target.end]
  BY DEF AskFor
<1>2. PICK offset \in 0..target.end :
        job' = [NoJob EXCEPT !.step = "ledgerEnd", !.kind = kind,
                  !.timeTravel = timeTravel, !.offset = offset, !.sees = sees,
                  !.disclosed = disclosed, !.packages = known,
                  !.since = target.end]
  <2>1. \A offset \in IF timeTravel THEN 0..target.end ELSE {0} : offset \in 0..target.end
    BY JobFacts
  <2>2. QED
    BY <1>1, <2>1
<1>3. known \in Seq(Versions) /\ Len(known) \in Nat /\ target.end \in Nat
  BY JobFacts, LenProperties
<1>4. /\ job' \in Job /\ job'.offset = offset /\ job'.loaded = 0 /\ job'.packages = known
      /\ job'.step = "ledgerEnd" /\ job'.outcome = "none" /\ job'.since = target.end
      /\ job'.source = Unresolved
  <2>1. /\ offset \in Nat /\ 0 \in Nat /\ kind \in {"none", "trace", "offline", "online"}
        /\ 0 \in Versions \cup {0}
    BY <1>3
  <2>2. QED
    BY <1>2, <1>3, <2>1 DEF NoJob, Job, Unresolved
<1>5. UNCHANGED <<target, uploaded, known>>
  BY DEF AskFor
<1>6. JobInv' /\ EngineFed'
  BY <1>3, <1>4, <1>5 DEF JobInv, EngineFed, Fixed
<1>7. QED
  BY <1>3, <1>4, <1>5, <1>6, JobStep

LEMMA GetLedgerEndStep ==
  ASSUME RequestOK, GetLedgerEnd
  PROVE  RequestOK'
<1>1. /\ UNCHANGED <<target, uploaded, known>> /\ job.step = "ledgerEnd"
      /\ target.end \in Nat /\ job.offset \in 0..target.end /\ job.since \in 0..target.end
      /\ job \in Job /\ job.outcome = "none" /\ job.loaded \in 0..Len(job.packages)
      /\ EngineFed
  BY JobFacts DEF GetLedgerEnd, JobInv
<1> DEFINE offset == IF job.kind # "online" /\ job.timeTravel THEN job.offset ELSE target.end
           step == IF job.kind = "online" THEN "prepare" ELSE "acs"
<1>2. job' = [job EXCEPT !.step = step, !.offset = offset]
  BY <1>1 DEF GetLedgerEnd, Job
<1>3. /\ offset \in 0..target.end /\ (~job.timeTravel => offset >= job.since)
      /\ offset \in Nat
  BY <1>1
<1>4. step \in {"prepare", "acs"} /\ (step = "prepare" <=> job.kind = "online")
  OBVIOUS
<1> HIDE DEF offset, step
<1>5. /\ job' \in Job /\ job'.offset = offset /\ job'.step = step /\ job'.kind = job.kind
      /\ job'.loaded = job.loaded /\ job'.packages = job.packages
      /\ job'.outcome = "none" /\ job'.since = job.since
      /\ job'.timeTravel = job.timeTravel /\ job'.source = job.source
  BY <1>1, <1>2, <1>3, <1>4 DEF Job
<1>6. JobInv'
  BY <1>1, <1>3, <1>4, <1>5 DEF JobInv, Fixed
<1>7. EngineFed'
  BY <1>1, <1>5 DEF EngineFed, Resolved
<1>8. QED
  BY <1>1, <1>3, <1>5, <1>6, <1>7, JobStep

LEMMA GetActiveContractsStep ==
  ASSUME RequestOK, GetActiveContracts
  PROVE  RequestOK'
<1>1. /\ UNCHANGED <<target, uploaded, known>> /\ job.step = "acs"
      /\ job \in Job /\ job.outcome = "none" /\ job.offset \in 0..target.end
      /\ job.loaded \in 0..Len(job.packages) /\ JobInv /\ EngineFed
  BY JobFacts DEF GetActiveContracts, JobInv
<1> DEFINE active == job.sees /\ ActiveAt(job.offset)
<1>2. job' = [job EXCEPT !.step = "packages", !.acs = active]
  BY DEF GetActiveContracts
<1>3. active \in BOOLEAN /\ (active <=> job.sees /\ ActiveAt(job.offset))
  BY <1>1 DEF Job, ActiveAt
<1> HIDE DEF active
<1>4. /\ job' \in Job /\ job'.offset = job.offset /\ job'.step = "packages"
      /\ job'.kind = job.kind /\ job'.sees = job.sees /\ job'.acs = active
      /\ job'.loaded = job.loaded /\ job'.packages = job.packages
      /\ job'.outcome = "none" /\ job'.since = job.since
      /\ job'.timeTravel = job.timeTravel /\ job'.source = job.source
  BY <1>1, <1>2, <1>3 DEF Job
<1>5. ActiveAt(job.offset)' = ActiveAt(job.offset)
  BY <1>1, <1>4 DEF ActiveAt
<1>6. JobInv'
  BY <1>1, <1>3, <1>4, <1>5 DEF JobInv, Fixed, Job
<1>7. EngineFed'
  BY <1>1, <1>4 DEF EngineFed, Resolved
<1>8. QED
  BY <1>1, <1>4, <1>6, <1>7, JobStep

LEMMA GetPackageStep ==
  ASSUME RequestOK, GetPackage
  PROVE  RequestOK'
<1>1. /\ UNCHANGED <<target, uploaded, known>> /\ job.step = "packages"
      /\ job \in Job /\ job.outcome = "none" /\ job.offset \in 0..target.end
      /\ job.loaded \in 0..Len(job.packages) /\ Len(job.packages) \in Nat
      /\ JobInv /\ EngineFed
  BY JobFacts DEF GetPackage, JobInv
<1>2. PICK got \in 0..Len(job.packages), step \in {"packages", "engine"} :
        job' = [job EXCEPT !.step = step, !.loaded = got]
  <2>1. CASE job.loaded < Len(job.packages)
    <3>1. job' = [job EXCEPT !.step = "packages", !.loaded = job.loaded + 1]
      BY <1>1, <2>1 DEF GetPackage, Job
    <3>2. job.loaded + 1 \in 0..Len(job.packages)
      BY <1>1, <2>1
    <3>3. QED
      BY <3>1, <3>2
  <2>2. CASE ~(job.loaded < Len(job.packages))
    <3>1. job' = [job EXCEPT !.step = "engine", !.loaded = job.loaded]
      BY <1>1, <2>2 DEF GetPackage, Job
    <3>2. QED
      BY <1>1, <3>1
  <2>3. QED
    BY <2>1, <2>2
<1>3. got \in Nat
  BY <1>1
<1>4. /\ job' \in Job /\ job'.offset = job.offset /\ job'.step = step
      /\ job'.kind = job.kind /\ job'.sees = job.sees /\ job'.acs = job.acs
      /\ job'.loaded = got /\ job'.packages = job.packages
      /\ job'.outcome = "none" /\ job'.since = job.since
      /\ job'.timeTravel = job.timeTravel /\ job'.source = job.source
  BY <1>1, <1>2, <1>3 DEF Job
<1>5. ActiveAt(job.offset)' = ActiveAt(job.offset)
  BY <1>1, <1>4 DEF ActiveAt
<1>6. JobInv'
  BY <1>1, <1>4, <1>5 DEF JobInv, Fixed
<1>7. EngineFed'
  BY <1>1, <1>4 DEF EngineFed, Resolved
<1>8. QED
  BY <1>1, <1>4, <1>6, <1>7, JobStep

LEMMA ResolvedType ==
  ASSUME RequestOK
  PROVE  Resolved \in Versions \cup {Unresolved}
<1>1. job.packages \in Seq(Versions)
  BY JobFacts
<1>2. CASE job.packages = <<>>
  BY <1>2 DEF Resolved
<1>3. CASE job.packages # <<>>
  BY <1>1, <1>3, ElementOfSeq, LenProperties, HeadTailProperties DEF Resolved
<1>4. QED
  BY <1>2, <1>3

LEMMA RunEngineStep ==
  ASSUME RequestOK, RunEngine
  PROVE  RequestOK'
<1>1. /\ UNCHANGED <<target, uploaded, known>> /\ job.step = "engine"
      /\ job \in Job /\ job.outcome = "none" /\ job.offset \in 0..target.end
      /\ job.loaded \in 0..Len(job.packages) /\ JobInv /\ EngineFed
      /\ (ActiveAt(job.offset) => target.version \in Versions)
  BY JobFacts DEF RunEngine, JobInv
<1>2. PICK outcome \in Outcomes(job.acs, Disclosed) :
        job' = [job EXCEPT !.outcome = outcome,
                  !.step = IF job.kind = "trace" /\ Resolved # Unresolved
                           THEN "decompile" ELSE "done"]
  BY DEF RunEngine
<1> DEFINE step == IF job.kind = "trace" /\ Resolved # Unresolved
                   THEN "decompile" ELSE "done"
<1>3. step \in {"decompile", "done"} /\ outcome \in {"success", "refused"}
  BY DEF Outcomes
<1>4. /\ outcome = "success" => job.acs \/ Disclosed
      /\ outcome = "refused" => ~job.acs \/ Resolved # target.version
  BY DEF Outcomes
<1>5. job' = [job EXCEPT !.outcome = outcome, !.step = step]
  BY <1>2
<1> HIDE DEF step
<1>6. /\ job' \in Job /\ job'.offset = job.offset /\ job'.step = step
      /\ job'.kind = job.kind /\ job'.sees = job.sees /\ job'.acs = job.acs
      /\ job'.loaded = job.loaded /\ job'.packages = job.packages
      /\ job'.outcome = outcome /\ job'.since = job.since
      /\ job'.timeTravel = job.timeTravel /\ job'.source = job.source
      /\ job'.disclosed = job.disclosed
  BY <1>1, <1>3, <1>5 DEF Job
<1>7. ActiveAt(job.offset)' = ActiveAt(job.offset)
  BY <1>1, <1>6 DEF ActiveAt
<1>8. /\ job.acs = (job.sees /\ ActiveAt(job.offset)) /\ job.kind # "online"
      /\ ~job.timeTravel => job.offset >= job.since
      /\ job.source \in {Resolved, Unresolved}
  BY <1>1 DEF JobInv, Fixed, EngineFed
<1>9. JobInv'
  BY <1>1, <1>3, <1>6, <1>7, <1>8 DEF JobInv, Fixed
<1>10. EngineFed'
  BY <1>1, <1>3, <1>4, <1>6, <1>7, <1>8 DEF EngineFed, Resolved, Disclosed
<1>11. QED
  BY <1>1, <1>6, <1>9, <1>10, JobStep

LEMMA DecompileStep ==
  ASSUME RequestOK, Decompile
  PROVE  RequestOK'
<1>1. /\ UNCHANGED <<target, uploaded, known>> /\ job.step = "decompile"
      /\ job \in Job /\ job.offset \in 0..target.end
      /\ job.loaded \in 0..Len(job.packages) /\ JobInv /\ EngineFed
      /\ (ActiveAt(job.offset) => target.version \in Versions)
  BY JobFacts DEF Decompile
<1>2. PICK source \in {Resolved, Unresolved} :
        job' = [job EXCEPT !.step = "done", !.source = source]
  BY DEF Decompile
<1>3. source \in Versions \cup {Unresolved}
  BY ResolvedType
<1>4. /\ job' \in Job /\ job'.offset = job.offset /\ job'.step = "done"
      /\ job'.kind = job.kind /\ job'.sees = job.sees /\ job'.acs = job.acs
      /\ job'.loaded = job.loaded /\ job'.packages = job.packages
      /\ job'.outcome = job.outcome /\ job'.since = job.since
      /\ job'.timeTravel = job.timeTravel /\ job'.source = source
      /\ job'.disclosed = job.disclosed
  BY <1>1, <1>2, <1>3 DEF Job
<1>5. ActiveAt(job.offset)' = ActiveAt(job.offset)
  BY <1>1, <1>4 DEF ActiveAt
<1>6. JobInv' /\ EngineFed'
  BY <1>1, <1>4, <1>5 DEF JobInv, Fixed, EngineFed, Resolved, Disclosed
<1>7. QED
  BY <1>1, <1>4, <1>6, JobStep

LEMMA PrepareSubmissionStep ==
  ASSUME RequestOK, PrepareSubmission
  PROVE  RequestOK'
<1>1. /\ UNCHANGED <<target, uploaded, known>> /\ job.step = "prepare"
      /\ job \in Job /\ job.offset \in 0..target.end /\ target.end \in Nat
      /\ job.loaded \in 0..Len(job.packages) /\ JobInv /\ EngineFed
      /\ job.kind = "online"
  BY JobFacts DEF PrepareSubmission, JobInv
<1> DEFINE active == ActiveAt(target.end)
<1>2. PICK outcome \in Outcomes(active /\ job.sees, active /\ job.disclosed # "no") :
        job' = [job EXCEPT !.step = "done", !.outcome = outcome]
  BY DEF PrepareSubmission
<1>3. /\ outcome \in {"success", "refused"}
      /\ outcome = "success" => active
  BY DEF Outcomes
<1>4. /\ job' \in Job /\ job'.offset = job.offset /\ job'.step = "done"
      /\ job'.kind = "online" /\ job'.outcome = outcome /\ job'.since = job.since
      /\ job'.loaded = job.loaded /\ job'.packages = job.packages
      /\ job'.timeTravel = job.timeTravel /\ job'.source = job.source
  BY <1>1, <1>2, <1>3 DEF Job
<1>5. ~job.timeTravel => job.offset >= job.since
  BY <1>1 DEF JobInv, Fixed
<1>6. JobInv'
  BY <1>1, <1>3, <1>4, <1>5 DEF JobInv, Fixed
<1>7. outcome = "success" =>
        \E offset \in job.offset..target.end : ActiveAt(offset)
  BY <1>1, <1>3
<1>8. EngineFed'
  <2>1. outcome = "success" =>
          \E offset \in job'.offset..target'.end : ActiveAt(offset)'
    BY <1>1, <1>4, <1>7 DEF ActiveAt
  <2>2. QED
    BY <1>1, <1>4, <1>5, <2>1 DEF EngineFed, Resolved
<1>9. QED
  BY <1>1, <1>4, <1>6, <1>8, JobStep

LEMMA InputCallFailsStep ==
  ASSUME RequestOK, InputCallFails
  PROVE  RequestOK'
<1>1. /\ UNCHANGED <<target, uploaded, known>>
      /\ job \in Job /\ job.offset \in 0..target.end
      /\ job.loaded \in 0..Len(job.packages) /\ JobInv /\ EngineFed
      /\ job' = [job EXCEPT !.step = "done", !.outcome = "failed"]
  BY JobFacts DEF InputCallFails
<1>2. /\ job' \in Job /\ job'.offset = job.offset /\ job'.step = "done"
      /\ job'.kind = job.kind /\ job'.outcome = "failed" /\ job'.since = job.since
      /\ job'.loaded = job.loaded /\ job'.packages = job.packages
      /\ job'.timeTravel = job.timeTravel /\ job'.source = job.source
  BY <1>1 DEF Job
<1>3. JobInv' /\ EngineFed'
  BY <1>1, <1>2 DEF JobInv, Fixed, EngineFed, Resolved
<1>4. QED
  BY <1>1, <1>2, <1>3, JobStep

LEMMA InputAlways == InputSpec => []RequestOK
<1>1. RequestOK /\ [InputNext]_inputVars => RequestOK'
  <2> SUFFICES ASSUME RequestOK, [InputNext]_inputVars PROVE RequestOK'
    OBVIOUS
  <2>1. CASE Proceed
    BY <2>1, ProceedStep
  <2>2. CASE Upload \/ Relisted
    BY <2>2, ParticipantStep
  <2>3. CASE AskFor
    BY <2>3, AskForStep
  <2>4. CASE GetLedgerEnd
    BY <2>4, GetLedgerEndStep
  <2>5. CASE GetActiveContracts
    BY <2>5, GetActiveContractsStep
  <2>6. CASE GetPackage
    BY <2>6, GetPackageStep
  <2>7. CASE RunEngine
    BY <2>7, RunEngineStep
  <2>8. CASE Decompile
    BY <2>8, DecompileStep
  <2>9. CASE PrepareSubmission
    BY <2>9, PrepareSubmissionStep
  <2>10. CASE InputCallFails
    BY <2>10, InputCallFailsStep
  <2>11. CASE UNCHANGED inputVars
    BY <2>11 DEF inputVars, RequestOK, InputTypeOK, InputInv, LedgerGrown, JobInv, EngineFed,
                 Fixed, Resolved, Disclosed, ActiveAt
  <2>12. QED
    BY <2>1, <2>2, <2>3, <2>4, <2>5, <2>6, <2>7, <2>8, <2>9, <2>10, <2>11
       DEF InputNext
<1>2. QED
  BY <1>1, InputInitially, PTL DEF InputSpec

\* Whatever the ledger, the uploads and the refreshes do between the awaits of a
\* trace or a simulation, it is answered for the offset and the packages it
\* names: a success had its contract there, or disclosed, a refusal had not, or
\* had resolved another version of its package.
THEOREM EngineTheorem == InputSpec => [](InputTypeOK /\ EngineFed)
<1>1. RequestOK => InputTypeOK /\ EngineFed
  BY DEF RequestOK, InputInv
<1>2. QED
  BY <1>1, InputAlways, PTL

-----------------------------------------------------------------------------
(***************************************************************************)
(* Lists of lists.                                                         *)
(***************************************************************************)

Upto(ss, n) == [i \in 1..n |-> ss[i]]

\* g[i] is the first i sequences of ss, one after the other.
Joins(g, ss) ==
  g = [i \in 1..Len(ss) |-> IF i = 1 THEN ss[i] ELSE g[i - 1] \o ss[i]]

\* g has the first m of them.
JoinsTo(g, ss, m) ==
  \A i \in 1..m : g[i] = IF i = 1 THEN ss[i] ELSE g[i - 1] \o ss[i]

LEMMA FlattenJoins ==
  ASSUME NEW ss, Len(ss) # 0, \E g : Joins(g, ss)
  PROVE  \E g : Joins(g, ss) /\ FlattenSeq(ss) = g[Len(ss)]
<1> DEFINE Eq(g) == g = [i \in 1..Len(ss) |-> IF i = 1 THEN ss[i] ELSE g[i - 1] \o ss[i]]
           h == CHOOSE g : Eq(g)
<1>1. FlattenSeq(ss) = h[Len(ss)]
  BY DEF FlattenSeq
<1>2. Eq(h)
  BY DEF Joins
<1>3. QED
  BY <1>1, <1>2 DEF Joins

LEMMA UptoFacts ==
  ASSUME NEW S, NEW ss \in Seq(S), NEW n \in 0..Len(ss)
  PROVE  /\ Upto(ss, n) \in Seq(S) /\ Len(Upto(ss, n)) = n
         /\ \A i \in 1..n : Upto(ss, n)[i] = ss[i]
         /\ Upto(ss, Len(ss)) = ss
<1>1. /\ n \in Nat /\ Len(ss) \in Nat /\ \A i \in 1..n : ss[i] \in S
      /\ ss = [i \in 1..Len(ss) |-> ss[i]]
  BY ElementOfSeq, LenProperties
<1>2. Upto(ss, n) \in Seq(S) /\ Len(Upto(ss, n)) = n
  BY <1>1, IsASeq DEF Upto
<1>3. QED
  BY <1>1, <1>2 DEF Upto

\* The first i sequences can be joined for every i.
LEMMA JoinsExist ==
  ASSUME NEW S, NEW ss \in Seq(Seq(S))
  PROVE  \E g \in [1..Len(ss) -> Seq(S)] : Joins(g, ss)
<1> DEFINE n == Len(ss)
           Some(m) == \E g \in [1..m -> Seq(S)] : JoinsTo(g, ss, m)
           T == {m \in Nat : m <= n => Some(m)}
<1>1. n \in Nat /\ \A i \in 1..n : ss[i] \in Seq(S)
  BY ElementOfSeq, LenProperties
<1>2. 0 \in T
  <2>1. [i \in 1..0 |-> <<>>] \in [1..0 -> Seq(S)] /\ JoinsTo([i \in 1..0 |-> <<>>], ss, 0)
    BY DEF JoinsTo
  <2> QED BY <2>1
<1>3. ASSUME NEW m \in Nat, m \in T PROVE m + 1 \in T
  <2> SUFFICES ASSUME m + 1 <= n PROVE Some(m + 1)
    BY <1>1
  <2>1. m <= n /\ m \in 0..n /\ m + 1 \in 1..n
    BY <1>1
  <2>2. PICK g \in [1..m -> Seq(S)] : JoinsTo(g, ss, m)
    BY <1>3, <2>1
  <2> DEFINE last == IF m = 0 THEN ss[1] ELSE g[m] \o ss[m + 1]
             k == [i \in 1..(m + 1) |-> IF i = m + 1 THEN last ELSE g[i]]
  <2>3. last \in Seq(S)
    <3>1. ss[m + 1] \in Seq(S) /\ (m = 0 => ss[1] \in Seq(S))
      BY <1>1, <2>1
    <3>2. m # 0 => g[m] \in Seq(S)
      OBVIOUS
    <3>3. m # 0 => g[m] \o ss[m + 1] \in Seq(S)
      BY <3>1, <3>2, ConcatProperties
    <3> QED BY <3>1, <3>3
  <2>4. k \in [1..(m + 1) -> Seq(S)]
    BY <2>3
  <2>5. ASSUME NEW i \in 1..(m + 1) PROVE k[i] = IF i = 1 THEN ss[i] ELSE k[i - 1] \o ss[i]
    <3>1. CASE i = m + 1 /\ m = 0
      BY <3>1
    <3>2. CASE i = m + 1 /\ m # 0
      <4>1. i # 1 /\ i - 1 = m /\ m \in 1..m /\ m \in 1..(m + 1) /\ m # m + 1
        BY <3>2
      <4>2. last = g[m] \o ss[i]
        BY <3>2
      <4>3. k[m] = g[m]
        BY <4>1
      <4>4. k[i] = last
        BY <3>2
      <4> HIDE DEF k, last
      <4> QED BY <4>1, <4>2, <4>3, <4>4
    <3>3. CASE i # m + 1
      <4>1. i \in 1..m /\ k[i] = g[i] /\ (i # 1 => k[i - 1] = g[i - 1])
        BY <3>3
      <4>2. g[i] = IF i = 1 THEN ss[i] ELSE g[i - 1] \o ss[i]
        BY <2>2, <4>1 DEF JoinsTo
      <4> HIDE DEF k
      <4> QED BY <4>1, <4>2
    <3> QED BY <3>1, <3>2, <3>3
  <2>6. JoinsTo(k, ss, m + 1)
    <3> HIDE DEF k
    <3> QED BY <2>5 DEF JoinsTo
  <2> QED BY <2>4, <2>6
<1>4. Nat \subseteq T
  <2> HIDE DEF T
  <2> QED BY <1>2, <1>3, SetInduction
<1>5. Some(n)
  <2> HIDE DEF Some
  <2> QED BY <1>1, <1>4
<1>6. PICK g \in [1..n -> Seq(S)] : JoinsTo(g, ss, n)
  BY <1>5
<1>7. Joins(g, ss)
  BY <1>6 DEF Joins, JoinsTo
<1> QED BY <1>7

\* What flattening a prefix gives.
LEMMA JoinsUnique ==
  ASSUME NEW S, NEW ss \in Seq(S), NEW n \in 1..Len(ss),
         NEW g, NEW h, Joins(g, ss), Joins(h, Upto(ss, n))
  PROVE  h[n] = g[n]
<1> DEFINE T == {m \in Nat : m + 1 <= n => h[m + 1] = g[m + 1]}
           u == Upto(ss, n)
<1>1. n \in Nat /\ Len(ss) \in Nat /\ 1 <= n /\ n <= Len(ss)
  BY LenProperties
<1>2. u \in Seq(S) /\ Len(u) = n /\ \A i \in 1..n : u[i] = ss[i]
  BY <1>1, UptoFacts
<1>3. \A i \in 1..n : /\ g[i] = IF i = 1 THEN ss[i] ELSE g[i - 1] \o ss[i]
                      /\ h[i] = IF i = 1 THEN ss[i] ELSE h[i - 1] \o ss[i]
  <2> TAKE i \in 1..n
  <2> HIDE DEF u
  <2>1. i \in 1..Len(ss) /\ i \in 1..Len(u) /\ u[i] = ss[i]
    BY <1>1, <1>2
  <2>2. g[i] = IF i = 1 THEN ss[i] ELSE g[i - 1] \o ss[i]
    BY <2>1 DEF Joins
  <2>3. h[i] = IF i = 1 THEN u[i] ELSE h[i - 1] \o u[i]
    BY <2>1 DEF Joins, u
  <2> QED BY <2>1, <2>2, <2>3
<1>4. 0 \in T
  BY <1>1, <1>3
<1>5. ASSUME NEW m \in Nat, m \in T PROVE m + 1 \in T
  <2>1. SUFFICES ASSUME m + 2 <= n PROVE h[m + 2] = g[m + 2]
    OBVIOUS
  <2>2. h[m + 1] = g[m + 1] /\ m + 2 \in 1..n /\ m + 2 # 1 /\ m + 2 - 1 = m + 1
    BY <1>1, <1>5, <2>1
  <2> QED BY <1>3, <2>2
<1>6. Nat \subseteq T
  <2> HIDE DEF T
  <2> QED BY <1>4, <1>5, SetInduction
<1>7. n - 1 \in T
  BY <1>1, <1>6
<1> QED BY <1>1, <1>7

\* Flattening goes from the left.
LEMMA FlattenFacts ==
  ASSUME NEW S, NEW ss \in Seq(Seq(S))
  PROVE  /\ FlattenSeq(ss) \in Seq(S)
         /\ FlattenSeq(Upto(ss, 0)) = <<>>
         /\ \A n \in 0..(Len(ss) - 1) :
              /\ FlattenSeq(Upto(ss, n)) \in Seq(S)
              /\ FlattenSeq(Upto(ss, n + 1)) = FlattenSeq(Upto(ss, n)) \o ss[n + 1]
<1>1. PICK g \in [1..Len(ss) -> Seq(S)] : Joins(g, ss)
  BY JoinsExist
<1>2. Len(ss) \in Nat /\ \A i \in 1..Len(ss) : ss[i] \in Seq(S)
  BY ElementOfSeq, LenProperties
<1>3. ASSUME NEW n \in 1..Len(ss) PROVE FlattenSeq(Upto(ss, n)) = g[n]
  <2>1. Upto(ss, n) \in Seq(Seq(S)) /\ Len(Upto(ss, n)) = n /\ n # 0
    BY <1>2, UptoFacts
  <2>2. \E h : Joins(h, Upto(ss, n))
    BY <2>1, JoinsExist
  <2>3. PICK h : Joins(h, Upto(ss, n)) /\ FlattenSeq(Upto(ss, n)) = h[n]
    BY <2>1, <2>2, FlattenJoins
  <2>4. ss \in Seq(Seq(S))
    OBVIOUS
  <2> QED BY <1>1, <2>3, <2>4, JoinsUnique
<1>4. FlattenSeq(Upto(ss, 0)) = <<>>
  <2>1. Upto(ss, 0) = <<>>
    BY DEF Upto
  <2>2. Len(<<>>) = 0
    OBVIOUS
  <2> QED BY <2>1, <2>2 DEF FlattenSeq
<1>5. ASSUME NEW n \in 0..(Len(ss) - 1)
      PROVE  /\ FlattenSeq(Upto(ss, n)) \in Seq(S)
             /\ FlattenSeq(Upto(ss, n + 1)) = FlattenSeq(Upto(ss, n)) \o ss[n + 1]
  <2>1. n \in Nat /\ n + 1 \in 1..Len(ss) /\ n + 1 - 1 = n
    BY <1>2
  <2>2. FlattenSeq(Upto(ss, n + 1)) = g[n + 1]
    BY <1>3, <2>1
  <2>3. \A i \in 1..Len(ss) : g[i] = IF i = 1 THEN ss[i] ELSE g[i - 1] \o ss[i]
    BY <1>1 DEF Joins
  <2>4. g[n + 1] = IF n = 0 THEN ss[1] ELSE g[n] \o ss[n + 1]
    <3> DEFINE j == n + 1
    <3>1. g[j] = IF j = 1 THEN ss[j] ELSE g[j - 1] \o ss[j]
      <4>1. j \in 1..Len(ss)
        BY <2>1
      <4> HIDE DEF j
      <4> QED BY <2>3, <4>1
    <3>2. (n + 1 = 1) <=> (n = 0)
      BY <2>1
    <3>3. CASE n = 0
      BY <3>1, <3>3
    <3>4. CASE n # 0
      <4>1. j # 1 /\ j - 1 = n /\ j = n + 1
        BY <2>1, <3>2, <3>4
      <4>2. g[j] = g[n] \o ss[j]
        <5> HIDE DEF j
        <5> QED BY <3>1, <4>1
      <4> QED BY <3>4, <4>2
    <3> QED BY <3>3, <3>4
  <2>5. CASE n = 0
    <3>1. ss[1] \in Seq(S) /\ ss[n + 1] = ss[1]
      BY <1>2, <2>1, <2>5
    <3>2. <<>> \o ss[1] = ss[1] /\ <<>> \in Seq(S)
      BY <3>1, ConcatEmptySeq
    <3>3. FlattenSeq(Upto(ss, n)) = <<>>
      BY <1>4, <2>5
    <3> QED BY <2>2, <2>4, <2>5, <3>1, <3>2, <3>3
  <2>6. CASE n # 0
    <3>1. n \in 1..Len(ss)
      BY <2>1, <2>6
    <3>2. FlattenSeq(Upto(ss, n)) = g[n] /\ g[n] \in Seq(S)
      BY <1>1, <1>3, <3>1
    <3> QED BY <2>2, <2>4, <2>6, <3>2
  <2> QED BY <2>5, <2>6
<1>6. FlattenSeq(ss) \in Seq(S)
  <2>1. Upto(ss, Len(ss)) = ss
    BY <1>2, UptoFacts
  <2>2. CASE Len(ss) = 0
    <3>1. FlattenSeq(ss) = <<>> /\ <<>> \in Seq(S)
      BY <1>4, <2>1, <2>2
    <3> QED BY <3>1
  <2>3. CASE Len(ss) # 0
    <3>1. Len(ss) \in 1..Len(ss)
      BY <1>2, <2>3
    <3> QED BY <1>1, <1>3, <2>1, <3>1
  <2> QED BY <2>2, <2>3
<1> QED BY <1>4, <1>5, <1>6

\* What holds of the joined prefixes one by one holds of the whole.
LEMMA FlattenBySteps ==
  ASSUME NEW S, NEW ss \in Seq(Seq(S)), NEW T,
         <<>> \in T,
         \A n \in 0..(Len(ss) - 1) :
           FlattenSeq(Upto(ss, n)) \in T => FlattenSeq(Upto(ss, n)) \o ss[n + 1] \in T
  PROVE  FlattenSeq(ss) \in T
<1> DEFINE M == {n \in Nat : n <= Len(ss) => FlattenSeq(Upto(ss, n)) \in T}
<1>1. Len(ss) \in Nat
  BY LenProperties
<1>2. 0 \in M
  BY FlattenFacts
<1>3. ASSUME NEW n \in Nat, n \in M PROVE n + 1 \in M
  <2> SUFFICES ASSUME n + 1 <= Len(ss) PROVE FlattenSeq(Upto(ss, n + 1)) \in T
    OBVIOUS
  <2>1. n \in 0..(Len(ss) - 1) /\ FlattenSeq(Upto(ss, n)) \in T
    BY <1>1, <1>3
  <2> QED BY <2>1, FlattenFacts
<1>4. Nat \subseteq M
  <2> HIDE DEF M
  <2> QED BY <1>2, <1>3, SetInduction
<1>5. Upto(ss, Len(ss)) = ss
  BY <1>1, UptoFacts
<1> QED BY <1>1, <1>4, <1>5

LEMMA ToSetConcat ==
  ASSUME NEW S, NEW s \in Seq(S), NEW t \in Seq(S)
  PROVE  ToSet(s \o t) = ToSet(s) \cup ToSet(t)
<1> DEFINE u == s \o t
           a == Len(s)
           b == Len(t)
<1>1. /\ DOMAIN s = 1..a /\ DOMAIN t = 1..b /\ a \in Nat /\ b \in Nat
      /\ DOMAIN u = 1..(a + b)
      /\ \A i \in 1..a : u[i] = s[i]
      /\ \A i \in 1..b : u[a + i] = t[i]
  OBVIOUS
<1> HIDE DEF u, a, b
<1>2. ASSUME NEW i \in 1..(a + b) PROVE u[i] \in ToSet(s) \cup ToSet(t)
  <2>1. CASE i <= a
    BY <1>1, <2>1 DEF ToSet
  <2>2. CASE i > a
    <3>1. i - a \in 1..b /\ a + (i - a) = i
      BY <1>1, <2>2
    <3>2. u[i] = t[i - a]
      BY <1>1, <3>1
    <3> QED BY <1>1, <3>1, <3>2 DEF ToSet
  <2> QED BY <1>1, <2>1, <2>2
<1>3. ASSUME NEW i \in 1..a PROVE s[i] \in ToSet(u)
  BY <1>1 DEF ToSet
<1>4. ASSUME NEW i \in 1..b PROVE t[i] \in ToSet(u)
  <2>1. a + i \in 1..(a + b) /\ u[a + i] = t[i]
    BY <1>1
  <2> QED BY <1>1, <2>1 DEF ToSet
<1>5. ToSet(u) = ToSet(s) \cup ToSet(t)
  BY <1>1, <1>2, <1>3, <1>4 DEF ToSet
<1> QED BY <1>5 DEF u

\* Flattening keeps what the lists have.
LEMMA FlattenRange ==
  ASSUME NEW S, NEW ss \in Seq(Seq(S))
  PROVE  ToSet(FlattenSeq(ss)) = UNION {ToSet(ss[i]) : i \in DOMAIN ss}
<1> DEFINE R(n) == UNION {ToSet(ss[i]) : i \in 1..n}
           M == {n \in Nat : n <= Len(ss) => ToSet(FlattenSeq(Upto(ss, n))) = R(n)}
<1>1. Len(ss) \in Nat /\ DOMAIN ss = 1..Len(ss) /\ \A i \in 1..Len(ss) : ss[i] \in Seq(S)
  BY ElementOfSeq, LenProperties
<1>2. 0 \in M
  <2>1. FlattenSeq(Upto(ss, 0)) = <<>>
    BY FlattenFacts
  <2>2. ToSet(<<>>) = {}
    BY DEF ToSet
  <2> QED BY <2>1, <2>2
<1>3. ASSUME NEW n \in Nat, n \in M PROVE n + 1 \in M
  <2> SUFFICES ASSUME n + 1 <= Len(ss) PROVE ToSet(FlattenSeq(Upto(ss, n + 1))) = R(n + 1)
    OBVIOUS
  <2>1. n \in 0..(Len(ss) - 1) /\ n + 1 \in 1..Len(ss) /\ ss[n + 1] \in Seq(S)
    BY <1>1
  <2>2. ToSet(FlattenSeq(Upto(ss, n))) = R(n)
    BY <1>3, <2>1
  <2>3. /\ FlattenSeq(Upto(ss, n + 1)) = FlattenSeq(Upto(ss, n)) \o ss[n + 1]
        /\ FlattenSeq(Upto(ss, n)) \in Seq(S)
    BY <2>1, FlattenFacts
  <2>4. ToSet(FlattenSeq(Upto(ss, n + 1))) = R(n) \cup ToSet(ss[n + 1])
    <3> DEFINE f == FlattenSeq(Upto(ss, n))
    <3>1. ToSet(f \o ss[n + 1]) = ToSet(f) \cup ToSet(ss[n + 1])
      <4>1. f \in Seq(S) /\ ss[n + 1] \in Seq(S)
        BY <2>1, <2>3
      <4> HIDE DEF f
      <4> QED BY <4>1, ToSetConcat
    <3> QED BY <2>2, <2>3, <3>1
  <2>5. R(n + 1) = R(n) \cup ToSet(ss[n + 1])
    <3>1. 1..(n + 1) = 1..n \cup {n + 1}
      OBVIOUS
    <3> QED BY <3>1
  <2> QED BY <2>4, <2>5
<1>4. Nat \subseteq M
  <2> HIDE DEF M
  <2> QED BY <1>2, <1>3, SetInduction
<1>5. Upto(ss, Len(ss)) = ss
  BY <1>1, UptoFacts
<1> QED BY <1>1, <1>4, <1>5

LEMMA FlattenConcat ==
  ASSUME NEW S, NEW ss \in Seq(Seq(S)), NEW tt \in Seq(Seq(S))
  PROVE  FlattenSeq(ss \o tt) = FlattenSeq(ss) \o FlattenSeq(tt)
<1> DEFINE uu == ss \o tt
           a == Len(ss)
           M == {n \in Nat : n <= Len(tt) =>
                   FlattenSeq(Upto(uu, a + n)) = FlattenSeq(ss) \o FlattenSeq(Upto(tt, n))}
<1>1. /\ uu \in Seq(Seq(S)) /\ Len(uu) = a + Len(tt) /\ a \in Nat /\ Len(tt) \in Nat
      /\ \A i \in 1..a : uu[i] = ss[i]
      /\ \A i \in 1..Len(tt) : uu[a + i] = tt[i] /\ tt[i] \in Seq(S)
      /\ FlattenSeq(ss) \in Seq(S)
  <2>1. ss \in Seq(Seq(S)) /\ tt \in Seq(Seq(S))
    OBVIOUS
  <2>2. uu \in Seq(Seq(S)) /\ Len(uu) = a + Len(tt) /\ a \in Nat /\ Len(tt) \in Nat
    BY <2>1, ConcatProperties, LenProperties
  <2>3. \A i \in 1..a : uu[i] = ss[i]
    BY <2>1, <2>2
  <2>4. \A i \in 1..Len(tt) : uu[a + i] = tt[i]
    BY <2>1, <2>2
  <2>5. \A i \in 1..Len(tt) : tt[i] \in Seq(S)
    BY <2>1, ElementOfSeq
  <2>6. FlattenSeq(ss) \in Seq(S)
    BY <2>1, FlattenFacts
  <2> QED BY <2>2, <2>3, <2>4, <2>5, <2>6
<1> HIDE DEF uu, a
<1>2. 0 \in M
  <2>1. Upto(uu, a) = ss
    <3>1. Upto(ss, a) = ss
      BY <1>1, UptoFacts DEF a
    <3> QED BY <1>1, <3>1 DEF Upto
  <2>2. FlattenSeq(Upto(tt, 0)) = <<>>
    BY FlattenFacts
  <2>3. FlattenSeq(ss) \o <<>> = FlattenSeq(ss) /\ a + 0 = a
    BY <1>1, ConcatEmptySeq
  <2> QED BY <2>1, <2>2, <2>3
<1>3. ASSUME NEW n \in Nat, n \in M PROVE n + 1 \in M
  <2> SUFFICES ASSUME n + 1 <= Len(tt)
               PROVE FlattenSeq(Upto(uu, a + (n + 1))) = FlattenSeq(ss) \o FlattenSeq(Upto(tt, n + 1))
    OBVIOUS
  <2>0. a \in Nat /\ Len(tt) \in Nat /\ Len(uu) = a + Len(tt)
    BY <1>1
  <2>1. n \in 0..(Len(tt) - 1) /\ n + 1 \in 1..Len(tt) /\ a + n \in 0..(Len(uu) - 1)
        /\ a + (n + 1) = (a + n) + 1 /\ n <= Len(tt)
    BY <2>0
  <2>2. FlattenSeq(Upto(uu, a + n)) = FlattenSeq(ss) \o FlattenSeq(Upto(tt, n))
    BY <1>3, <2>1
  <2>3. /\ FlattenSeq(Upto(tt, n + 1)) = FlattenSeq(Upto(tt, n)) \o tt[n + 1]
        /\ FlattenSeq(Upto(tt, n)) \in Seq(S)
    BY <2>1, FlattenFacts
  <2>4. FlattenSeq(Upto(uu, (a + n) + 1)) = FlattenSeq(Upto(uu, a + n)) \o uu[(a + n) + 1]
    BY <1>1, <2>1, FlattenFacts
  <2>5. uu[(a + n) + 1] = tt[n + 1] /\ tt[n + 1] \in Seq(S)
    <3> DEFINE m == n + 1
    <3>1. m \in 1..Len(tt) /\ a + m = (a + n) + 1
      BY <2>1
    <3> HIDE DEF m
    <3>2. uu[a + m] = tt[m] /\ tt[m] \in Seq(S)
      BY <1>1, <3>1
    <3>3. uu[(a + n) + 1] = tt[m] /\ tt[m] \in Seq(S)
      BY <3>1, <3>2
    <3> QED BY <3>3 DEF m
  <2> DEFINE p == FlattenSeq(ss)
             q == FlattenSeq(Upto(tt, n))
             r == tt[n + 1]
  <2>6. (p \o q) \o r = p \o (q \o r)
    <3>1. p \in Seq(S) /\ q \in Seq(S) /\ r \in Seq(S)
      BY <1>1, <2>3, <2>5
    <3> HIDE DEF p, q, r
    <3> QED BY <3>1, ConcatAssociative, SMTT(30)
  <2> QED BY <2>1, <2>2, <2>3, <2>4, <2>5, <2>6
<1>4. Nat \subseteq M
  <2> HIDE DEF M
  <2> QED BY <1>2, <1>3, SetInduction
<1>5. Upto(uu, a + Len(tt)) = uu /\ Upto(tt, Len(tt)) = tt
  <2>1. uu \in Seq(Seq(S)) /\ tt \in Seq(Seq(S)) /\ Len(uu) \in 0..Len(uu)
        /\ Len(tt) \in 0..Len(tt)
    BY <1>1
  <2>2. Upto(uu, Len(uu)) = uu /\ Upto(tt, Len(tt)) = tt
    BY <2>1, UptoFacts
  <2> QED BY <1>1, <2>2
<1>6. FlattenSeq(uu) = FlattenSeq(ss) \o FlattenSeq(tt)
  <2>1. Len(tt) \in M
    BY <1>1, <1>4
  <2>2. Len(tt) <= Len(tt)
    BY <1>1
  <2> QED BY <1>5, <2>1, <2>2
<1> QED BY <1>6 DEF uu

LEMMA FlattenOne ==
  ASSUME NEW S, NEW s \in Seq(S)
  PROVE  FlattenSeq(<<s>>) = s
<1> DEFINE ss == <<s>>
<1>1. ss \in Seq(Seq(S)) /\ Len(ss) = 1 /\ ss[1] = s
  OBVIOUS
<1> HIDE DEF ss
<1>2. Upto(ss, 1) = ss
  BY <1>1, UptoFacts
<1>3. FlattenSeq(Upto(ss, 0)) = <<>> /\ FlattenSeq(Upto(ss, 0 + 1)) = FlattenSeq(Upto(ss, 0)) \o ss[0 + 1]
  <2>1. ss \in Seq(Seq(S)) /\ 0 \in 0..(Len(ss) - 1)
    BY <1>1
  <2> QED BY <2>1, FlattenFacts
<1>4. <<>> \o s = s
  BY ConcatEmptySeq
<1>5. 0 + 1 = 1
  OBVIOUS
<1>6. FlattenSeq(ss) = s
  BY <1>1, <1>2, <1>3, <1>4, <1>5
<1> QED BY <1>6 DEF ss

LEMMA FlattenNone == FlattenSeq(<<>>) = <<>>
<1>1. Len(<<>>) = 0
  OBVIOUS
<1> QED BY <1>1 DEF FlattenSeq


\* A list with every element replaced by a list.
Spread(by, s) == FlattenSeq([k \in DOMAIN s |-> by[s[k]]])

LEMMA SpreadListed ==
  ASSUME NEW S, NEW U, NEW by \in [S -> Seq(U)], NEW s \in Seq(S)
  PROVE  /\ [k \in DOMAIN s |-> by[s[k]]] \in Seq(Seq(U))
         /\ Len([k \in DOMAIN s |-> by[s[k]]]) = Len(s)
<1>1. Len(s) \in Nat /\ DOMAIN s = 1..Len(s) /\ \A k \in 1..Len(s) : s[k] \in S
  BY ElementOfSeq, LenProperties
<1>2. \A k \in 1..Len(s) : by[s[k]] \in Seq(U)
  BY <1>1
<1>3. [k \in 1..Len(s) |-> by[s[k]]] \in [1..Len(s) -> Seq(U)]
  BY <1>2
<1> QED BY <1>1, <1>3

LEMMA SpreadFacts ==
  ASSUME NEW S, NEW U, NEW by \in [S -> Seq(U)], NEW s \in Seq(S)
  PROVE  /\ Spread(by, s) \in Seq(U)
         /\ Spread(by, <<>>) = <<>>
         /\ \A x \in S : Spread(by, <<x>>) = by[x]
<1>1. Spread(by, s) \in Seq(U)
  <2> DEFINE ss == [k \in DOMAIN s |-> by[s[k]]]
  <2>1. ss \in Seq(Seq(U))
    BY SpreadListed
  <2>2. FlattenSeq(ss) \in Seq(U)
    <3> HIDE DEF ss
    <3> QED BY <2>1, FlattenFacts
  <2> QED BY <2>2 DEF Spread
<1>2. Spread(by, <<>>) = <<>>
  <2>1. [k \in DOMAIN <<>> |-> by[<<>>[k]]] = <<>>
    OBVIOUS
  <2> QED BY <2>1, FlattenNone DEF Spread
<1>3. ASSUME NEW x \in S PROVE Spread(by, <<x>>) = by[x]
  <2>1. [k \in DOMAIN <<x>> |-> by[<<x>>[k]]] = <<by[x]>>
    OBVIOUS
  <2>2. FlattenSeq(<<by[x]>>) = by[x]
    <3>1. by[x] \in Seq(U)
      OBVIOUS
    <3> QED BY <3>1, FlattenOne
  <2> QED BY <2>1, <2>2 DEF Spread
<1> QED BY <1>1, <1>2, <1>3

LEMMA ConcatAt ==
  ASSUME NEW S, NEW s \in Seq(S), NEW t \in Seq(S), NEW i \in 1..(Len(s) + Len(t))
  PROVE  (s \o t)[i] = IF i <= Len(s) THEN s[i] ELSE t[i - Len(s)]
OBVIOUS

LEMMA SpreadConcat ==
  ASSUME NEW S, NEW U, NEW by \in [S -> Seq(U)], NEW s \in Seq(S), NEW t \in Seq(S)
  PROVE  Spread(by, s \o t) = Spread(by, s) \o Spread(by, t)
<1> DEFINE u == s \o t
           a == Len(s)
           b == Len(t)
           over(v) == [k \in DOMAIN v |-> by[v[k]]]
<1>1. /\ u \in Seq(S) /\ a \in Nat /\ b \in Nat /\ Len(u) = a + b
      /\ DOMAIN s = 1..a /\ DOMAIN t = 1..b /\ DOMAIN u = 1..(a + b)
      /\ \A i \in 1..a : u[i] = s[i]
      /\ \A i \in 1..b : u[a + i] = t[i]
  OBVIOUS
<1>2. /\ over(s) \in Seq(Seq(U)) /\ Len(over(s)) = a
      /\ over(t) \in Seq(Seq(U)) /\ Len(over(t)) = b
      /\ over(u) \in Seq(Seq(U)) /\ Len(over(u)) = a + b
  BY <1>1, SpreadListed
<1>3. over(u) = over(s) \o over(t)
  <2> DEFINE o == over(s) \o over(t)
  <2>1. /\ o \in Seq(Seq(U)) /\ Len(o) = a + b
        /\ \A i \in 1..(a + b) : o[i] = IF i <= a THEN over(s)[i] ELSE over(t)[i - a]
    <3> HIDE DEF over
    <3> DEFINE p == over(s)
               q == over(t)
    <3>1. p \in Seq(Seq(U)) /\ q \in Seq(Seq(U)) /\ Len(p) = a /\ Len(q) = b
      BY <1>2
    <3>3. p \o q \in Seq(Seq(U)) /\ Len(p \o q) = a + b
      <4> HIDE DEF p, q
      <4> QED BY <3>1
    <3>2. \A i \in 1..(a + b) : (p \o q)[i] = IF i <= a THEN p[i] ELSE q[i - a]
      <4> HIDE DEF p, q
      <4> QED BY <3>1, ConcatAt
    <3> QED BY <3>2, <3>3
  <2>2. ASSUME NEW i \in 1..(a + b) PROVE over(u)[i] = o[i]
    <3>1. CASE i <= a
      <4>1. i \in 1..a /\ u[i] = s[i]
        BY <1>1, <3>1
      <4>2. over(u)[i] = by[s[i]] /\ over(s)[i] = by[s[i]]
        BY <1>1, <4>1
      <4> HIDE DEF over, o
      <4> QED BY <2>1, <3>1, <4>2
    <3>2. CASE i > a
      <4>1. i - a \in 1..b /\ a + (i - a) = i /\ ~(i <= a)
        BY <1>1, <3>2
      <4>2. u[i] = t[i - a]
        <5> HIDE DEF u, a, b
        <5> QED BY <1>1, <4>1
      <4>3. over(u)[i] = by[t[i - a]] /\ over(t)[i - a] = by[t[i - a]]
        BY <1>1, <4>1, <4>2
      <4> HIDE DEF over, o
      <4> QED BY <2>1, <4>1, <4>3
    <3> QED BY <1>1, <3>1, <3>2
  <2>3. over(u) = o
    <3> HIDE DEF over, o, a, b, u
    <3> QED BY <1>2, <2>1, <2>2, SeqEqual
  <2> QED BY <2>3
<1>4. FlattenSeq(over(s) \o over(t)) = FlattenSeq(over(s)) \o FlattenSeq(over(t))
  <2> HIDE DEF over
  <2> QED BY <1>2, FlattenConcat
<1>5. FlattenSeq(over(u)) = FlattenSeq(over(s)) \o FlattenSeq(over(t))
  <2> HIDE DEF over, u
  <2> QED BY <1>3, <1>4
<1> QED BY <1>5 DEF Spread

\* The same of a list that is two others, one after the other.
Both(u, s, t) == u = s \o t

LEMMA SpreadBoth ==
  ASSUME NEW S, NEW U, NEW by, by \in [S -> Seq(U)], NEW s, s \in Seq(S), NEW t, t \in Seq(S),
         NEW u, Both(u, s, t)
  PROVE  Both(Spread(by, u), Spread(by, s), Spread(by, t))
<1>1. Spread(by, s \o t) = Spread(by, s) \o Spread(by, t)
  BY SpreadConcat
<1> DEFINE v == s \o t
<1>2. u = v /\ Spread(by, v) = Spread(by, s) \o Spread(by, t)
  BY <1>1 DEF Both
<1> HIDE DEF v
<1> QED BY <1>2 DEF Both

\* Lists by the elements of S.
Lists(S, U) == [S -> Seq(U)]

SpreadEach(by, ss) == [k \in DOMAIN ss |-> Spread(by, ss[k])]

\* To spread what was flattened is to spread each list.
LEMMA SpreadFlatten ==
  ASSUME NEW S, NEW U, NEW by \in Lists(S, U), NEW ss \in Seq(Seq(S))
  PROVE  /\ SpreadEach(by, ss) \in Seq(Seq(U))
         /\ Spread(by, FlattenSeq(ss)) = FlattenSeq(SpreadEach(by, ss))
<1> USE DEF Lists
<1> DEFINE kk == [k \in DOMAIN ss |-> Spread(by, ss[k])]
           M == {n \in Nat : n <= Len(ss) =>
                   Spread(by, FlattenSeq(Upto(ss, n))) = FlattenSeq(Upto(kk, n))}
<1>1. /\ Len(ss) \in Nat /\ DOMAIN ss = 1..Len(ss)
      /\ \A k \in 1..Len(ss) : ss[k] \in Seq(S)
  BY ElementOfSeq, LenProperties
<1>2. \A k \in 1..Len(ss) : Spread(by, ss[k]) \in Seq(U)
  BY <1>1, SpreadFacts
<1>3. kk \in Seq(Seq(U)) /\ Len(kk) = Len(ss) /\ \A k \in 1..Len(ss) : kk[k] = Spread(by, ss[k])
  BY <1>1, <1>2
<1> HIDE DEF kk
<1>4. 0 \in M
  <2>1. FlattenSeq(Upto(ss, 0)) = <<>> /\ FlattenSeq(Upto(kk, 0)) = <<>>
    BY <1>3, FlattenFacts
  <2>2. Spread(by, <<>>) = <<>>
    <3>1. <<>> \in Seq(S)
      OBVIOUS
    <3> QED BY <3>1, SpreadFacts
  <2> QED BY <2>1, <2>2
<1>5. ASSUME NEW n \in Nat, n \in M PROVE n + 1 \in M
  <2> SUFFICES ASSUME n + 1 <= Len(ss)
               PROVE Spread(by, FlattenSeq(Upto(ss, n + 1))) = FlattenSeq(Upto(kk, n + 1))
    OBVIOUS
  <2>1. n \in 0..(Len(ss) - 1) /\ n \in 0..(Len(kk) - 1) /\ n + 1 \in 1..Len(ss) /\ n <= Len(ss)
    BY <1>1, <1>3
  <2>2. Spread(by, FlattenSeq(Upto(ss, n))) = FlattenSeq(Upto(kk, n))
    BY <1>5, <2>1
  <2>3. /\ FlattenSeq(Upto(ss, n + 1)) = FlattenSeq(Upto(ss, n)) \o ss[n + 1]
        /\ FlattenSeq(Upto(ss, n)) \in Seq(S)
    BY <2>1, FlattenFacts
  <2>4. FlattenSeq(Upto(kk, n + 1)) = FlattenSeq(Upto(kk, n)) \o kk[n + 1]
    BY <1>3, <2>1, FlattenFacts
  <2>5. ss[n + 1] \in Seq(S) /\ kk[n + 1] = Spread(by, ss[n + 1])
    BY <1>1, <1>3, <2>1
  <2>6. Spread(by, FlattenSeq(Upto(ss, n)) \o ss[n + 1])
          = Spread(by, FlattenSeq(Upto(ss, n))) \o Spread(by, ss[n + 1])
    <3> DEFINE p == FlattenSeq(Upto(ss, n))
               q == ss[n + 1]
               r == p \o q
    <3>1. Both(r, p, q) /\ by \in [S -> Seq(U)] /\ p \in Seq(S) /\ q \in Seq(S)
      BY <2>3, <2>5 DEF Both
    <3> HIDE DEF p, q, r
    <3>2. Both(Spread(by, r), Spread(by, p), Spread(by, q))
      BY <3>1, SpreadBoth
    <3> QED BY <3>2 DEF p, q, r, Both
  <2> QED BY <2>2, <2>3, <2>4, <2>5, <2>6
<1>6. Nat \subseteq M
  <2> HIDE DEF M
  <2> QED BY <1>4, <1>5, SetInduction
<1>7. Len(ss) \in M /\ Len(ss) <= Len(ss)
  BY <1>1, <1>6
<1>8. Upto(ss, Len(ss)) = ss /\ Upto(kk, Len(kk)) = kk
  <2>1. Len(ss) \in 0..Len(ss) /\ Len(kk) \in 0..Len(kk)
    BY <1>1, <1>3
  <2> QED BY <1>3, <2>1, UptoFacts
<1>9. kk \in Seq(Seq(U)) /\ Spread(by, FlattenSeq(ss)) = FlattenSeq(kk)
  BY <1>3, <1>7, <1>8
<1> QED BY <1>9 DEF kk, SpreadEach

-----------------------------------------------------------------------------
(***************************************************************************)
(* Trees, drawn as lists: what stands at a node, then what is drawn of its *)
(* children.                                                               *)
(***************************************************************************)

Under(d, D, kids, id) ==
  FlattenSeq([k \in DOMAIN kids[id] |->
                IF kids[id][k] \in D THEN d[kids[id][k]] ELSE <<>>])

Unfolds(d, D, head, kids) == d = [id \in D |-> head[id] \o Under(d, D, kids, id)]

\* Children rank below their parents.
Ranked(D, kids, rank) ==
  \A id \in D : \A k \in DOMAIN kids[id] :
    kids[id][k] \in D => rank[kids[id][k]] < rank[id]

LEMMA UnderTyped ==
  ASSUME NEW D, NEW U, NEW X, NEW kids \in [D -> Seq(X)], NEW d \in [D -> Seq(U)], NEW id \in D
  PROVE  Under(d, D, kids, id) \in Seq(U)
<1> DEFINE c == kids[id]
           cc == [k \in DOMAIN c |-> IF c[k] \in D THEN d[c[k]] ELSE <<>>]
<1>1. Len(c) \in Nat /\ DOMAIN c = 1..Len(c)
  OBVIOUS
<1>2. \A k \in 1..Len(c) : (IF c[k] \in D THEN d[c[k]] ELSE <<>>) \in Seq(U)
  OBVIOUS
<1>3. cc \in Seq(Seq(U))
  BY <1>1, <1>2
<1>4. FlattenSeq(cc) \in Seq(U)
  <2> HIDE DEF cc
  <2> QED BY <1>3, FlattenFacts
<1> QED BY <1>4 DEF Under

\* Only the children matter.
SameUnder(d, e, D, kids, id) ==
  \A k \in DOMAIN kids[id] : kids[id][k] \in D => d[kids[id][k]] = e[kids[id][k]]

LEMMA UnderSame ==
  ASSUME NEW D, NEW kids, NEW d, NEW e, NEW id, SameUnder(d, e, D, kids, id)
  PROVE  Under(d, D, kids, id) = Under(e, D, kids, id)
<1>1. [k \in DOMAIN kids[id] |-> IF kids[id][k] \in D THEN d[kids[id][k]] ELSE <<>>]
      = [k \in DOMAIN kids[id] |-> IF kids[id][k] \in D THEN e[kids[id][k]] ELSE <<>>]
  BY DEF SameUnder
<1> QED BY <1>1 DEF Under

\* Up to a rank.
UnfoldsTo(d, D, head, kids, rank, n) ==
  \A id \in D : rank[id] < n => d[id] = head[id] \o Under(d, D, kids, id)

LEMMA UnfoldExists ==
  ASSUME NEW D, NEW U, NEW X, NEW head \in [D -> Seq(U)], NEW kids \in [D -> Seq(X)],
         NEW N \in Nat, NEW rank \in [D -> 0..N], Ranked(D, kids, rank)
  PROVE  \E d \in [D -> Seq(U)] : Unfolds(d, D, head, kids)
<1> DEFINE T == {n \in Nat : \E d \in [D -> Seq(U)] : UnfoldsTo(d, D, head, kids, rank, n)}
<1>1. 0 \in T
  <2>1. [id \in D |-> <<>>] \in [D -> Seq(U)]
    OBVIOUS
  <2>2. UnfoldsTo([id \in D |-> <<>>], D, head, kids, rank, 0)
    BY DEF UnfoldsTo
  <2> QED BY <2>1, <2>2
<1>2. ASSUME NEW n \in Nat, n \in T PROVE n + 1 \in T
  <2>1. PICK d \in [D -> Seq(U)] : UnfoldsTo(d, D, head, kids, rank, n)
    BY <1>2
  <2> DEFINE e == [id \in D |-> head[id] \o Under(d, D, kids, id)]
  <2>2. \A id \in D : head[id] \o Under(d, D, kids, id) \in Seq(U)
    <3> TAKE id \in D
    <3>1. head[id] \in Seq(U) /\ Under(d, D, kids, id) \in Seq(U)
      BY UnderTyped
    <3> QED BY <3>1, ConcatProperties
  <2>3. e \in [D -> Seq(U)]
    BY <2>2
  <2>4. ASSUME NEW id \in D, rank[id] < n + 1
        PROVE  e[id] = head[id] \o Under(e, D, kids, id)
    <3>1. ASSUME NEW k \in DOMAIN kids[id], kids[id][k] \in D
          PROVE  d[kids[id][k]] = e[kids[id][k]]
      <4>1. rank[kids[id][k]] < n
        <5>1. rank[kids[id][k]] < rank[id]
          BY <3>1 DEF Ranked
        <5>2. rank[kids[id][k]] \in 0..N /\ rank[id] \in 0..N
          BY <3>1
        <5> QED BY <2>4, <5>1, <5>2
      <4> QED BY <2>1, <3>1, <4>1 DEF UnfoldsTo
    <3>2. Under(d, D, kids, id) = Under(e, D, kids, id)
      <4> HIDE DEF e
      <4>1. SameUnder(d, e, D, kids, id)
        BY <3>1 DEF SameUnder
      <4> QED BY <4>1, UnderSame
    <3>3. e[id] = head[id] \o Under(d, D, kids, id)
      OBVIOUS
    <3> HIDE DEF e
    <3> QED BY <3>2, <3>3
  <2>5. UnfoldsTo(e, D, head, kids, rank, n + 1)
    <3> HIDE DEF e
    <3> QED BY <2>4 DEF UnfoldsTo
  <2> HIDE DEF e
  <2> QED BY <2>3, <2>5
<1>3. Nat \subseteq T
  <2> HIDE DEF T
  <2> QED BY <1>1, <1>2, SetInduction
<1>4. PICK d \in [D -> Seq(U)] : UnfoldsTo(d, D, head, kids, rank, N + 1)
  BY <1>3
<1>5. \A id \in D : d[id] = head[id] \o Under(d, D, kids, id)
  <2>1. \A id \in D : rank[id] < N + 1
    OBVIOUS
  <2> QED BY <1>4, <2>1 DEF UnfoldsTo
<1>6. Unfolds(d, D, head, kids)
  BY <1>5 DEF Unfolds
<1> QED BY <1>6

LEMMA UnfoldUnique ==
  ASSUME NEW D, NEW kids, NEW head, NEW N \in Nat, NEW rank \in [D -> 0..N], Ranked(D, kids, rank),
         NEW d, NEW e, Unfolds(d, D, head, kids), Unfolds(e, D, head, kids)
  PROVE  d = e
<1> DEFINE T == {n \in Nat : \A id \in D : rank[id] < n => d[id] = e[id]}
<1>1. \A id \in D : /\ d[id] = head[id] \o Under(d, D, kids, id)
                    /\ e[id] = head[id] \o Under(e, D, kids, id)
  BY DEF Unfolds
<1>2. 0 \in T
  OBVIOUS
<1>3. ASSUME NEW n \in Nat, n \in T PROVE n + 1 \in T
  <2> SUFFICES ASSUME NEW id \in D, rank[id] < n + 1 PROVE d[id] = e[id]
    OBVIOUS
  <2>1. ASSUME NEW k \in DOMAIN kids[id], kids[id][k] \in D
        PROVE  d[kids[id][k]] = e[kids[id][k]]
    <3>1. rank[kids[id][k]] < rank[id]
      BY <2>1 DEF Ranked
    <3>2. rank[kids[id][k]] \in 0..N /\ rank[id] \in 0..N
      BY <2>1
    <3>3. rank[kids[id][k]] < n
      BY <3>1, <3>2
    <3> QED BY <1>3, <2>1, <3>3
  <2>2. Under(d, D, kids, id) = Under(e, D, kids, id)
    BY <2>1, UnderSame DEF SameUnder
  <2> QED BY <1>1, <2>2
<1>4. Nat \subseteq T
  <2> HIDE DEF T
  <2> QED BY <1>2, <1>3, SetInduction
<1>5. \A id \in D : d[id] = e[id]
  <2>1. N + 1 \in T /\ \A id \in D : rank[id] < N + 1
    BY <1>4
  <2> QED BY <2>1
<1> QED BY <1>5 DEF Unfolds


Kids(events) == [id \in DOMAIN events |-> events[id].childEventIds]

Selves(D) == [id \in D |-> <<id>>]

\* The tree of events whose children rank below them.
LEMMA TreeDraws ==
  ASSUME NEW events, NEW X, Kids(events) \in [DOMAIN events -> Seq(X)],
         NEW N \in Nat, NEW rank \in [DOMAIN events -> 0..N],
         Ranked(DOMAIN events, Kids(events), rank)
  PROVE  \E d \in [DOMAIN events -> Seq(DOMAIN events)] :
           /\ Unfolds(d, DOMAIN events, Selves(DOMAIN events), Kids(events))
           /\ \A roots : TreeOf(roots, events) =
                FlattenSeq([k \in DOMAIN roots |->
                              IF roots[k] \in DOMAIN events THEN d[roots[k]] ELSE <<>>])
<1> DEFINE D == DOMAIN events
           Eq(f) == f = [id \in D |-> <<id>> \o FlattenSeq(
                           [k \in DOMAIN events[id].childEventIds |->
                              IF events[id].childEventIds[k] \in D
                              THEN f[events[id].childEventIds[k]] ELSE <<>>])]
           h == CHOOSE f : Eq(f)
<1>1. ASSUME NEW f PROVE Eq(f) <=> Unfolds(f, D, Selves(D), Kids(events))
  <2>1. [id \in D |-> <<id>> \o FlattenSeq(
                           [k \in DOMAIN events[id].childEventIds |->
                              IF events[id].childEventIds[k] \in D
                              THEN f[events[id].childEventIds[k]] ELSE <<>>])]
        = [id \in D |-> Selves(D)[id] \o Under(f, D, Kids(events), id)]
    <3>1. ASSUME NEW id \in D
          PROVE  /\ Selves(D)[id] = <<id>> /\ Kids(events)[id] = events[id].childEventIds
      BY DEF Selves, Kids
    <3> QED BY <3>1 DEF Under
  <2> QED BY <2>1 DEF Unfolds
<1>2. Selves(D) \in [D -> Seq(D)]
  BY DEF Selves
<1>3. PICK d \in [D -> Seq(D)] : Unfolds(d, D, Selves(D), Kids(events))
  BY <1>2, UnfoldExists
<1>4. Eq(h)
  <2>1. \E f : Eq(f)
    BY <1>1, <1>3
  <2> HIDE DEF Eq
  <2> QED BY <2>1
<1>5. h = d
  <2>1. Unfolds(h, D, Selves(D), Kids(events))
    <3> HIDE DEF Eq, h
    <3> QED BY <1>1, <1>4
  <2> HIDE DEF Eq, h
  <2> QED BY <1>3, <2>1, UnfoldUnique
<1>6. ASSUME NEW roots
      PROVE  TreeOf(roots, events) =
                FlattenSeq([k \in DOMAIN roots |-> IF roots[k] \in D THEN h[roots[k]] ELSE <<>>])
  BY DEF TreeOf
<1> QED
  <2> HIDE DEF h
  <2> QED BY <1>3, <1>5, <1>6


-----------------------------------------------------------------------------
(***************************************************************************)
(* The rows of a simulated tree.                                           *)
(***************************************************************************)

\* The root, and under it every other node.
LEMMA TransformFacts ==
  ASSUME NEW nodes, nodes \in Seq(ToSet(nodes)), nodes # <<>>
  PROVE  /\ \A id \in DOMAIN TransformEngineTree(nodes) :
              /\ id.base \in 1..Len(nodes) /\ id = SimId(id.base)
              /\ nodes[id.base].kind # "fetch"
              /\ TransformEngineTree(nodes)[id].contract = nodes[id.base].contract
              /\ TransformEngineTree(nodes)[id].consuming = (nodes[id.base].kind = "consuming")
              /\ (TransformEngineTree(nodes)[id].type = "created") <=> (nodes[id.base].kind = "create")
              /\ TransformEngineTree(nodes)[id].type \in {"created", "exercised"}
              /\ Kids(TransformEngineTree(nodes))[id] =
                   IF id.base = 1 THEN [k \in 1..(Len(nodes) - 1) |-> SimId(k + 1)] ELSE <<>>
         /\ \A i \in 1..Len(nodes) : nodes[i].kind # "fetch" =>
              SimId(i) \in DOMAIN TransformEngineTree(nodes) /\ SimId(i).base = i
<1> DEFINE events == TransformEngineTree(nodes)
<1>1. DOMAIN nodes = 1..Len(nodes) /\ Len(nodes) \in Nat /\ Len(nodes) # 0
  BY LenProperties, EmptySeq
<1>2. DOMAIN events = {SimId(i) : i \in {j \in 1..Len(nodes) : nodes[j].kind # "fetch"}}
  BY <1>1 DEF TransformEngineTree
<1>3. \A i : SimId(i).base = i
  BY DEF SimId
<1>4. ASSUME NEW id \in DOMAIN events
      PROVE  /\ id.base \in 1..Len(nodes) /\ id = SimId(id.base)
             /\ nodes[id.base].kind # "fetch"
             /\ events[id].contract = nodes[id.base].contract
             /\ events[id].consuming = (nodes[id.base].kind = "consuming")
             /\ (events[id].type = "created") <=> (nodes[id.base].kind = "create")
             /\ events[id].type \in {"created", "exercised"}
             /\ Kids(events)[id] =
                  IF id.base = 1 THEN [k \in 1..(Len(nodes) - 1) |-> SimId(k + 1)] ELSE <<>>
  <2>1. PICK i \in 1..Len(nodes) : nodes[i].kind # "fetch" /\ id = SimId(i)
    BY <1>2
  <2>2. id.base = i
    BY <1>3, <2>1
  <2>3. events[id] =
          [type |-> IF nodes[id.base].kind = "create" THEN "created" ELSE "exercised",
           consuming |-> nodes[id.base].kind = "consuming",
           contract |-> nodes[id.base].contract, number |-> id.base,
           childEventIds |-> IF id.base = 1 /\ Len(nodes) > 1
                             THEN [k \in 1..(Len(nodes) - 1) |-> SimId(k + 1)] ELSE <<>>]
    BY <1>1, <2>1 DEF TransformEngineTree
  <2>4. Kids(events)[id] = events[id].childEventIds
    BY DEF Kids
  <2>5. Len(nodes) = 1 => [k \in 1..(Len(nodes) - 1) |-> SimId(k + 1)] = <<>>
    OBVIOUS
  <2>6. Len(nodes) = 1 \/ Len(nodes) > 1
    BY <1>1
  <2> HIDE DEF events
  <2>7. Kids(events)[id] = IF id.base = 1 THEN [k \in 1..(Len(nodes) - 1) |-> SimId(k + 1)] ELSE <<>>
    BY <2>3, <2>4, <2>5, <2>6
  <2> QED BY <2>1, <2>2, <2>3, <2>7
<1>5. \A i \in 1..Len(nodes) : nodes[i].kind # "fetch" => SimId(i) \in DOMAIN events /\ SimId(i).base = i
  BY <1>2, <1>3
<1> QED BY <1>4, <1>5

\* Every event is a row.
LEMMA TreeRowsAll ==
  ASSUME NEW nodes, nodes \in Seq(ToSet(nodes)), nodes # <<>>, nodes[1].kind # "fetch"
  PROVE  ToSet(TreeOf(<<SimId(1)>>, TransformEngineTree(nodes))) = DOMAIN TransformEngineTree(nodes)
<1> DEFINE events == TransformEngineTree(nodes)
           D == DOMAIN events
           n == Len(nodes)
           X == {SimId(i) : i \in 1..n}
           rank == [id \in D |-> IF id.base = 1 THEN 1 ELSE 0]
           kids == Kids(events)
           below == [k \in 1..(n - 1) |-> SimId(k + 1)]
<1>1. n \in Nat /\ n >= 1
  BY LenProperties, EmptySeq
<1>2. /\ \A id \in D : /\ id.base \in 1..n /\ id = SimId(id.base)
                       /\ kids[id] = IF id.base = 1 THEN below ELSE <<>>
      /\ \A i \in 1..n : nodes[i].kind # "fetch" => SimId(i) \in D
      /\ \A i \in 1..n : SimId(i).base = i
  BY TransformFacts DEF SimId
<1>3. SimId(1) \in D
  BY <1>1, <1>2
<1>4. below \in Seq(X) /\ DOMAIN below = 1..(n - 1)
  <2>1. \A k \in 1..(n - 1) : SimId(k + 1) \in X
    BY <1>1
  <2>2. n - 1 \in Nat
    BY <1>1
  <2> QED BY <2>1, <2>2
<1> HIDE DEF events, X, n
<1>5. kids \in [D -> Seq(X)]
  <2>1. kids = [id \in D |-> kids[id]]
    BY DEF Kids
  <2>2. \A id \in D : kids[id] \in Seq(X)
    <3> TAKE id \in D
    <3> HIDE DEF below, kids
    <3>1. <<>> \in Seq(X)
      OBVIOUS
    <3>2. kids[id] = below \/ kids[id] = <<>>
      BY <1>2
    <3> QED BY <1>4, <3>1, <3>2
  <2> HIDE DEF kids
  <2> QED BY <2>1, <2>2
<1>6. rank \in [D -> 0..1]
  OBVIOUS
<1>7. Ranked(D, kids, rank)
  <2>1. ASSUME NEW id \in D, NEW k \in DOMAIN kids[id], kids[id][k] \in D
        PROVE  rank[kids[id][k]] < rank[id]
    <3>1. id.base = 1 /\ kids[id] = below
      BY <1>2, <2>1
    <3>2. k \in 1..(n - 1) /\ below[k] = SimId(k + 1) /\ k + 1 \in 1..n /\ k + 1 # 1
      BY <1>1, <1>4, <2>1, <3>1
    <3>3. kids[id][k].base = k + 1
      BY <1>2, <3>1, <3>2
    <3>4. rank[kids[id][k]] = 0 /\ rank[id] = 1
      BY <2>1, <3>1, <3>2, <3>3
    <3> QED BY <3>4
  <2> QED BY <2>1 DEF Ranked
<1> HIDE DEF rank
<1>8. PICK d \in [D -> Seq(D)] :
        /\ Unfolds(d, D, Selves(D), kids)
        /\ \A roots : TreeOf(roots, events) =
             FlattenSeq([k \in DOMAIN roots |-> IF roots[k] \in D THEN d[roots[k]] ELSE <<>>])
  <2>1. 1 \in Nat
    OBVIOUS
  <2> QED BY <1>5, <1>6, <1>7, <2>1, TreeDraws
<1>9. ASSUME NEW id \in D PROVE d[id] = <<id>> \o Under(d, D, kids, id)
  BY <1>8 DEF Unfolds, Selves
<1>10. ASSUME NEW id \in D, id.base # 1 PROVE d[id] = <<id>>
  <2>1. kids[id] = <<>>
    BY <1>2, <1>10
  <2>2. [k \in DOMAIN kids[id] |-> IF kids[id][k] \in D THEN d[kids[id][k]] ELSE <<>>] = <<>>
    BY <2>1
  <2>3. Under(d, D, kids, id) = <<>>
    BY <2>2, FlattenNone DEF Under
  <2>4. <<id>> \o <<>> = <<id>>
    BY ConcatEmptySeq
  <2>5. d[id] = <<id>> \o Under(d, D, kids, id)
    BY <1>9
  <2> QED BY <2>3, <2>4, <2>5
<1> DEFINE shown == [k \in 1..(n - 1) |-> IF below[k] \in D THEN d[below[k]] ELSE <<>>]
<1>11. /\ shown \in Seq(Seq(D)) /\ DOMAIN shown = 1..(n - 1)
       /\ \A k \in 1..(n - 1) : ToSet(shown[k]) = IF below[k] \in D THEN {below[k]} ELSE {}
  <2>1. ASSUME NEW k \in 1..(n - 1)
        PROVE  shown[k] = IF below[k] \in D THEN <<below[k]>> ELSE <<>>
    <3>1. below[k] = SimId(k + 1) /\ k + 1 \in 1..n /\ k + 1 # 1
      BY <1>1
    <3>2. below[k].base = k + 1
      BY <1>2, <3>1
    <3>3. below[k].base # 1
      BY <3>1, <3>2
    <3>4. shown[k] = IF below[k] \in D THEN d[below[k]] ELSE <<>>
      OBVIOUS
    <3> HIDE DEF below, shown
    <3>5. below[k] \in D => d[below[k]] = <<below[k]>>
      BY <1>10, <3>3
    <3> QED BY <3>4, <3>5
  <2>2. n - 1 \in Nat /\ DOMAIN shown = 1..(n - 1)
    BY <1>1
  <2>3. shown = [k \in 1..(n - 1) |-> shown[k]]
    OBVIOUS
  <2>4. ToSet(<<>>) = {} /\ \A x : ToSet(<<x>>) = {x}
    BY DEF ToSet
  <2> HIDE DEF below, shown
  <2>5. ASSUME NEW k \in 1..(n - 1)
        PROVE  /\ ToSet(shown[k]) = IF below[k] \in D THEN {below[k]} ELSE {}
               /\ shown[k] \in Seq(D)
    <3>1. CASE below[k] \in D
      <4>1. shown[k] = <<below[k]>>
        BY <2>1, <3>1
      <4> QED BY <2>4, <3>1, <4>1
    <3>2. CASE below[k] \notin D
      <4>1. shown[k] = <<>>
        BY <2>1, <3>2
      <4> QED BY <2>4, <3>2, <4>1
    <3> QED BY <3>1, <3>2
  <2>6. shown \in [1..(n - 1) -> Seq(D)]
    BY <2>3, <2>5
  <2> QED BY <2>2, <2>5, <2>6
<1>12. ToSet(FlattenSeq(shown)) = D \ {SimId(1)}
  <2>1. ToSet(FlattenSeq(shown)) = UNION {ToSet(shown[i]) : i \in DOMAIN shown}
    <3> HIDE DEF shown
    <3> QED BY <1>11, FlattenRange
  <2>2. ASSUME NEW id \in D, id # SimId(1)
        PROVE  \E k \in 1..(n - 1) : below[k] = id
    <3>1. id.base \in 1..n /\ id = SimId(id.base) /\ id.base # 1
      BY <1>2, <2>2
    <3>2. id.base - 1 \in 1..(n - 1) /\ (id.base - 1) + 1 = id.base
      BY <1>1, <3>1
    <3> QED BY <3>1, <3>2
  <2>3. ASSUME NEW k \in 1..(n - 1) PROVE below[k] # SimId(1)
    <3>1. below[k] = SimId(k + 1) /\ k + 1 \in 1..n /\ k + 1 # 1 /\ 1 \in 1..n
      BY <1>1
    <3> QED BY <1>2, <3>1
  <2> HIDE DEF shown, below
  <2>4. ASSUME NEW x PROVE x \in UNION {ToSet(shown[i]) : i \in DOMAIN shown} <=> x \in D \ {SimId(1)}
    <3>1. ASSUME x \in D \ {SimId(1)} PROVE x \in UNION {ToSet(shown[i]) : i \in DOMAIN shown}
      <4>1. PICK k \in 1..(n - 1) : below[k] = x
        BY <2>2, <3>1
      <4>2. x \in ToSet(shown[k])
        BY <1>11, <3>1, <4>1
      <4> QED BY <1>11, <4>2
    <3>2. ASSUME NEW k \in 1..(n - 1), x \in ToSet(shown[k]) PROVE x \in D \ {SimId(1)}
      <4>1. below[k] \in D /\ x = below[k]
        BY <1>11, <3>2
      <4> QED BY <2>3, <4>1
    <3> QED BY <1>11, <3>1, <3>2
  <2> QED BY <2>1, <2>4
<1>13. Under(d, D, kids, SimId(1)) = FlattenSeq(shown)
  <2>1. kids[SimId(1)] = below
    <3>1. SimId(1).base = 1
      BY <1>1, <1>2
    <3> HIDE DEF kids, below
    <3> QED BY <1>2, <1>3, <3>1
  <2>2. DOMAIN below = 1..(n - 1)
    OBVIOUS
  <2> HIDE DEF below, kids
  <2> QED BY <2>1, <2>2 DEF Under
<1>14. ToSet(d[SimId(1)]) = D
  <2>1. FlattenSeq(shown) \in Seq(D)
    <3> HIDE DEF shown
    <3> QED BY <1>11, FlattenFacts
  <2>2. d[SimId(1)] = <<SimId(1)>> \o FlattenSeq(shown)
    BY <1>3, <1>9, <1>13
  <2>3. ToSet(<<SimId(1)>> \o FlattenSeq(shown)) = ToSet(<<SimId(1)>>) \cup ToSet(FlattenSeq(shown))
    <3>1. <<SimId(1)>> \in Seq(D)
      BY <1>3
    <3> HIDE DEF shown
    <3> QED BY <2>1, <3>1, ToSetConcat, ZenonT(60)
  <2>4. ToSet(<<SimId(1)>>) = {SimId(1)}
    BY DEF ToSet
  <2> HIDE DEF shown
  <2> QED BY <1>3, <1>12, <2>2, <2>3, <2>4
<1>15. TreeOf(<<SimId(1)>>, events) = d[SimId(1)]
  <2> DEFINE roots == <<SimId(1)>>
  <2>1. TreeOf(roots, events) =
          FlattenSeq([k \in DOMAIN roots |-> IF roots[k] \in D THEN d[roots[k]] ELSE <<>>])
    BY <1>8
  <2>2. [k \in DOMAIN roots |-> IF roots[k] \in D THEN d[roots[k]] ELSE <<>>] = <<d[SimId(1)]>>
    BY <1>3
  <2>3. d[SimId(1)] \in Seq(D)
    BY <1>3
  <2>4. FlattenSeq(<<d[SimId(1)]>>) = d[SimId(1)]
    BY <2>3, FlattenOne
  <2> QED BY <2>1, <2>2, <2>4
<1> QED BY <1>14, <1>15 DEF events


-----------------------------------------------------------------------------
(***************************************************************************)
(* The simulation tab.                                                     *)
(***************************************************************************)

Commands == {c.nodes : c \in Traceable} \cup {<<>>}
SimRequests == [number : 0..MaxSimulations, nodes : Commands]
SimResults == [request : 0..MaxSimulations, success : BOOLEAN, nodes : Commands]

SimTabTyped ==
  /\ simShown \in BOOLEAN /\ simFailed \in BOOLEAN /\ builder \in BOOLEAN
  /\ simulations \in 0..MaxSimulations
  /\ simPending \in SimRequests /\ lastRequest \in SimRequests /\ whatIfAsked \in SimRequests
  /\ simResult \in SimResults /\ comparison \in SimResults

\* A call that is in flight or answered has one of the numbers given so far.
NumbersGiven ==
  /\ simPending.number <= simulations /\ whatIfAsked.number <= simulations
  /\ simResult.request <= simulations
  /\ simPending # NoneAsked => simPending.number > 0

\* While a simulation runs there is no what-if panel, and the panel that comes
\* will start from its request.
PanelAway ==
  simPending # NoneAsked =>
    /\ lastRequest.number \in {simPending.number, 0}
    /\ whatIfAsked = NoneAsked /\ comparison = NoSimulation

\* A comparison that was asked for is younger than the result.
Younger ==
  /\ whatIfAsked # NoneAsked =>
       simResult # NoSimulation /\ whatIfAsked.number > simResult.request
  /\ comparison # NoSimulation =>
       simResult # NoSimulation /\ comparison.request > simResult.request

StartsFromResult ==
  simPending = NoneAsked /\ ~simFailed /\ simResult # NoSimulation =>
    lastRequest.number \in {simResult.request, 0}

SimTabInv ==
  SimTabTyped /\ NumbersGiven /\ PanelAway /\ Younger /\ StartsFromResult

LEMMA NothingTyped ==
  /\ NoneAsked \in SimRequests /\ NoneAsked.number = 0
  /\ NoSimulation \in SimResults /\ NoSimulation.request = 0
BY MaxSimulationsOK DEF NoneAsked, NoSimulation, SimRequests, SimResults, Commands

LEMMA SimTabInitially == SimTabInit(TRUE) => SimTabInv
<1> SUFFICES ASSUME SimTabInit(TRUE) PROVE SimTabInv
  OBVIOUS
<1>1. /\ simPending = NoneAsked /\ lastRequest = NoneAsked /\ whatIfAsked = NoneAsked
      /\ simResult = NoSimulation /\ comparison = NoSimulation /\ simulations = 0
      /\ simShown = TRUE /\ simFailed = FALSE /\ builder = FALSE
  BY DEF SimTabInit
<1>2. SimTabTyped
  <2>1. simulations \in 0..MaxSimulations
    BY <1>1, MaxSimulationsOK
  <2>2. /\ simPending \in SimRequests /\ lastRequest \in SimRequests /\ whatIfAsked \in SimRequests
        /\ simResult \in SimResults /\ comparison \in SimResults
    BY <1>1, NothingTyped
  <2>3. simShown \in BOOLEAN /\ simFailed \in BOOLEAN /\ builder \in BOOLEAN
    BY <1>1
  <2> QED BY <2>1, <2>2, <2>3 DEF SimTabTyped
<1>3. QED
  BY <1>1, <1>2, NothingTyped
     DEF SimTabInv, NumbersGiven, PanelAway, Younger, StartsFromResult

\* What a request may be answered with.
LEMMA SimulationsOfFacts ==
  ASSUME NEW q \in SimRequests, NEW r \in SimulationsOf(q)
  PROVE  r \in SimResults /\ r.request = q.number
<1>1. q.number \in 0..MaxSimulations /\ q.nodes \in Commands /\ <<>> \in Commands
  BY DEF SimRequests, Commands
<1>2. PICK n \in {q.nodes, <<>>}, b \in BOOLEAN : r = [request |-> q.number, success |-> b, nodes |-> n]
  BY DEF SimulationsOf
<1>3. QED
  BY <1>1, <1>2 DEF SimResults

LEMMA NewRequestFacts ==
  ASSUME SimTabInv, simulations < MaxSimulations, NEW c \in Traceable
  PROVE  /\ NewRequest(c.nodes) \in SimRequests
         /\ NewRequest(c.nodes).number = simulations + 1
         /\ NewRequest(c.nodes) # NoneAsked
         /\ simulations + 1 \in 0..MaxSimulations
<1>1. simulations \in 0..MaxSimulations
  BY DEF SimTabInv, SimTabTyped
<1>2. QED
  BY <1>1, MaxSimulationsOK DEF NewRequest, SimRequests, Commands, NoneAsked

LEMMA SimTabStep == SimTabInv /\ [SimTabNext]_simTabVars => SimTabInv'
<1> SUFFICES ASSUME SimTabInv, [SimTabNext]_simTabVars PROVE SimTabInv'
  OBVIOUS
<1> USE NothingTyped DEF SimTabInv
<1>1. ASSUME NEW c \in Traceable, Simulate(c) PROVE SimTabInv'
  <2>1. /\ simPending' = NewRequest(c.nodes) /\ lastRequest' = simPending'
        /\ simulations' = simulations + 1 /\ simResult' = simResult
        /\ comparison' = NoSimulation /\ whatIfAsked' = NoneAsked /\ simulations < MaxSimulations
        /\ simShown' = TRUE /\ simFailed' = FALSE /\ builder' = FALSE
    BY <1>1 DEF Simulate, WhatIfGone
  <2>2. /\ simPending' \in SimRequests /\ simPending' # NoneAsked
        /\ simPending'.number = simulations + 1 /\ simulations + 1 \in 0..MaxSimulations
    BY <2>1, NewRequestFacts
  <2>3. SimTabTyped' /\ PanelAway' /\ Younger' /\ StartsFromResult'
    BY <2>1, <2>2 DEF SimTabTyped, PanelAway, Younger, StartsFromResult
  <2>4. simResult.request \in 0..MaxSimulations /\ simulations \in 0..MaxSimulations
        /\ simResult.request <= simulations /\ NoneAsked.number = 0
    BY DEF NumbersGiven, SimTabTyped, SimResults, NoneAsked
  <2>5. NumbersGiven'
    BY <2>1, <2>2, <2>4 DEF NumbersGiven
  <2> QED BY <2>3, <2>5
<1>2. CASE SimulationAnswered
  <2>1. /\ simPending # NoneAsked /\ simPending' = NoneAsked
        /\ simShown' = simShown /\ lastRequest' = lastRequest /\ simulations' = simulations
        /\ builder' = builder /\ whatIfAsked' = whatIfAsked /\ comparison' = comparison
        /\ whatIfAsked = NoneAsked /\ comparison = NoSimulation
    BY <1>2 DEF SimulationAnswered, WhatIfKept, PanelAway
  <2>2. CASE simResult' \in SimulationsOf(simPending) /\ simFailed' = simFailed
    <3>1. simResult' \in SimResults /\ simResult'.request = simPending.number
      BY <2>2, SimulationsOfFacts DEF SimTabTyped
    <3>2. NoneAsked.number = 0 /\ simulations \in Nat
      BY MaxSimulationsOK DEF NoneAsked, SimTabTyped
    <3>3. QED
      BY <2>1, <2>2, <3>1, <3>2 DEF SimTabTyped, NumbersGiven, PanelAway, Younger, StartsFromResult
  <2>3. CASE simFailed' = TRUE /\ simResult' = simResult
    <3>1. NoneAsked.number = 0 /\ simulations \in Nat
      BY MaxSimulationsOK DEF NoneAsked, SimTabTyped
    <3>2. QED
      BY <2>1, <2>3, <3>1 DEF SimTabTyped, NumbersGiven, PanelAway, Younger, StartsFromResult
  <2>4. QED
    BY <1>2, <2>2, <2>3 DEF SimulationAnswered
<1>3. CASE SwitchSimTab
  <2>1. NoneAsked.number = 0 /\ simulations \in Nat
    BY MaxSimulationsOK DEF NoneAsked, SimTabTyped
  <2>2. QED
    BY <1>3, <2>1 DEF SwitchSimTab, WhatIfGone, SimTabTyped, NumbersGiven, PanelAway, Younger,
       StartsFromResult
<1>4. CASE ResetSimulation
  <2>1. NoneAsked.number = 0 /\ NoSimulation.request = 0 /\ simulations \in Nat
    BY MaxSimulationsOK DEF NoneAsked, NoSimulation, SimTabTyped
  <2>2. QED
    BY <1>4, <2>1 DEF ResetSimulation, WhatIfGone, SimTabTyped, NumbersGiven, PanelAway, Younger,
       StartsFromResult
<1>5. CASE OpenWhatIf
  BY <1>5 DEF OpenWhatIf, SimTabTyped, NumbersGiven, PanelAway, Younger, StartsFromResult
<1>6. CASE CloseWhatIf
  BY <1>6 DEF CloseWhatIf, SimTabTyped, NumbersGiven, PanelAway, Younger, StartsFromResult
<1>7. ASSUME NEW c \in Traceable, AskWhatIf(c) PROVE SimTabInv'
  <2>1. /\ whatIfAsked' = NewRequest(c.nodes) /\ simulations' = simulations + 1
        /\ simulations < MaxSimulations /\ simPending = NoneAsked /\ simResult # NoSimulation
        /\ UNCHANGED <<simShown, simPending, lastRequest, simResult, simFailed, builder, comparison>>
    BY <1>7 DEF AskWhatIf, WhatIfDrawn
  <2>2. /\ whatIfAsked' \in SimRequests /\ whatIfAsked' # NoneAsked
        /\ whatIfAsked'.number = simulations + 1 /\ simulations + 1 \in 0..MaxSimulations
    BY <2>1, NewRequestFacts
  <2>3. /\ simResult.request \in 0..MaxSimulations /\ simulations \in 0..MaxSimulations
        /\ simResult.request <= simulations /\ simPending.number = 0
    BY <2>1 DEF NumbersGiven, SimTabTyped, SimResults, NoneAsked
  <2>4. SimTabTyped'
    BY <2>1, <2>2 DEF SimTabTyped
  <2>5. NumbersGiven' /\ PanelAway' /\ Younger' /\ StartsFromResult'
    BY <2>1, <2>2, <2>3 DEF NumbersGiven, PanelAway, Younger, StartsFromResult
  <2> QED BY <2>4, <2>5
<1>8. CASE WhatIfAnswered
  <2>1. /\ whatIfAsked # NoneAsked /\ whatIfAsked' = NoneAsked
        /\ comparison' \in SimulationsOf(whatIfAsked) \cup {comparison}
        /\ UNCHANGED <<simShown, simPending, lastRequest, simResult, simFailed, builder, simulations>>
    BY <1>8 DEF WhatIfAnswered
  <2>2. simPending = NoneAsked
    BY <2>1 DEF PanelAway
  <2>3. \/ comparison' = comparison
        \/ comparison' \in SimResults /\ comparison'.request = whatIfAsked.number
    <3>1. whatIfAsked \in SimRequests
      BY DEF SimTabTyped
    <3>2. ASSUME comparison' \in SimulationsOf(whatIfAsked)
          PROVE  comparison' \in SimResults /\ comparison'.request = whatIfAsked.number
      BY <3>1, <3>2, SimulationsOfFacts
    <3>3. QED
      BY <2>1, <3>2
  <2>4. NoneAsked.number = 0 /\ simulations \in Nat
    BY MaxSimulationsOK DEF NoneAsked, SimTabTyped
  <2>5. SimTabTyped' /\ NumbersGiven'
    BY <2>1, <2>3, <2>4 DEF SimTabTyped, NumbersGiven
  <2>6. PanelAway' /\ Younger' /\ StartsFromResult'
    BY <2>1, <2>2, <2>3 DEF PanelAway, Younger, StartsFromResult
  <2> QED BY <2>5, <2>6
<1>9. CASE UNCHANGED simTabVars
  BY <1>9 DEF simTabVars, SimTabTyped, NumbersGiven, PanelAway, Younger, StartsFromResult
<1>10. QED
  BY <1>1, <1>2, <1>3, <1>4, <1>5, <1>6, <1>7, <1>8, <1>9 DEF SimTabNext

LEMMA SimTabAlways == SimTabSpec => []SimTabInv
BY SimTabInitially, SimTabStep, PTL DEF SimTabSpec

LEMMA SimTabIsTyped == SimTabInv => SimTabTypeOK
BY DEF SimTabInv, SimTabTyped, SimTabTypeOK, SimRequests, SimResults, Commands

\* No two simulations name a contract alike.
LEMMA ComparisonSound == SimTabInv => ComparisonFollows /\ RequestFollows
<1> SUFFICES ASSUME SimTabInv PROVE ComparisonFollows /\ RequestFollows
  OBVIOUS
<1>1. RequestFollows
  BY DEF SimTabInv, StartsFromResult, RequestFollows, WhatIfDrawn
<1>2. ASSUME comparison # NoSimulation
      PROVE  simResult # NoSimulation /\ comparison.request > simResult.request
  BY <1>2 DEF SimTabInv, Younger
<1>3. comparison.request \in Nat /\ simResult.request \in Nat
  BY MaxSimulationsOK DEF SimTabInv, SimTabTyped, SimResults
<1>4. ASSUME comparison # NoSimulation
      PROVE  OnlyIn(simResult, comparison) = OutputIds(simResult)
             /\ OnlyIn(comparison, simResult) = OutputIds(comparison)
  <2>1. comparison.request # simResult.request
    BY <1>2, <1>3, <1>4
  <2>2. \A p \in OutputIds(simResult) : p \notin OutputIds(comparison)
    BY <2>1 DEF OutputIds
  <2> QED BY <2>2 DEF OnlyIn
<1>5. QED
  BY <1>1, <1>2, <1>4 DEF ComparisonFollows

\* What a row is drawn from, for the events of a tree by any name.
LEMMA RowFacts ==
  ASSUME NEW nodes, nodes \in Seq(ToSet(nodes)), nodes # <<>>,
         NEW events, events = TransformEngineTree(nodes)
  PROVE  /\ \A id \in DOMAIN events :
              /\ id.base \in 1..Len(nodes)
              /\ events[id].contract = nodes[id.base].contract
              /\ events[id].consuming = (nodes[id.base].kind = "consuming")
              /\ (events[id].type = "created") <=> (nodes[id.base].kind = "create")
              /\ events[id].type \in {"created", "exercised"}
         /\ \A i \in 1..Len(nodes) : nodes[i].kind # "fetch" =>
              SimId(i) \in DOMAIN events /\ SimId(i).base = i
<1> DEFINE made == TransformEngineTree(nodes)
<1>1. ASSUME NEW id \in DOMAIN made
      PROVE  /\ id.base \in 1..Len(nodes)
             /\ made[id].contract = nodes[id.base].contract
             /\ made[id].consuming = (nodes[id.base].kind = "consuming")
             /\ (made[id].type = "created") <=> (nodes[id.base].kind = "create")
             /\ made[id].type \in {"created", "exercised"}
  BY TransformFacts, ZenonT(60)
<1>2. \A i \in 1..Len(nodes) : nodes[i].kind # "fetch" => SimId(i) \in DOMAIN made /\ SimId(i).base = i
  BY TransformFacts
<1>3. events = made
  OBVIOUS
<1> HIDE DEF made
<1> QED BY <1>1, <1>2, <1>3

\* What a simulation made is shown as its rows, and beside them.
LEMMA RowsShowContracts ==
  ASSUME NEW r \in SimResults
  PROVE  LET rows == ViewedRows(r)
         IN /\ ViewedInputs(r) = {rows[k].contract : k \in {j \in DOMAIN rows : rows[j].consuming}}
            /\ ViewedOutputs(r) = {rows[k].contract :
                 k \in {j \in DOMAIN rows : "payload" \in rows[j].opensTo}}
<1>1. CASE ~r.success
  <2>1. ViewedRows(r) = <<>> /\ ViewedInputs(r) = {} /\ ViewedOutputs(r) = {}
    BY <1>1 DEF ViewedRows, ViewedInputs, ViewedOutputs
  <2>2. DOMAIN <<>> = {}
    OBVIOUS
  <2> QED BY <2>1, <2>2
<1>2. CASE r.success /\ r.nodes = <<>>
  <2>1. TreeRows(<<>>) = <<>>
    <3> DEFINE events == TransformEngineTree(<<>>)
    <3>1. TreeOf(<<>>, events) = <<>>
      <4>1. \A f : [k \in DOMAIN <<>> |-> f[k]] = <<>>
        OBVIOUS
      <4> QED BY <4>1, FlattenNone DEF TreeOf
    <3> HIDE DEF events
    <3> QED BY <3>1 DEF TreeRows, events
  <2>2. DiffInputs(<<>>) = {} /\ DiffOutputs(<<>>) = {}
    BY DEF DiffInputs, DiffOutputs
  <2>3. ViewedRows(r) = <<>> /\ ViewedInputs(r) = {} /\ ViewedOutputs(r) = {}
    BY <1>2, <2>1, <2>2 DEF ViewedRows, ViewedInputs, ViewedOutputs
  <2>4. DOMAIN <<>> = {}
    OBVIOUS
  <2> QED BY <2>3, <2>4
<1>3. CASE r.success /\ r.nodes # <<>>
  <2> DEFINE nodes == r.nodes
             events == TransformEngineTree(nodes)
             ids == TreeOf(<<SimId(1)>>, events)
             rows == [k \in DOMAIN ids |-> [contract |-> events[ids[k]].contract,
                                            consuming |-> events[ids[k]].consuming,
                                            opensTo |-> NodeSections(events[ids[k]])]]
  <2>1. nodes \in Seq(ToSet(nodes)) /\ nodes # <<>> /\ nodes[1].kind # "fetch"
    BY <1>3, TraceableOK DEF SimResults, Commands
  <2>2. ToSet(ids) = DOMAIN events
    BY <2>1, TreeRowsAll
  <2>3. ViewedRows(r) = rows /\ ViewedInputs(r) = DiffInputs(nodes) /\ ViewedOutputs(r) = DiffOutputs(nodes)
    BY <1>3 DEF ViewedRows, ViewedInputs, ViewedOutputs, TreeRows
  <2>4. DOMAIN nodes = 1..Len(nodes)
    BY <2>1, LenProperties
  <2>5. /\ \A id \in DOMAIN events :
              /\ id.base \in 1..Len(nodes)
              /\ events[id].contract = nodes[id.base].contract
              /\ events[id].consuming = (nodes[id.base].kind = "consuming")
              /\ (events[id].type = "created") <=> (nodes[id.base].kind = "create")
              /\ events[id].type \in {"created", "exercised"}
        /\ \A i \in 1..Len(nodes) : nodes[i].kind # "fetch" =>
             SimId(i) \in DOMAIN events /\ SimId(i).base = i
    <3>1. events = TransformEngineTree(nodes)
      OBVIOUS
    <3> HIDE DEF nodes, events
    <3> QED BY <2>1, <3>1, RowFacts
  <2> HIDE DEF nodes, events, ids
  <2>6. /\ DOMAIN rows = DOMAIN ids
        /\ \A k \in DOMAIN ids : /\ ids[k] \in DOMAIN events
                                 /\ rows[k].contract = events[ids[k]].contract
                                 /\ rows[k].consuming = events[ids[k]].consuming
                                 /\ rows[k].opensTo = NodeSections(events[ids[k]])
        /\ \A id \in DOMAIN events : \E k \in DOMAIN ids : ids[k] = id
    BY <2>2 DEF ToSet
  <2> HIDE DEF rows
  <2>7. \A k \in DOMAIN rows :
          /\ rows[k].consuming <=> nodes[ids[k].base].kind = "consuming"
          /\ ("payload" \in rows[k].opensTo) <=> nodes[ids[k].base].kind = "create"
          /\ rows[k].contract = nodes[ids[k].base].contract
          /\ ids[k].base \in DOMAIN nodes
    <3> TAKE k \in DOMAIN rows
    <3>1. ids[k] \in DOMAIN events /\ k \in DOMAIN ids
      BY <2>6
    <3> DEFINE e == events[ids[k]]
    <3>2. /\ rows[k].contract = e.contract /\ rows[k].consuming = e.consuming
          /\ rows[k].opensTo = NodeSections(e)
          /\ e.contract = nodes[ids[k].base].contract
          /\ e.consuming = (nodes[ids[k].base].kind = "consuming")
          /\ (e.type = "created") <=> (nodes[ids[k].base].kind = "create")
          /\ ids[k].base \in 1..Len(nodes)
      BY <2>5, <2>6, <3>1
    <3> HIDE DEF e
    <3>3. ("payload" \in NodeSections(e)) <=> e.type = "created"
      BY DEF NodeSections
    <3>4. rows[k].consuming <=> nodes[ids[k].base].kind = "consuming"
      BY <3>2
    <3>5. ("payload" \in rows[k].opensTo) <=> nodes[ids[k].base].kind = "create"
      BY <3>2, <3>3
    <3> QED BY <2>4, <3>2, <3>4, <3>5
  <2>8. \A i \in DOMAIN nodes : nodes[i].kind # "fetch" =>
          \E k \in DOMAIN rows : ids[k].base = i
    BY <2>4, <2>5, <2>6
  <2>9. DiffInputs(nodes) = {rows[k].contract : k \in {j \in DOMAIN rows : rows[j].consuming}}
    <3>1. ASSUME NEW i \in DOMAIN nodes, nodes[i].kind = "consuming"
          PROVE  \E k \in DOMAIN rows : rows[k].consuming /\ rows[k].contract = nodes[i].contract
      BY <2>7, <2>8, <3>1
    <3>2. ASSUME NEW k \in DOMAIN rows, rows[k].consuming
          PROVE  \E i \in DOMAIN nodes : nodes[i].kind = "consuming" /\ rows[k].contract = nodes[i].contract
      BY <2>7, <3>2
    <3> QED BY <3>1, <3>2 DEF DiffInputs
  <2>10. DiffOutputs(nodes) = {rows[k].contract :
            k \in {j \in DOMAIN rows : "payload" \in rows[j].opensTo}}
    <3>1. ASSUME NEW i \in DOMAIN nodes, nodes[i].kind = "create"
          PROVE  \E k \in DOMAIN rows : "payload" \in rows[k].opensTo /\ rows[k].contract = nodes[i].contract
      BY <2>7, <2>8, <3>1
    <3>2. ASSUME NEW k \in DOMAIN rows, "payload" \in rows[k].opensTo
          PROVE  \E i \in DOMAIN nodes : nodes[i].kind = "create" /\ rows[k].contract = nodes[i].contract
      BY <2>7, <3>2
    <3> QED BY <3>1, <3>2 DEF DiffOutputs
  <2> QED BY <2>3, <2>9, <2>10
<1> QED BY <1>1, <1>2, <1>3 DEF SimResults

LEMMA RowsSound == SimTabInv => ContractsOfRows
<1> SUFFICES ASSUME SimTabInv PROVE ContractsOfRows
  OBVIOUS
<1>1. \A r \in {simResult, comparison} : r \in SimResults
  BY DEF SimTabInv, SimTabTyped
<1> QED BY <1>1, RowsShowContracts DEF ContractsOfRows

\* A comparison is with the result above it, whatever was asked, reset or
\* switched meanwhile; the panel starts from the request of that result; and
\* the contracts beside a tree are those of its rows, however many nodes the
\* command made.
THEOREM SimulationTheorem == SimTabSpec => [](SimTabTypeOK /\ SimulationFollows)
<1>1. SimTabInv => SimTabTypeOK /\ SimulationFollows
  BY SimTabIsTyped, ComparisonSound, RowsSound DEF SimulationFollows
<1> QED BY <1>1, SimTabAlways, PTL

-----------------------------------------------------------------------------
(***************************************************************************)
(* What is told of a tree.                                                 *)
(***************************************************************************)

\* To spread single elements is to apply a function to each.
Singles(S, f) == [x \in S |-> <<f[x]>>]
Mapped(f, s)  == [k \in DOMAIN s |-> f[s[k]]]

LEMMA SpreadSingles ==
  ASSUME NEW S, NEW U, NEW f \in [S -> U], NEW s \in Seq(S)
  PROVE  Spread(Singles(S, f), s) = Mapped(f, s)
<1> DEFINE by == [x \in S |-> <<f[x]>>]
           ss == [k \in DOMAIN s |-> by[s[k]]]
           m  == [k \in DOMAIN s |-> f[s[k]]]
           M  == {n \in Nat : n <= Len(s) => FlattenSeq(Upto(ss, n)) = Upto(m, n)}
<1>1. by \in [S -> Seq(U)]
  OBVIOUS
<1>2. Len(s) \in Nat /\ DOMAIN s = 1..Len(s) /\ \A k \in 1..Len(s) : s[k] \in S
  BY ElementOfSeq, LenProperties
<1>3. ss \in Seq(Seq(U)) /\ Len(ss) = Len(s)
  <2> HIDE DEF by
  <2> QED BY <1>1, SpreadListed
<1>4. /\ m \in Seq(U) /\ Len(m) = Len(s)
      /\ \A k \in 1..Len(s) : m[k] \in U /\ ss[k] = <<m[k]>>
  BY <1>2
<1> HIDE DEF by, ss, m
<1>5. 0 \in M
  <2>1. Upto(m, 0) = <<>>
    BY DEF Upto
  <2> QED BY <1>3, <2>1, FlattenFacts
<1>6. ASSUME NEW n \in Nat, n \in M PROVE n + 1 \in M
  <2> SUFFICES ASSUME n + 1 <= Len(s) PROVE FlattenSeq(Upto(ss, n + 1)) = Upto(m, n + 1)
    OBVIOUS
  <2>1. n \in 0..(Len(ss) - 1) /\ n + 1 \in 1..Len(s) /\ n \in 0..Len(m) /\ n + 1 \in 0..Len(m)
    BY <1>2, <1>3, <1>4
  <2>2. FlattenSeq(Upto(ss, n + 1)) = FlattenSeq(Upto(ss, n)) \o ss[n + 1]
    BY <1>3, <2>1, FlattenFacts
  <2>3. FlattenSeq(Upto(ss, n)) = Upto(m, n)
    BY <1>2, <1>6, <2>1
  <2>4. Upto(m, n) \o <<m[n + 1]>> = Upto(m, n + 1)
    <3> DEFINE p == Upto(m, n)
               q == Upto(m, n + 1)
               x == m[n + 1]
    <3>1. /\ p \in Seq(U) /\ Len(p) = n /\ \A i \in 1..n : p[i] = m[i]
          /\ q \in Seq(U) /\ Len(q) = n + 1 /\ \A i \in 1..(n + 1) : q[i] = m[i]
          /\ x \in U
      BY <1>4, <2>1, UptoFacts
    <3>2. \A i \in 1..n : q[i] = p[i]
      <4>1. \A i \in 1..n : i \in 1..(n + 1)
        OBVIOUS
      <4> HIDE DEF p, q, x
      <4> QED BY <3>1, <4>1
    <3>3. q[n + 1] = x
      BY <3>1, <2>1
    <3> HIDE DEF p, q, x
    <3>4. p \o <<x>> \in Seq(U) /\ Len(p \o <<x>>) = n + 1
      BY <3>1
    <3>5. \A i \in 1..(n + 1) : (p \o <<x>>)[i] = q[i]
      BY <3>1, <3>2, <3>3
    <3>6. p \o <<x>> = q
      BY <3>1, <3>4, <3>5, SeqEqual
    <3> QED BY <3>6 DEF p, q, x
  <2> QED BY <1>4, <2>1, <2>2, <2>3, <2>4
<1>7. Nat \subseteq M
  <2> HIDE DEF M
  <2> QED BY <1>5, <1>6, SetInduction
<1>8. Len(s) \in M /\ Len(s) <= Len(s)
  BY <1>2, <1>7
<1>9. Upto(ss, Len(s)) = ss /\ Upto(m, Len(s)) = m
  <2>1. Len(ss) \in 0..Len(ss) /\ Len(m) \in 0..Len(m)
    BY <1>2, <1>3, <1>4
  <2> QED BY <1>3, <1>4, <2>1, UptoFacts
<1>10. FlattenSeq(ss) = m
  BY <1>8, <1>9
<1> QED BY <1>10 DEF by, ss, m, Spread, Singles, Mapped

\* A tree with each element of its list replaced by a list.
ToldOf(by, D, d) == [id \in D |-> Spread(by, d[id])]

LEMMA SpreadUnder ==
  ASSUME NEW S, NEW U, NEW X, NEW D, NEW by \in Lists(S, U),
         NEW d \in Lists(D, S), NEW kids \in Lists(D, X), NEW id \in D
  PROVE  Spread(by, Under(d, D, kids, id)) = Under(ToldOf(by, D, d), D, kids, id)
<1>0. /\ by \in [S -> Seq(U)] /\ d \in [D -> Seq(S)] /\ kids \in [D -> Seq(X)]
  BY DEF Lists
<1> DEFINE c == kids[id]
           cc == [k \in DOMAIN c |-> IF c[k] \in D THEN d[c[k]] ELSE <<>>]
           tt == [k \in DOMAIN c |-> IF c[k] \in D THEN ToldOf(by, D, d)[c[k]] ELSE <<>>]
<1>1. Len(c) \in Nat /\ DOMAIN c = 1..Len(c)
  BY <1>0
<1>2. \A k \in 1..Len(c) : (IF c[k] \in D THEN d[c[k]] ELSE <<>>) \in Seq(S)
  BY <1>0
<1>3. cc \in Seq(Seq(S)) /\ DOMAIN cc = DOMAIN c
  BY <1>1, <1>2
<1>4. [k \in DOMAIN cc |-> Spread(by, cc[k])] = tt
  <2>1. <<>> \in Seq(S)
    OBVIOUS
  <2>2. Spread(by, <<>>) = <<>>
    BY <1>0, <2>1, SpreadFacts
  <2>3. \A k \in DOMAIN c : Spread(by, cc[k]) = IF c[k] \in D THEN ToldOf(by, D, d)[c[k]] ELSE <<>>
    BY <2>2 DEF ToldOf
  <2> HIDE DEF cc
  <2> QED BY <1>3, <2>3
<1>5. Spread(by, FlattenSeq(cc)) = FlattenSeq(tt)
  <2> HIDE DEF cc, tt
  <2>1. Spread(by, FlattenSeq(cc)) = FlattenSeq(SpreadEach(by, cc))
    BY <1>3, SpreadFlatten
  <2> QED BY <2>1, <1>4 DEF SpreadEach
<1> QED BY <1>5 DEF Under

\* Of one element and of two.
LEMMA SpreadOne ==
  ASSUME NEW S, NEW U, NEW by \in Lists(S, U), NEW x \in S
  PROVE  Spread(by, <<x>>) = by[x] /\ Spread(by, <<>>) = <<>>
<1>1. [k \in DOMAIN <<x>> |-> by[<<x>>[k]]] = <<by[x]>>
  OBVIOUS
<1>2. FlattenSeq(<<by[x]>>) = by[x]
  <2>1. by[x] \in Seq(U)
    BY DEF Lists
  <2> QED BY <2>1, FlattenOne
<1>3. [k \in DOMAIN <<>> |-> by[<<>>[k]]] = <<>>
  OBVIOUS
<1> QED BY <1>1, <1>2, <1>3, FlattenNone DEF Spread

LEMMA TwoJoined ==
  ASSUME NEW S, NEW p \in Seq(S), NEW q \in Seq(S), NEW r \in Seq(S),
         Len(p) = 1, Len(q) = 1, Len(r) = 2, r[1] = p[1], r[2] = q[1]
  PROVE  p \o q = r
<1>1. p \o q \in Seq(S) /\ Len(p \o q) = Len(p) + Len(q)
  BY ConcatProperties
<1>2. Len(p) + Len(q) = 2 /\ 1 \in 1..2 /\ 2 \in 1..2 /\ 2 - 1 = 1 /\ ~(2 <= 1)
  OBVIOUS
<1>3. (p \o q)[1] = p[1] /\ (p \o q)[2] = q[1]
  BY <1>2, ConcatAt
<1> DEFINE u == p \o q
<1>4. u \in Seq(S) /\ Len(u) = Len(r) /\ u[1] = r[1] /\ u[2] = r[2]
  BY <1>1, <1>2, <1>3
<1> HIDE DEF u
<1>5. \A i \in 1..Len(r) : u[i] = r[i]
  BY <1>4
<1>6. u = r
  BY <1>4, <1>5, SeqEqual
<1> QED BY <1>6 DEF u

LEMMA PairJoined ==
  ASSUME NEW S, NEW x \in S, NEW y \in S
  PROVE  /\ <<x>> \o <<y>> = <<x, y>>
         /\ <<x>> \o <<>> = <<x>>
<1>1. <<x>> \in Seq(S) /\ <<y>> \in Seq(S) /\ <<x, y>> \in Seq(S)
  OBVIOUS
<1>2. <<x>> \o <<y>> = <<x, y>>
  <2> DEFINE p == <<x>>
             q == <<y>>
             r == <<x, y>>
  <2>1. /\ Len(p) = 1 /\ Len(q) = 1 /\ Len(r) = 2 /\ r[1] = p[1] /\ r[2] = q[1]
    OBVIOUS
  <2>2. p \in Seq(S) /\ q \in Seq(S) /\ r \in Seq(S)
    BY <1>1
  <2> HIDE DEF p, q, r
  <2>3. p \o q = r
    BY <2>1, <2>2, TwoJoined
  <2> QED BY <2>3 DEF p, q, r
<1>3. <<x>> \o <<>> = <<x>>
  BY <1>1, ConcatEmptySeq
<1> QED BY <1>2, <1>3

LEMMA SpreadUnfold ==
  ASSUME NEW S, NEW U, NEW X, NEW D, NEW by \in Lists(S, U), NEW head \in Lists(D, S),
         NEW d \in Lists(D, S), NEW kids \in Lists(D, X), Unfolds(d, D, head, kids)
  PROVE  Unfolds(ToldOf(by, D, d), D, ToldOf(by, D, head), kids)
<1>1. ASSUME NEW id \in D
      PROVE  Spread(by, d[id]) = ToldOf(by, D, head)[id] \o Under(ToldOf(by, D, d), D, kids, id)
  <2> DEFINE h == head[id]
             u == Under(d, D, kids, id)
             r == h \o u
  <2>0. by \in [S -> Seq(U)]
    BY DEF Lists
  <2>1. d[id] = r /\ h \in Seq(S) /\ u \in Seq(S) /\ Both(r, h, u)
    <3>1. head \in [D -> Seq(S)] /\ d \in [D -> Seq(S)] /\ kids \in [D -> Seq(X)]
      BY DEF Lists
    <3> QED BY <1>1, <3>1, UnderTyped DEF Unfolds, Both
  <2>2. Spread(by, u) = Under(ToldOf(by, D, d), D, kids, id)
    BY <1>1, SpreadUnder
  <2>3. Spread(by, h) = ToldOf(by, D, head)[id]
    BY DEF ToldOf
  <2> HIDE DEF h, u, r
  <2>4. Both(Spread(by, r), Spread(by, h), Spread(by, u))
    BY <2>0, <2>1, SpreadBoth
  <2> QED BY <2>1, <2>2, <2>3, <2>4 DEF Both
<1>2. ToldOf(by, D, d) = [id \in D |-> ToldOf(by, D, head)[id] \o Under(ToldOf(by, D, d), D, kids, id)]
  BY <1>1 DEF ToldOf
<1> QED BY <1>2 DEF Unfolds

-----------------------------------------------------------------------------
(***************************************************************************)
(* The transaction of a command and the walk over it.                      *)
(***************************************************************************)

TraceStep ==
  [stepType : {"fetch_package", "evaluate_expression", "fetch_contract", "exercise_choice",
               "archive_contract", "create_contract"},
   node : 0..MaxNodes, passed : BOOLEAN]

LEMMA LfFacts ==
  ASSUME NEW t \in LfTransactions
  PROVE  \E n \in 1..MaxNodes :
           /\ DOMAIN t = 1..n
           /\ \A i \in 1..n : t[i].kind \in NodeKinds
           /\ t[1].parent = 0 /\ t[1].kind \in Exercises \cup {"create"}
           /\ \A i \in 2..n : t[i].parent \in 1..(i - 1) /\ t[t[i].parent].kind \in Inner
<1>1. PICK n \in 1..MaxNodes :
        /\ t \in [1..n -> [kind : NodeKinds, parent : 0..(MaxNodes - 1)]]
        /\ t[1].parent = 0 /\ t[1].kind \in Exercises \cup {"create"}
        /\ \A i \in 2..n : t[i].parent \in 1..(i - 1) /\ t[t[i].parent].kind \in Inner
  BY DEF LfTransactions
<1>2. DOMAIN t = 1..n /\ \A i \in 1..n : t[i].kind \in NodeKinds
  BY <1>1
<1> QED BY <1>1, <1>2

\* Children come after their parent, and only some nodes have any.
LEMMA ChildrenFacts ==
  ASSUME NEW t \in LfTransactions, NEW i \in DOMAIN t
  PROVE  /\ ChildrenOf(t, i) \in Seq(DOMAIN t)
         /\ \A k \in DOMAIN ChildrenOf(t, i) :
              ChildrenOf(t, i)[k] \in DOMAIN t /\ ChildrenOf(t, i)[k] > i
         /\ t[i].kind \notin Inner => ChildrenOf(t, i) = <<>>
<1>1. PICK n \in 1..MaxNodes :
        /\ DOMAIN t = 1..n
        /\ t[1].parent = 0
        /\ \A j \in 2..n : t[j].parent \in 1..(j - 1) /\ t[t[j].parent].kind \in Inner
  BY LfFacts
<1> DEFINE S == {j \in DOMAIN t : t[j].parent = i}
           ss == [j \in DOMAIN t |-> IF t[j].parent = i THEN <<j>> ELSE <<>>]
<1>2. n \in Nat /\ i \in 1..n /\ MaxNodes \in Nat
  BY <1>1, DebuggerConstantsOK
<1>3. ss \in Seq(Seq(S))
  <2>1. ASSUME NEW j \in 1..n PROVE (IF t[j].parent = i THEN <<j>> ELSE <<>>) \in Seq(S)
    <3>1. CASE t[j].parent = i
      <4>1. j \in S
        BY <1>1, <3>1
      <4> HIDE DEF S
      <4>2. <<j>> \in Seq(S)
        BY <4>1
      <4> QED BY <3>1, <4>2
    <3>2. CASE t[j].parent # i
      BY <3>2
    <3> QED BY <3>1, <3>2
  <2>2. ss \in [1..n -> Seq(S)]
    BY <1>1, <2>1
  <2> HIDE DEF ss, S
  <2> QED BY <1>2, <2>2, SeqDef
<1>4. ChildrenOf(t, i) \in Seq(S)
  <2>1. FlattenSeq(ss) \in Seq(S)
    <3> HIDE DEF ss, S
    <3> QED BY <1>3, FlattenFacts
  <2> QED BY <2>1 DEF ChildrenOf
<1>5. \A j \in S : j \in DOMAIN t /\ j > i /\ t[i].kind \in Inner
  <2> TAKE j \in S
  <2>1. j \in 1..n /\ t[j].parent = i /\ i # 0
    BY <1>1, <1>2
  <2>2. j # 1
    BY <1>1, <2>1
  <2>3. j \in 2..n
    BY <1>2, <2>1, <2>2
  <2> QED BY <1>1, <1>2, <2>1, <2>3
<1> DEFINE c == ChildrenOf(t, i)
<1> HIDE DEF S, c
<1>6. c \in Seq(S)
  BY <1>4 DEF c
<1>7. \A k \in DOMAIN c : c[k] \in S
  BY <1>6
<1>8. c \in Seq(DOMAIN t)
  <2>1. S \subseteq DOMAIN t
    BY <1>5
  <2> QED BY <1>6, <2>1
<1>9. t[i].kind \notin Inner => c = <<>>
  <2> SUFFICES ASSUME t[i].kind \notin Inner PROVE c = <<>>
    OBVIOUS
  <2>1. S = {}
    BY <1>5
  <2>2. Len(c) \in Nat /\ DOMAIN c = 1..Len(c)
    BY <1>6
  <2>3. Len(c) = 0
    BY <1>7, <2>1, <2>2
  <2> QED BY <1>6, <2>3, EmptySeq
<1>10. \A k \in DOMAIN c : c[k] \in DOMAIN t /\ c[k] > i
  BY <1>5, <1>7
<1> QED BY <1>8, <1>9, <1>10 DEF c

\* What the walk takes at a node, and where it goes on.
Walked(t) == [i \in DOMAIN t |-> IF t[i].kind = "rollback" THEN <<>> ELSE StepsOf(t[i], i)]
BelowNode(t) == [i \in DOMAIN t |-> IF t[i].kind = "rollback" THEN <<>> ELSE ChildrenOf(t, i)]
Height(t) == [i \in DOMAIN t |-> MaxNodes - i]

LEMMA WalkTyped ==
  ASSUME NEW t \in LfTransactions
  PROVE  /\ Walked(t) \in Lists(DOMAIN t, TraceStep)
         /\ BelowNode(t) \in Lists(DOMAIN t, DOMAIN t)
         /\ Height(t) \in [DOMAIN t -> 0..MaxNodes]
         /\ Ranked(DOMAIN t, BelowNode(t), Height(t))
<1>1. PICK n \in 1..MaxNodes : DOMAIN t = 1..n /\ \A i \in 1..n : t[i].kind \in NodeKinds
  BY LfFacts
<1>2. n \in Nat /\ MaxNodes \in Nat /\ n <= MaxNodes
  BY DebuggerConstantsOK
<1>3. ASSUME NEW i \in DOMAIN t, t[i].kind # "rollback" PROVE StepsOf(t[i], i) \in Seq(TraceStep)
  <2>1. i \in 0..MaxNodes
    BY <1>1, <1>2
  <2>2. /\ \A s \in {"exercise_choice", "archive_contract", "create_contract", "fetch_contract"} :
              Taken(s, i, TRUE) \in TraceStep
        /\ Taken("fetch_contract", i, FALSE) \in TraceStep
    BY <2>1 DEF Taken, TraceStep
  <2>3. t[i].kind \in {"consuming", "nonconsuming", "create", "fetch", "found", "missing"}
    BY <1>1, <1>3 DEF NodeKinds, Inner, Exercises
  <2>4. CASE t[i].kind = "consuming"
    <3> DEFINE x == Taken("exercise_choice", i, TRUE)
               y == Taken("archive_contract", i, TRUE)
    <3>1. StepsOf(t[i], i) = <<x, y>>
      BY <2>4 DEF StepsOf
    <3>2. x \in TraceStep /\ y \in TraceStep
      BY <2>2
    <3> HIDE DEF x, y
    <3> QED BY <3>1, <3>2
  <2>5. CASE t[i].kind = "nonconsuming"
    <3> DEFINE x == Taken("exercise_choice", i, TRUE)
    <3>1. StepsOf(t[i], i) = <<x>>
      BY <2>5 DEF StepsOf
    <3>2. x \in TraceStep
      BY <2>2
    <3> HIDE DEF x
    <3> QED BY <3>1, <3>2
  <2>6. CASE t[i].kind = "create"
    <3> DEFINE x == Taken("create_contract", i, TRUE)
    <3>1. StepsOf(t[i], i) = <<x>>
      BY <2>6 DEF StepsOf
    <3>2. x \in TraceStep
      BY <2>2
    <3> HIDE DEF x
    <3> QED BY <3>1, <3>2
  <2>7. CASE t[i].kind \in {"fetch", "found"}
    <3> DEFINE x == Taken("fetch_contract", i, TRUE)
    <3>1. StepsOf(t[i], i) = <<x>>
      BY <2>7 DEF StepsOf
    <3>2. x \in TraceStep
      BY <2>2
    <3> HIDE DEF x
    <3> QED BY <3>1, <3>2
  <2>8. CASE t[i].kind = "missing"
    <3> DEFINE x == Taken("fetch_contract", i, FALSE)
    <3>1. StepsOf(t[i], i) = <<x>>
      BY <2>8 DEF StepsOf
    <3>2. x \in TraceStep
      BY <2>2
    <3> HIDE DEF x
    <3> QED BY <3>1, <3>2
  <2> QED BY <2>3, <2>4, <2>5, <2>6, <2>7, <2>8
<1>4. Walked(t) \in Lists(DOMAIN t, TraceStep)
  <2>1. <<>> \in Seq(TraceStep)
    OBVIOUS
  <2> QED BY <1>3, <2>1 DEF Walked, Lists
<1>5. BelowNode(t) \in Lists(DOMAIN t, DOMAIN t)
  <2>1. <<>> \in Seq(DOMAIN t)
    OBVIOUS
  <2>2. \A i \in DOMAIN t : ChildrenOf(t, i) \in Seq(DOMAIN t)
    BY ChildrenFacts
  <2> QED BY <2>1, <2>2 DEF BelowNode, Lists
<1>6. Height(t) \in [DOMAIN t -> 0..MaxNodes]
  BY <1>1, <1>2 DEF Height
<1>7. ASSUME NEW i \in DOMAIN t, NEW k \in DOMAIN BelowNode(t)[i], BelowNode(t)[i][k] \in DOMAIN t
      PROVE  Height(t)[BelowNode(t)[i][k]] < Height(t)[i]
  <2>1. BelowNode(t)[i] = <<>> \/ BelowNode(t)[i] = ChildrenOf(t, i)
    BY DEF BelowNode
  <2>2. DOMAIN <<>> = {}
    OBVIOUS
  <2>3. BelowNode(t)[i] = ChildrenOf(t, i)
    BY <1>7, <2>1, <2>2
  <2>4. BelowNode(t)[i][k] > i
    BY <1>7, <2>3, ChildrenFacts
  <2> DEFINE j == BelowNode(t)[i][k]
  <2>5. j \in DOMAIN t /\ j > i /\ j \in Nat /\ i \in Nat
    BY <1>1, <1>7, <2>4
  <2> HIDE DEF j
  <2>6. Height(t)[j] < Height(t)[i]
    BY <1>2, <2>5 DEF Height
  <2> QED BY <2>6 DEF j
<1> QED BY <1>4, <1>5, <1>6, <1>7 DEF Ranked

LEMMA WalkUnfolds ==
  ASSUME NEW t \in LfTransactions
  PROVE  \E w \in Lists(DOMAIN t, TraceStep) :
           Unfolds(w, DOMAIN t, Walked(t), BelowNode(t)) /\ WalkNode(t) = w[1]
<1> DEFINE D == DOMAIN t
           Body(f, i) == IF t[i].kind = "rollback" THEN <<>>
                         ELSE StepsOf(t[i], i) \o FlattenSeq(
                           [k \in DOMAIN [j \in D |-> ChildrenOf(t, j)][i] |->
                              f[[j \in D |-> ChildrenOf(t, j)][i][k]]])
           Eq(f) == f = [i \in D |-> Body(f, i)]
           h == CHOOSE f : Eq(f)
<1>1. ASSUME NEW f, NEW i \in D PROVE Body(f, i) = Walked(t)[i] \o Under(f, D, BelowNode(t), i)
  <2>1. CASE t[i].kind = "rollback"
    <3>1. Walked(t)[i] = <<>> /\ BelowNode(t)[i] = <<>> /\ Body(f, i) = <<>>
      BY <2>1 DEF Walked, BelowNode
    <3>2. [k \in DOMAIN <<>> |-> IF <<>>[k] \in D THEN f[<<>>[k]] ELSE <<>>] = <<>>
      OBVIOUS
    <3>3. Under(f, D, BelowNode(t), i) = <<>>
      BY <3>1, <3>2, FlattenNone DEF Under
    <3>4. <<>> \o <<>> = <<>>
      BY ConcatEmptySeq
    <3> HIDE DEF Body
    <3> QED BY <3>1, <3>3, <3>4
  <2>2. CASE t[i].kind # "rollback"
    <3> DEFINE c == ChildrenOf(t, i)
    <3>1. Walked(t)[i] = StepsOf(t[i], i) /\ BelowNode(t)[i] = c
      BY <2>2 DEF Walked, BelowNode
    <3>2. \A k \in DOMAIN c : c[k] \in D
      BY ChildrenFacts
    <3>3. Body(f, i) = StepsOf(t[i], i) \o FlattenSeq([k \in DOMAIN c |-> f[c[k]]])
      BY <2>2
    <3> HIDE DEF c, Body
    <3>4. [k \in DOMAIN c |-> f[c[k]]] = [k \in DOMAIN c |-> IF c[k] \in D THEN f[c[k]] ELSE <<>>]
      BY <3>2
    <3> QED BY <3>1, <3>3, <3>4 DEF Under
  <2> QED BY <2>1, <2>2
<1>2. ASSUME NEW f PROVE Eq(f) <=> Unfolds(f, D, Walked(t), BelowNode(t))
  <2>1. [i \in D |-> Body(f, i)] = [i \in D |-> Walked(t)[i] \o Under(f, D, BelowNode(t), i)]
    <3> HIDE DEF Body
    <3> QED BY <1>1
  <2> QED BY <2>1 DEF Unfolds
<1>3. PICK w \in [D -> Seq(TraceStep)] : Unfolds(w, D, Walked(t), BelowNode(t))
  <2>1. Walked(t) \in [D -> Seq(TraceStep)] /\ BelowNode(t) \in [D -> Seq(D)]
        /\ Height(t) \in [D -> 0..MaxNodes] /\ Ranked(D, BelowNode(t), Height(t)) /\ MaxNodes \in Nat
    BY WalkTyped, DebuggerConstantsOK DEF Lists
  <2> QED BY <2>1, UnfoldExists
<1>4. Eq(h)
  <2>1. \E f : Eq(f)
    BY <1>2, <1>3
  <2> HIDE DEF Eq
  <2> QED BY <2>1
<1>5. h = w
  <2>1. Unfolds(h, D, Walked(t), BelowNode(t))
    <3> HIDE DEF Eq, h
    <3> QED BY <1>2, <1>4
  <2>2. Height(t) \in [D -> 0..MaxNodes] /\ Ranked(D, BelowNode(t), Height(t)) /\ MaxNodes \in Nat
    BY WalkTyped, DebuggerConstantsOK
  <2> HIDE DEF Eq, h
  <2> QED BY <1>3, <2>1, <2>2, UnfoldUnique
<1>6. WalkNode(t) = h[1]
  BY DEF WalkNode
<1>7. w \in Lists(D, TraceStep)
  BY <1>3 DEF Lists
<1> QED
  <2> HIDE DEF h
  <2> QED BY <1>3, <1>5, <1>6, <1>7

-----------------------------------------------------------------------------
(***************************************************************************)
(* The tree of a transaction tells what the walk over it takes.            *)
(***************************************************************************)

Action == [stepType : {"create_contract", "exercise_choice", "archive_contract"},
           node : 0..MaxNodes]

\* What one step tells, of the types that are asked for.
Telling(types) ==
  [s \in TraceStep |-> IF s.stepType \in types
                       THEN <<[stepType |-> s.stepType, node |-> s.node]>> ELSE <<>>]

NoArchives   == {"create_contract", "exercise_choice"}
WithArchives == {"create_contract", "exercise_choice", "archive_contract"}

LEMMA TellingTyped ==
  ASSUME NEW types, types = NoArchives \/ types = WithArchives
  PROVE  Telling(types) \in Lists(TraceStep, Action)
<1>1. ASSUME NEW s \in TraceStep
      PROVE  (IF s.stepType \in types THEN <<[stepType |-> s.stepType, node |-> s.node]>>
              ELSE <<>>) \in Seq(Action)
  <2>1. CASE s.stepType \in types
    <3> DEFINE x == [stepType |-> s.stepType, node |-> s.node]
    <3>1. x \in Action
      BY <2>1 DEF Action, TraceStep, NoArchives, WithArchives
    <3> HIDE DEF x
    <3>2. <<x>> \in Seq(Action)
      BY <3>1
    <3> QED BY <2>1, <3>2 DEF x
  <2>2. CASE s.stepType \notin types
    BY <2>2
  <2> QED BY <2>1, <2>2
<1> QED BY <1>1 DEF Telling, Lists

\* Spreading what steps tell is what LedgerSteps says.
LEMMA LedgerStepsTold ==
  ASSUME NEW types, NEW steps \in Seq(TraceStep)
  PROVE  LedgerSteps(steps, types) = Spread(Telling(types), steps)
<1>1. \A k \in DOMAIN steps : steps[k] \in TraceStep
  OBVIOUS
<1>2. [k \in DOMAIN steps |->
         IF steps[k].stepType \in types
         THEN <<[stepType |-> steps[k].stepType, node |-> steps[k].node]>> ELSE <<>>]
      = [k \in DOMAIN steps |-> Telling(types)[steps[k]]]
  BY <1>1 DEF Telling
<1> QED BY <1>2 DEF LedgerSteps, Spread

Kept(t) == {i \in DOMAIN t : t[i].kind \in Exercises \cup {"create"}}

\* The nodes whose archive is told.
Archives(t, types) ==
  {i \in Kept(t) : t[i].kind = "consuming" /\ "archive_contract" \in types}

Ids(t) == {NodeId(i) : i \in DOMAIN t} \cup {ArchiveOf(NodeId(i)) : i \in DOMAIN t}

NodeIds(c) == [k \in DOMAIN c |-> NodeId(c[k])]

\* The events of a transaction, with the archives of some nodes.
TreeFor(t, events, archives) ==
  /\ DOMAIN events = {NodeId(i) : i \in Kept(t)} \cup {ArchiveOf(NodeId(i)) : i \in archives}
  /\ \A i \in Kept(t) :
       /\ events[NodeId(i)].childEventIds =
            (IF i \in archives THEN <<ArchiveOf(NodeId(i))>> ELSE <<>>) \o NodeIds(ChildrenOf(t, i))
       /\ events[NodeId(i)].type = IF t[i].kind = "create" THEN "created" ELSE "exercised"
  /\ \A i \in archives : /\ events[ArchiveOf(NodeId(i))].childEventIds = <<>>
                         /\ events[ArchiveOf(NodeId(i))].type = "archived"

LEMMA IdFacts ==
  /\ \A i : NodeId(i).base = i /\ ArchiveOf(NodeId(i)).base = i
  /\ \A i, j : NodeId(i) # ArchiveOf(NodeId(j))
<1>1. ASSUME NEW i PROVE NodeId(i).base = i /\ ArchiveOf(NodeId(i)).base = i
  BY DEF NodeId, ArchiveOf
<1>2. ASSUME NEW i, NEW j PROVE NodeId(i) # ArchiveOf(NodeId(j))
  <2>1. NodeId(i).archive = FALSE
    BY DEF NodeId
  <2>2. ArchiveOf(NodeId(j)).archive = TRUE
    BY DEF NodeId, ArchiveOf
  <2> QED BY <2>1, <2>2
<1> QED BY <1>1, <1>2

LEMMA NodeIdsTyped ==
  ASSUME NEW t \in LfTransactions, NEW i \in DOMAIN t
  PROVE  /\ NodeIds(ChildrenOf(t, i)) \in Seq(Ids(t))
         /\ DOMAIN NodeIds(ChildrenOf(t, i)) = DOMAIN ChildrenOf(t, i)
         /\ \A k \in DOMAIN ChildrenOf(t, i) :
              NodeIds(ChildrenOf(t, i))[k] = NodeId(ChildrenOf(t, i)[k])
<1> DEFINE c == ChildrenOf(t, i)
<1>1. c \in Seq(DOMAIN t) /\ \A k \in DOMAIN c : c[k] \in DOMAIN t
  BY ChildrenFacts
<1> HIDE DEF c
<1>2. Len(c) \in Nat /\ DOMAIN c = 1..Len(c)
  BY <1>1
<1>3. \A k \in 1..Len(c) : NodeId(c[k]) \in Ids(t)
  BY <1>1, <1>2 DEF Ids
<1>4. NodeIds(c) \in [1..Len(c) -> Ids(t)]
  BY <1>2, <1>3 DEF NodeIds
<1>5. NodeIds(c) \in Seq(Ids(t))
  BY <1>2, <1>4, SeqDef
<1> QED BY <1>5 DEF NodeIds, c

\* The children of an event, and how far it is above the leaves.
Heights(events) ==
  [id \in DOMAIN events |-> IF events[id].type = "archived" THEN 0 ELSE (MaxNodes + 1) - id.base]

LEMMA TreeTyped ==
  ASSUME NEW t \in LfTransactions, NEW archives \in SUBSET Kept(t), NEW events,
         TreeFor(t, events, archives)
  PROVE  /\ Kids(events) \in Lists(DOMAIN events, Ids(t))
         /\ Heights(events) \in [DOMAIN events -> 0..MaxNodes]
         /\ Ranked(DOMAIN events, Kids(events), Heights(events))
<1>1. PICK n \in 1..MaxNodes : DOMAIN t = 1..n
  BY LfFacts
<1>2. n \in Nat /\ MaxNodes \in Nat /\ n <= MaxNodes /\ Kept(t) \subseteq 1..n
  BY <1>1, DebuggerConstantsOK DEF Kept
<1>3. ASSUME NEW id \in DOMAIN events
      PROVE  \/ \E i \in Kept(t) : id = NodeId(i)
             \/ \E i \in archives : id = ArchiveOf(NodeId(i))
  BY DEF TreeFor
<1>4. ASSUME NEW i \in Kept(t)
      PROVE  /\ Kids(events)[NodeId(i)] \in Seq(Ids(t))
             /\ Heights(events)[NodeId(i)] = (MaxNodes + 1) - i
             /\ \A k \in DOMAIN Kids(events)[NodeId(i)] :
                  \/ i \in archives /\ Kids(events)[NodeId(i)][k] = ArchiveOf(NodeId(i))
                  \/ \E j \in 1..n : j > i /\ Kids(events)[NodeId(i)][k] = NodeId(j)
  <2>1. NodeId(i) \in DOMAIN events /\ i \in DOMAIN t
    BY DEF TreeFor, Kept
  <2> DEFINE first == IF i \in archives THEN <<ArchiveOf(NodeId(i))>> ELSE <<>>
             rest == NodeIds(ChildrenOf(t, i))
             all == first \o rest
  <2>2. Kids(events)[NodeId(i)] = all
    BY <2>1 DEF TreeFor, Kids
  <2>3. ArchiveOf(NodeId(i)) \in Ids(t)
    BY <2>1 DEF Ids
  <2>4. first \in Seq(Ids(t)) /\ rest \in Seq(Ids(t))
    <3>1. first \in Seq(Ids(t))
      <4> DEFINE a == ArchiveOf(NodeId(i))
      <4>1. a \in Ids(t)
        BY <2>3
      <4> HIDE DEF a
      <4>2. <<a>> \in Seq(Ids(t)) /\ <<>> \in Seq(Ids(t))
        BY <4>1
      <4> QED BY <4>2 DEF a
    <3> QED BY <2>1, <3>1, NodeIdsTyped
  <2>5. \A k \in DOMAIN first : i \in archives /\ first[k] = ArchiveOf(NodeId(i))
    <3>1. CASE i \in archives
      <4>1. first = <<ArchiveOf(NodeId(i))>>
        BY <3>1
      <4> DEFINE a == ArchiveOf(NodeId(i))
      <4> HIDE DEF first, a
      <4>2. first = <<a>>
        BY <4>1 DEF a
      <4>3. \A k \in DOMAIN first : first[k] = a
        BY <4>2
      <4> QED BY <3>1, <4>3 DEF a
    <3>2. CASE i \notin archives
      <4>1. first = <<>> /\ DOMAIN <<>> = {}
        BY <3>2
      <4> HIDE DEF first
      <4> QED BY <4>1
    <3> QED BY <3>1, <3>2
  <2>6. \A k \in DOMAIN rest : \E j \in 1..n : j > i /\ rest[k] = NodeId(j)
    <3> TAKE k \in DOMAIN rest
    <3>1. k \in DOMAIN ChildrenOf(t, i) /\ rest[k] = NodeId(ChildrenOf(t, i)[k])
      BY <2>1, NodeIdsTyped
    <3>2. ChildrenOf(t, i)[k] \in DOMAIN t /\ ChildrenOf(t, i)[k] > i
      BY <2>1, <3>1, ChildrenFacts
    <3> HIDE DEF rest
    <3> QED BY <1>1, <3>1, <3>2
  <2> HIDE DEF first, rest
  <2>7. all \in Seq(Ids(t))
    BY <2>4
  <2>8. \A k \in DOMAIN all : \/ i \in archives /\ all[k] = ArchiveOf(NodeId(i))
                              \/ \E j \in 1..n : j > i /\ all[k] = NodeId(j)
    <3> TAKE k \in DOMAIN all
    <3>1. /\ Len(first) \in Nat /\ Len(rest) \in Nat /\ k \in 1..(Len(first) + Len(rest))
          /\ DOMAIN first = 1..Len(first) /\ DOMAIN rest = 1..Len(rest)
          /\ all[k] = IF k <= Len(first) THEN first[k] ELSE rest[k - Len(first)]
      BY <2>4, ConcatAt
    <3> HIDE DEF all
    <3>2. CASE k <= Len(first)
      <4>1. k \in DOMAIN first /\ all[k] = first[k]
        BY <3>1, <3>2
      <4> QED BY <2>5, <4>1
    <3>3. CASE k > Len(first)
      <4>1. k - Len(first) \in DOMAIN rest /\ all[k] = rest[k - Len(first)]
        BY <3>1, <3>3
      <4> QED BY <2>6, <4>1
    <3> QED BY <3>1, <3>2, <3>3
  <2>9. Heights(events)[NodeId(i)] = (MaxNodes + 1) - i
    BY <2>1, IdFacts DEF TreeFor, Heights
  <2> HIDE DEF all
  <2> QED BY <2>2, <2>7, <2>8, <2>9
<1>5. ASSUME NEW i \in archives
      PROVE  /\ ArchiveOf(NodeId(i)) \in DOMAIN events
             /\ Kids(events)[ArchiveOf(NodeId(i))] = <<>>
             /\ Heights(events)[ArchiveOf(NodeId(i))] = 0
  BY DEF TreeFor, Kids, Heights
<1>6. Kids(events) \in Lists(DOMAIN events, Ids(t))
  <2>1. <<>> \in Seq(Ids(t))
    OBVIOUS
  <2>2. ASSUME NEW id \in DOMAIN events PROVE Kids(events)[id] \in Seq(Ids(t))
    BY <1>3, <1>4, <1>5, <2>1
  <2>3. Kids(events) = [id \in DOMAIN events |-> Kids(events)[id]]
    BY DEF Kids
  <2> QED BY <2>2, <2>3 DEF Lists
<1>7. Heights(events) \in [DOMAIN events -> 0..MaxNodes]
  <2>1. ASSUME NEW id \in DOMAIN events PROVE Heights(events)[id] \in 0..MaxNodes
    <3>1. \A i \in Kept(t) : (MaxNodes + 1) - i \in 0..MaxNodes
      BY <1>2
    <3> QED BY <1>2, <1>3, <1>4, <1>5, <3>1
  <2>2. Heights(events) = [id \in DOMAIN events |-> Heights(events)[id]]
    BY DEF Heights
  <2> QED BY <2>1, <2>2
<1>8. ASSUME NEW id \in DOMAIN events, NEW k \in DOMAIN Kids(events)[id],
             Kids(events)[id][k] \in DOMAIN events
      PROVE  Heights(events)[Kids(events)[id][k]] < Heights(events)[id]
  <2>1. \A i \in archives : id # ArchiveOf(NodeId(i))
    <3>1. DOMAIN <<>> = {}
      OBVIOUS
    <3> QED BY <1>5, <1>8, <3>1
  <2>2. PICK i \in Kept(t) : id = NodeId(i)
    BY <1>3, <2>1
  <2> DEFINE c == Kids(events)[id][k]
  <2>3. Heights(events)[id] = (MaxNodes + 1) - i /\ (MaxNodes + 1) - i > 0
    BY <1>2, <1>4, <2>2
  <2>4. CASE i \in archives /\ c = ArchiveOf(NodeId(i))
    BY <1>5, <2>3, <2>4
  <2>5. CASE \E j \in 1..n : j > i /\ c = NodeId(j)
    <3>1. PICK j \in 1..n : j > i /\ c = NodeId(j)
      BY <2>5
    <3>2. j \in Kept(t)
      <4>1. c \in DOMAIN events
        BY <1>8
      <4>2. \E m \in Kept(t) : NodeId(j) = NodeId(m)
        BY <1>3, <3>1, <4>1, IdFacts
      <4> QED BY <4>2, IdFacts
    <3>3. Heights(events)[c] = (MaxNodes + 1) - j
      BY <1>4, <3>1, <3>2
    <3> QED BY <1>2, <2>3, <3>1, <3>3
  <2> QED BY <1>4, <2>2, <2>4, <2>5
<1> QED BY <1>6, <1>7, <1>8 DEF Ranked

\* What one event tells, as Told names it.
StepName == [created |-> "create_contract", exercised |-> "exercise_choice",
             archived |-> "archive_contract"]

Telltale(events) ==
  [id \in DOMAIN events |-> [stepType |-> StepName[events[id].type], node |-> id.base]]
TellingOf(events) == [id \in DOMAIN events |-> <<Telltale(events)[id]>>]

LEMMA TelltaleTyped ==
  ASSUME NEW t \in LfTransactions, NEW archives \in SUBSET Kept(t), NEW events,
         TreeFor(t, events, archives)
  PROVE  /\ Telltale(events) \in [DOMAIN events -> Action]
         /\ TellingOf(events) \in Lists(DOMAIN events, Action)
         /\ \A i \in Kept(t) : Telltale(events)[NodeId(i)] =
              [stepType |-> IF t[i].kind = "create" THEN "create_contract" ELSE "exercise_choice",
               node |-> i]
         /\ \A i \in archives : Telltale(events)[ArchiveOf(NodeId(i))] =
              [stepType |-> "archive_contract", node |-> i]
<1>1. PICK n \in 1..MaxNodes : DOMAIN t = 1..n
  BY LfFacts
<1>2. n \in Nat /\ MaxNodes \in Nat /\ Kept(t) \subseteq 0..MaxNodes
  BY <1>1, DebuggerConstantsOK DEF Kept
<1>3. ASSUME NEW i \in Kept(t)
      PROVE  /\ NodeId(i) \in DOMAIN events
             /\ Telltale(events)[NodeId(i)] =
                 [stepType |-> IF t[i].kind = "create" THEN "create_contract" ELSE "exercise_choice",
                  node |-> i]
  <2>1. NodeId(i) \in DOMAIN events /\ NodeId(i).base = i
        /\ events[NodeId(i)].type = IF t[i].kind = "create" THEN "created" ELSE "exercised"
    BY IdFacts DEF TreeFor
  <2>2. StepName["created"] = "create_contract" /\ StepName["exercised"] = "exercise_choice"
    BY DEF StepName
  <2> QED BY <2>1, <2>2 DEF Telltale
<1>4. ASSUME NEW i \in archives
      PROVE  /\ ArchiveOf(NodeId(i)) \in DOMAIN events
             /\ Telltale(events)[ArchiveOf(NodeId(i))] =
                 [stepType |-> "archive_contract", node |-> i]
  <2>1. ArchiveOf(NodeId(i)) \in DOMAIN events /\ ArchiveOf(NodeId(i)).base = i
        /\ events[ArchiveOf(NodeId(i))].type = "archived"
    BY IdFacts DEF TreeFor
  <2>2. StepName["archived"] = "archive_contract"
    BY DEF StepName
  <2> QED BY <2>1, <2>2 DEF Telltale
<1>a. \A s \in {"create_contract", "exercise_choice", "archive_contract"}, i \in 0..MaxNodes :
        [stepType |-> s, node |-> i] \in Action
  BY DEF Action
<1>5. ASSUME NEW id \in DOMAIN events PROVE Telltale(events)[id] \in Action
  <2>1. CASE \E i \in Kept(t) : id = NodeId(i)
    <3>1. PICK i \in Kept(t) : id = NodeId(i)
      BY <2>1
    <3>2. CASE t[i].kind = "create"
      BY <1>2, <1>3, <1>a, <3>1, <3>2
    <3>3. CASE t[i].kind # "create"
      BY <1>2, <1>3, <1>a, <3>1, <3>3
    <3> QED BY <3>2, <3>3
  <2>2. CASE \E i \in archives : id = ArchiveOf(NodeId(i))
    BY <1>2, <1>4, <1>a, <2>2
  <2> QED BY <2>1, <2>2 DEF TreeFor
<1>6. Telltale(events) \in [DOMAIN events -> Action]
  <2>1. Telltale(events) = [id \in DOMAIN events |-> Telltale(events)[id]]
    BY DEF Telltale
  <2> QED BY <1>5, <2>1
<1>7. TellingOf(events) \in Lists(DOMAIN events, Action)
  <2>1. ASSUME NEW id \in DOMAIN events PROVE <<Telltale(events)[id]>> \in Seq(Action)
    <3> DEFINE x == Telltale(events)[id]
    <3>1. x \in Action
      BY <1>5
    <3> HIDE DEF x
    <3>2. <<x>> \in Seq(Action)
      BY <3>1
    <3> QED BY <3>2 DEF x
  <2> QED BY <2>1 DEF TellingOf, Lists
<1> QED BY <1>3, <1>4, <1>6, <1>7

\* What the walk tells at a node is what its event tells, and its archive.
LEMMA HeadsAgree ==
  ASSUME NEW t \in LfTransactions, NEW types, types = NoArchives \/ types = WithArchives,
         NEW events, TreeFor(t, events, Archives(t, types)), NEW i \in DOMAIN t
  PROVE  Spread(Telling(types), Walked(t)[i]) =
           IF i \notin Kept(t) THEN <<>>
           ELSE IF i \in Archives(t, types)
                THEN <<Telltale(events)[NodeId(i)], Telltale(events)[ArchiveOf(NodeId(i))]>>
                ELSE <<Telltale(events)[NodeId(i)]>>
<1> DEFINE by == Telling(types)
           k  == t[i].kind
           tell(s) == [stepType |-> s, node |-> i]
<1>1. k \in NodeKinds /\ i \in 0..MaxNodes
  <2>1. PICK n \in 1..MaxNodes : DOMAIN t = 1..n /\ \A j \in 1..n : t[j].kind \in NodeKinds
    BY LfFacts
  <2> QED BY <2>1, DebuggerConstantsOK
<1>2. by \in [TraceStep -> Seq(Action)]
  BY TellingTyped DEF Lists
<1>3. /\ Archives(t, types) \in SUBSET Kept(t)
      /\ i \in Kept(t) <=> k \in {"consuming", "nonconsuming", "create"}
      /\ i \in Archives(t, types) <=> k = "consuming" /\ types = WithArchives
  <2>1. NoArchives # WithArchives /\ "archive_contract" \notin NoArchives /\ "archive_contract" \in WithArchives
    BY DEF NoArchives, WithArchives
  <2> QED BY <2>1 DEF Archives, Kept, Exercises
<1>4. /\ i \in Kept(t) => Telltale(events)[NodeId(i)] =
           tell(IF k = "create" THEN "create_contract" ELSE "exercise_choice")
      /\ i \in Archives(t, types) => Telltale(events)[ArchiveOf(NodeId(i))] = tell("archive_contract")
  BY <1>3, TelltaleTyped
<1>5. ASSUME NEW s, s \in {"exercise_choice", "archive_contract", "create_contract", "fetch_contract"}
      PROVE  /\ Taken(s, i, TRUE) \in TraceStep
             /\ by[Taken(s, i, TRUE)] = IF s \in types THEN <<tell(s)>> ELSE <<>>
  <2> DEFINE x == Taken(s, i, TRUE)
  <2>1. x \in TraceStep /\ x.stepType = s /\ x.node = i
    BY <1>1, <1>5 DEF Taken, TraceStep
  <2> HIDE DEF x
  <2>2. by[x] = IF s \in types THEN <<tell(s)>> ELSE <<>>
    BY <2>1 DEF Telling
  <2> QED BY <2>1, <2>2 DEF x
<1>6. /\ Taken("fetch_contract", i, FALSE) \in TraceStep
      /\ by[Taken("fetch_contract", i, FALSE)] = <<>>
  <2> DEFINE x == Taken("fetch_contract", i, FALSE)
  <2>1. x \in TraceStep /\ x.stepType = "fetch_contract"
    BY <1>1 DEF Taken, TraceStep
  <2> HIDE DEF x
  <2>2. by[x] = <<>>
    BY <2>1 DEF Telling, NoArchives, WithArchives
  <2> QED BY <2>1, <2>2 DEF x
<1>7. /\ "exercise_choice" \in types /\ "create_contract" \in types /\ "fetch_contract" \notin types
      /\ "archive_contract" \in types <=> types = WithArchives
  BY DEF NoArchives, WithArchives
<1>8. ASSUME NEW x \in TraceStep PROVE Spread(by, <<x>>) = by[x]
  <2>1. by \in Lists(TraceStep, Action)
    BY TellingTyped
  <2> HIDE DEF by
  <2> QED BY <2>1, SpreadOne
<1> HIDE DEF by, tell
<1>9. CASE k = "rollback"
  <2>1. Walked(t)[i] = <<>> /\ <<>> \in Seq(TraceStep)
    BY <1>9 DEF Walked
  <2>2. Spread(by, <<>>) = <<>>
    BY <1>2, <2>1, SpreadFacts
  <2> QED BY <1>3, <1>9, <2>1, <2>2 DEF by
<1>10. CASE k \in {"fetch", "found"}
  <2> DEFINE x == Taken("fetch_contract", i, TRUE)
  <2>1. Walked(t)[i] = <<x>>
    BY <1>10 DEF Walked, StepsOf
  <2>2. x \in TraceStep /\ by[x] = <<>>
    BY <1>5, <1>7
  <2> HIDE DEF x
  <2>3. Spread(by, <<x>>) = <<>>
    BY <1>8, <2>2
  <2> QED BY <1>3, <1>10, <2>1, <2>3 DEF by
<1>11. CASE k = "missing"
  <2> DEFINE x == Taken("fetch_contract", i, FALSE)
  <2>1. Walked(t)[i] = <<x>>
    BY <1>11 DEF Walked, StepsOf
  <2>2. x \in TraceStep /\ by[x] = <<>>
    BY <1>6
  <2> HIDE DEF x
  <2>3. Spread(by, <<x>>) = <<>>
    BY <1>8, <2>2
  <2> QED BY <1>3, <1>11, <2>1, <2>3 DEF by
<1>12. CASE k = "create"
  <2> DEFINE x == Taken("create_contract", i, TRUE)
  <2>1. Walked(t)[i] = <<x>>
    BY <1>12 DEF Walked, StepsOf
  <2>2. x \in TraceStep /\ by[x] = <<tell("create_contract")>>
    BY <1>5, <1>7
  <2> HIDE DEF x
  <2>3. Spread(by, <<x>>) = <<tell("create_contract")>>
    BY <1>8, <2>2
  <2> QED BY <1>3, <1>4, <1>12, <2>1, <2>3 DEF by
<1>13. CASE k = "nonconsuming"
  <2> DEFINE x == Taken("exercise_choice", i, TRUE)
  <2>1. Walked(t)[i] = <<x>>
    BY <1>13 DEF Walked, StepsOf
  <2>2. x \in TraceStep /\ by[x] = <<tell("exercise_choice")>>
    BY <1>5, <1>7
  <2> HIDE DEF x
  <2>3. Spread(by, <<x>>) = <<tell("exercise_choice")>>
    BY <1>8, <2>2
  <2> QED BY <1>3, <1>4, <1>13, <2>1, <2>3 DEF by
<1>14. CASE k = "consuming"
  <2> DEFINE x == Taken("exercise_choice", i, TRUE)
             y == Taken("archive_contract", i, TRUE)
             e == tell("exercise_choice")
             a == tell("archive_contract")
  <2>1. Walked(t)[i] = <<x, y>>
    BY <1>14 DEF Walked, StepsOf
  <2>2. /\ x \in TraceStep /\ by[x] = <<e>>
        /\ y \in TraceStep /\ by[y] = IF types = WithArchives THEN <<a>> ELSE <<>>
    BY <1>5, <1>7
  <2> HIDE DEF x, y, e, a
  <2>3. Both(<<x, y>>, <<x>>, <<y>>) /\ <<x>> \in Seq(TraceStep) /\ <<y>> \in Seq(TraceStep)
    <3>1. <<x>> \o <<y>> = <<x, y>>
      BY <2>2, PairJoined
    <3>2. Both(<<x, y>>, <<x>>, <<y>>)
      BY <3>1 DEF Both
    <3>3. <<x>> \in Seq(TraceStep) /\ <<y>> \in Seq(TraceStep)
      BY <2>2
    <3> QED BY <3>2, <3>3
  <2>4. Both(Spread(by, <<x, y>>), Spread(by, <<x>>), Spread(by, <<y>>))
    BY <1>2, <2>3, SpreadBoth
  <2>5. Spread(by, <<x>>) = <<e>> /\ Spread(by, <<y>>) = IF types = WithArchives THEN <<a>> ELSE <<>>
    BY <1>8, <2>2
  <2>6. Spread(by, <<x, y>>) = IF types = WithArchives THEN <<e, a>> ELSE <<e>>
    <3>1. <<e>> \o <<a>> = <<e, a>> /\ <<e>> \o <<>> = <<e>>
      <4>1. e \in {e, a} /\ a \in {e, a}
        OBVIOUS
      <4> QED BY <4>1, PairJoined
    <3> QED BY <2>4, <2>5, <3>1 DEF Both
  <2> QED BY <1>3, <1>4, <1>14, <2>1, <2>6 DEF by, e, a
<1> QED BY <1>1, <1>9, <1>10, <1>11, <1>12, <1>13, <1>14 DEF NodeKinds, Inner, Exercises

\* The lists under the ids of X that are in D.
Within(b, D, X) == [x \in X |-> IF x \in D THEN b[x] ELSE <<>>]

LEMMA WithinTyped ==
  ASSUME NEW D, NEW U, NEW X, NEW b \in Lists(D, U)
  PROVE  Within(b, D, X) \in Lists(X, U)
BY DEF Within, Lists

LEMMA UnderSpread ==
  ASSUME NEW D, NEW X, NEW b, NEW kids \in Lists(D, X), NEW id \in D
  PROVE  Under(b, D, kids, id) = Spread(Within(b, D, X), kids[id])
<1> DEFINE c == kids[id]
<1>2. c \in Seq(X)
  BY DEF Lists
<1> HIDE DEF c
<1>3. \A k \in DOMAIN c : c[k] \in X
  BY <1>2
<1>4. [k \in DOMAIN c |-> IF c[k] \in D THEN b[c[k]] ELSE <<>>]
      = [k \in DOMAIN c |-> Within(b, D, X)[c[k]]]
  BY <1>3 DEF Within
<1> QED BY <1>4 DEF Under, Spread, c

\* What is told at an event: itself, then what is told of its children.
Drawing(t, events, b) ==
  /\ b \in Lists(DOMAIN events, Action)
  /\ \A id \in DOMAIN events :
       b[id] = <<Telltale(events)[id]>> \o Spread(Within(b, DOMAIN events, Ids(t)), Kids(events)[id])

LEMMA SpreadTyped ==
  ASSUME NEW S, NEW U, NEW by \in Lists(S, U), NEW s \in Seq(S)
  PROVE  Spread(by, s) \in Seq(U)
BY SpreadFacts DEF Lists

LEMMA DrawnTold ==
  ASSUME NEW t \in LfTransactions, NEW archives \in SUBSET Kept(t), NEW events,
         TreeFor(t, events, archives)
  PROVE  \E b : /\ Drawing(t, events, b)
                /\ Told([rootEventIds |-> <<NodeId(1)>>, eventsById |-> events]) = b[NodeId(1)]
<1> DEFINE E == DOMAIN events
           X == Ids(t)
           kids == Kids(events)
           te == TellingOf(events)
           roots == <<NodeId(1)>>
           tree == [rootEventIds |-> roots, eventsById |-> events]
<1>1. /\ kids \in Lists(E, X) /\ Heights(events) \in [E -> 0..MaxNodes]
      /\ Ranked(E, kids, Heights(events)) /\ MaxNodes \in Nat
  BY TreeTyped, DebuggerConstantsOK
<1>2. NodeId(1) \in E
  <2>1. 1 \in Kept(t)
    BY LfFacts DEF Kept
  <2> QED BY <2>1 DEF TreeFor
<1>3. PICK d \in [E -> Seq(E)] :
        /\ Unfolds(d, E, Selves(E), kids)
        /\ \A r : TreeOf(r, events) =
             FlattenSeq([k \in DOMAIN r |-> IF r[k] \in E THEN d[r[k]] ELSE <<>>])
  <2>1. kids \in [E -> Seq(X)]
    BY <1>1 DEF Lists
  <2> HIDE DEF X
  <2> QED BY <1>1, <2>1, TreeDraws
<1>4. TreeOf(roots, events) = d[NodeId(1)] /\ d[NodeId(1)] \in Seq(E)
  <2> DEFINE x == NodeId(1)
  <2>1. x \in E
    BY <1>2
  <2> HIDE DEF x
  <2>2. d[x] \in Seq(E)
    BY <1>3, <2>1
  <2>3. [k \in DOMAIN <<x>> |-> IF <<x>>[k] \in E THEN d[<<x>>[k]] ELSE <<>>] = <<d[x]>>
    BY <2>1
  <2>4. FlattenSeq(<<d[x]>>) = d[x]
    BY <2>2, FlattenOne
  <2>5. TreeOf(<<x>>, events) = d[x]
    BY <1>3, <2>3, <2>4
  <2> QED BY <2>2, <2>5 DEF x
<1>5. te \in Lists(E, Action) /\ Telltale(events) \in [E -> Action]
  BY TelltaleTyped
<1> DEFINE b == ToldOf(te, E, d)
<1>6. d \in Lists(E, E) /\ Selves(E) \in Lists(E, E)
  BY <1>3 DEF Lists, Selves
<1>7. Unfolds(b, E, ToldOf(te, E, Selves(E)), kids)
  <2> HIDE DEF E, X, kids, te
  <2> QED BY <1>1, <1>3, <1>5, <1>6, SpreadUnfold
<1>8. b \in Lists(E, Action)
  <2>1. \A id \in E : d[id] \in Seq(E)
    BY <1>3
  <2> HIDE DEF te, E
  <2>2. \A id \in E : Spread(te, d[id]) \in Seq(Action)
    BY <1>5, <2>1, SpreadTyped
  <2> QED BY <2>2 DEF ToldOf, Lists
<1>9. ASSUME NEW id \in E
      PROVE  b[id] = <<Telltale(events)[id]>> \o Spread(Within(b, E, X), kids[id])
  <2> HIDE DEF b
  <2>1. b[id] = ToldOf(te, E, Selves(E))[id] \o Under(b, E, kids, id)
    BY <1>7 DEF Unfolds
  <2>2. ToldOf(te, E, Selves(E))[id] = Spread(te, <<id>>)
    BY DEF ToldOf, Selves
  <2>3. Spread(te, <<id>>) = te[id]
    <3> HIDE DEF te, E
    <3> QED BY <1>5, SpreadOne
  <2>4. te[id] = <<Telltale(events)[id]>>
    BY DEF TellingOf
  <2>5. Under(b, E, kids, id) = Spread(Within(b, E, X), kids[id])
    <3>1. kids \in Lists(E, X) /\ id \in E
      BY <1>1
    <3> HIDE DEF E, X, kids
    <3> QED BY <3>1, UnderSpread
  <2> HIDE DEF E, X, kids, te
  <2> QED BY <2>1, <2>2, <2>3, <2>4, <2>5
<1>10. Drawing(t, events, b)
  <2> HIDE DEF b
  <2> QED BY <1>8, <1>9 DEF Drawing
<1>11. Told(tree) = b[NodeId(1)]
  <2> DEFINE ids == d[NodeId(1)]
             tale == Telltale(events)
  <2>1. TreeOf(tree.rootEventIds, tree.eventsById) = ids
    BY <1>4
  <2>2. Told(tree) = [k \in DOMAIN ids |->
                        [stepType |-> StepName[events[ids[k]].type], node |-> ids[k].base]]
    <3> HIDE DEF ids
    <3> QED BY <2>1 DEF Told, StepName
  <2>3. \A k \in DOMAIN ids : ids[k] \in E
    BY <1>4
  <2>4. Told(tree) = Mapped(tale, ids)
    <3> HIDE DEF ids, tree
    <3> QED BY <2>2, <2>3 DEF Telltale, Mapped
  <2>5. Spread(Singles(E, tale), ids) = Mapped(tale, ids)
    <3>1. tale \in [E -> Action] /\ ids \in Seq(E)
      BY <1>4, <1>5
    <3> HIDE DEF tale, ids, E
    <3> QED BY <3>1, SpreadSingles
  <2>6. te = Singles(E, tale)
    BY DEF TellingOf, Singles
  <2>7. b[NodeId(1)] = Spread(te, ids)
    BY <1>2 DEF ToldOf
  <2> HIDE DEF te, ids, tale, tree, b
  <2> QED BY <2>4, <2>5, <2>6, <2>7
<1> HIDE DEF b
<1> QED BY <1>10, <1>11

\* What is told at the nodes of a transaction, an event or not, is told by the walk.
AtNodes(t, b) == [i \in DOMAIN t |-> IF i \in Kept(t) THEN b[NodeId(i)] ELSE <<>>]

LEMMA UnderNodes ==
  ASSUME NEW t \in LfTransactions, NEW archives \in SUBSET Kept(t), NEW events,
         TreeFor(t, events, archives), NEW b, NEW i \in Kept(t)
  PROVE  Under(AtNodes(t, b), DOMAIN t, BelowNode(t), i)
           = Spread(Within(b, DOMAIN events, Ids(t)), NodeIds(ChildrenOf(t, i)))
<1> DEFINE c == ChildrenOf(t, i)
           D == DOMAIN t
           G == Within(b, DOMAIN events, Ids(t))
<1>1. i \in D /\ t[i].kind # "rollback"
  BY DEF Kept, Exercises
<1>2. BelowNode(t)[i] = c
  BY <1>1 DEF BelowNode
<1>3. \A k \in DOMAIN c : c[k] \in D
  BY <1>1, ChildrenFacts
<1>4. ASSUME NEW j \in D PROVE G[NodeId(j)] = AtNodes(t, b)[j]
  <2>1. NodeId(j) \in Ids(t)
    BY DEF Ids
  <2>2. NodeId(j) \in DOMAIN events <=> j \in Kept(t)
    BY IdFacts DEF TreeFor
  <2> QED BY <2>1, <2>2 DEF Within, AtNodes
<1> HIDE DEF c, G
<1>5. [k \in DOMAIN c |-> IF c[k] \in D THEN AtNodes(t, b)[c[k]] ELSE <<>>]
      = [k \in DOMAIN c |-> G[NodeId(c[k])]]
  BY <1>3, <1>4
<1>6. Spread(G, NodeIds(c)) = FlattenSeq([k \in DOMAIN c |-> G[NodeId(c[k])]])
  <2>1. DOMAIN NodeIds(c) = DOMAIN c /\ \A k \in DOMAIN c : NodeIds(c)[k] = NodeId(c[k])
    BY DEF NodeIds
  <2>2. [k \in DOMAIN NodeIds(c) |-> G[NodeIds(c)[k]]] = [k \in DOMAIN c |-> G[NodeId(c[k])]]
    BY <2>1
  <2> QED BY <2>2 DEF Spread
<1>7. Under(AtNodes(t, b), D, BelowNode(t), i)
        = FlattenSeq([k \in DOMAIN c |-> IF c[k] \in D THEN AtNodes(t, b)[c[k]] ELSE <<>>])
  BY <1>2 DEF Under
<1> QED BY <1>5, <1>6, <1>7 DEF c, G

\* What is told at an event, its archive right after it.
DrawnAt(t, events, archives, b, i) ==
  b[NodeId(i)] =
    (IF i \in archives
     THEN <<Telltale(events)[NodeId(i)], Telltale(events)[ArchiveOf(NodeId(i))]>>
     ELSE <<Telltale(events)[NodeId(i)]>>)
    \o Under(AtNodes(t, b), DOMAIN t, BelowNode(t), i)

LEMMA DrawingAt ==
  ASSUME NEW t \in LfTransactions, NEW archives \in SUBSET Kept(t), NEW events,
         TreeFor(t, events, archives), NEW b, Drawing(t, events, b), NEW i \in Kept(t)
  PROVE  DrawnAt(t, events, archives, b, i)
<1> DEFINE X == Ids(t)
           G == Within(b, DOMAIN events, X)
           e == NodeId(i)
           a == ArchiveOf(NodeId(i))
           x == Telltale(events)[e]
           y == Telltale(events)[a]
           names == NodeIds(ChildrenOf(t, i))
           F == Under(AtNodes(t, b), DOMAIN t, BelowNode(t), i)
           kids == Kids(events)
<1>1. e \in DOMAIN events /\ i \in DOMAIN t /\ a \in X
  BY DEF TreeFor, Kept, Ids
<1>2. G \in Lists(X, Action)
  <2>1. b \in Lists(DOMAIN events, Action)
    BY DEF Drawing
  <2> QED BY <2>1, WithinTyped
<1>3. names \in Seq(X)
  BY <1>1, NodeIdsTyped
<1>4. F = Spread(G, names)
  BY UnderNodes
<1>5. F \in Seq(Action)
  <2> HIDE DEF F, G, X, names
  <2> QED BY <1>2, <1>3, <1>4, SpreadTyped
<1>6. b[e] = <<x>> \o Spread(G, kids[e])
  BY <1>1 DEF Drawing
<1>7. kids[e] = (IF i \in archives THEN <<a>> ELSE <<>>) \o names
  BY <1>1 DEF TreeFor, Kids
<1>8. x \in Action /\ (i \in archives => y \in Action)
  <2>1. Telltale(events) \in [DOMAIN events -> Action]
    BY TelltaleTyped
  <2>2. i \in archives => a \in DOMAIN events
    BY DEF TreeFor
  <2> HIDE DEF e, a
  <2> QED BY <1>1, <2>1, <2>2
<1>9. ASSUME i \notin archives PROVE b[e] = <<x>> \o F
  <2>1. kids[e] = <<>> \o names
    BY <1>7, <1>9
  <2> HIDE DEF F, G, X, names, kids, e, x
  <2>2. <<>> \o names = names
    BY <1>3, ConcatEmptySeq
  <2>3. b[e] = <<x>> \o F
    BY <1>4, <1>6, <2>1, <2>2
  <2> QED BY <1>9, <2>3
<1>10. ASSUME i \in archives PROVE b[e] = <<x, y>> \o F
  <2>1. kids[e] = <<a>> \o names
    BY <1>7, <1>10
  <2>2. a \in DOMAIN events /\ kids[a] = <<>>
    BY <1>10 DEF TreeFor, Kids
  <2>3. b[a] = <<y>> \o Spread(G, kids[a])
    BY <2>2 DEF Drawing
  <2>4. G[a] = b[a]
    BY <1>1, <2>2 DEF Within
  <2> HIDE DEF F, G, X, names, kids, e, a, x, y
  <2>5. Spread(G, <<a>>) = G[a] /\ Spread(G, <<>>) = <<>>
    BY <1>1, <1>2, SpreadOne
  <2>6. Spread(G, <<a>>) = <<y>>
    <3>1. b[a] = <<y>> \o <<>>
      BY <2>2, <2>3, <2>5
    <3>2. <<y>> \o <<>> = <<y>>
      BY <1>8, <1>10, PairJoined
    <3> QED BY <2>4, <2>5, <3>1, <3>2
  <2>7. Spread(G, kids[e]) = <<y>> \o F
    <3> DEFINE u == <<a>> \o names
               s == <<a>>
    <3>1. Both(u, s, names)
      BY DEF Both
    <3>2. s \in Seq(X)
      BY <1>1
    <3>3. G \in [X -> Seq(Action)]
      BY <1>2 DEF Lists
    <3>4. Spread(G, s) = <<y>>
      BY <2>6
    <3>5. kids[e] = u
      BY <2>1
    <3> HIDE DEF u, s
    <3>6. Both(Spread(G, u), Spread(G, s), Spread(G, names))
      BY <1>3, <3>1, <3>2, <3>3, SpreadBoth
    <3> QED BY <1>4, <3>4, <3>5, <3>6 DEF Both
  <2>8. <<x>> \o (<<y>> \o F) = <<x, y>> \o F
    <3> DEFINE p == <<x>>
               q == <<y>>
    <3>1. p \in Seq(Action) /\ q \in Seq(Action)
      BY <1>8, <1>10
    <3>2. p \o q = <<x, y>>
      BY <1>8, <1>10, PairJoined
    <3> HIDE DEF p, q
    <3>3. (p \o q) \o F = p \o (q \o F)
      BY <1>5, <3>1, ConcatAssociative
    <3>4. <<x, y>> \o F = p \o (q \o F)
      BY <3>2, <3>3
    <3> QED BY <3>4 DEF p, q
  <2>9. b[e] = <<x, y>> \o F
    BY <1>6, <2>7, <2>8
  <2> QED BY <1>10, <2>9
<1>11. b[e] = (IF i \in archives THEN <<x, y>> ELSE <<x>>) \o F
  <2> HIDE DEF e, a, x, y, F
  <2>1. (i \in archives => b[e] = <<x, y>> \o F) /\ (i \notin archives => b[e] = <<x>> \o F)
    BY <1>9, <1>10
  <2> QED BY <2>1
<1> QED BY <1>11 DEF DrawnAt

\* The tree of a transaction, its archives added or not, tells what is told of the walk.
LEMMA TreeTells ==
  ASSUME NEW t \in LfTransactions, NEW types, types = NoArchives \/ types = WithArchives,
         NEW events, TreeFor(t, events, Archives(t, types))
  PROVE  Told([rootEventIds |-> <<NodeId(1)>>, eventsById |-> events])
           = LedgerSteps(WalkNode(t), types)
<1> DEFINE D == DOMAIN t
           by == Telling(types)
           tree == [rootEventIds |-> <<NodeId(1)>>, eventsById |-> events]
<1>1. Archives(t, types) \in SUBSET Kept(t)
  BY DEF Archives
<1>2. PICK b : Drawing(t, events, b) /\ Told(tree) = b[NodeId(1)]
  BY <1>1, DrawnTold
<1>3. PICK w \in Lists(D, TraceStep) : Unfolds(w, D, Walked(t), BelowNode(t)) /\ WalkNode(t) = w[1]
  BY WalkUnfolds
<1>4. /\ Walked(t) \in Lists(D, TraceStep) /\ BelowNode(t) \in Lists(D, D)
      /\ Height(t) \in [D -> 0..MaxNodes] /\ Ranked(D, BelowNode(t), Height(t)) /\ MaxNodes \in Nat
  BY WalkTyped, DebuggerConstantsOK
<1>5. by \in Lists(TraceStep, Action)
  BY TellingTyped
<1> DEFINE head == ToldOf(by, D, Walked(t))
           told == ToldOf(by, D, w)
           drawn == AtNodes(t, b)
<1>6. Unfolds(told, D, head, BelowNode(t))
  <2> HIDE DEF by, D
  <2> QED BY <1>3, <1>4, <1>5, SpreadUnfold
<1>7. ASSUME NEW i \in D PROVE drawn[i] = head[i] \o Under(drawn, D, BelowNode(t), i)
  <2>1. head[i] = Spread(by, Walked(t)[i])
    BY DEF ToldOf
  <2>2. CASE i \in Kept(t)
    <3>1. drawn[i] = b[NodeId(i)]
      BY <2>2 DEF AtNodes
    <3> HIDE DEF drawn, head, by
    <3>2. head[i] = IF i \in Archives(t, types)
                    THEN <<Telltale(events)[NodeId(i)], Telltale(events)[ArchiveOf(NodeId(i))]>>
                    ELSE <<Telltale(events)[NodeId(i)]>>
      BY <2>1, <2>2, HeadsAgree DEF by
    <3>3. b[NodeId(i)] = (IF i \in Archives(t, types)
                    THEN <<Telltale(events)[NodeId(i)], Telltale(events)[ArchiveOf(NodeId(i))]>>
                    ELSE <<Telltale(events)[NodeId(i)]>>) \o Under(drawn, D, BelowNode(t), i)
      <4> DEFINE archives == Archives(t, types)
      <4>1. archives \in SUBSET Kept(t) /\ TreeFor(t, events, archives)
        BY <1>1
      <4>2. Drawing(t, events, b)
        BY <1>2
      <4> HIDE DEF archives
      <4>3. DrawnAt(t, events, archives, b, i)
        BY <2>2, <4>1, <4>2, DrawingAt
      <4> QED BY <4>3 DEF drawn, archives, DrawnAt
    <3> QED BY <3>1, <3>2, <3>3
  <2>3. CASE i \notin Kept(t)
    <3>1. drawn[i] = <<>>
      BY <2>3 DEF AtNodes
    <3>2. head[i] = <<>>
      BY <2>1, <2>3, HeadsAgree
    <3>3. BelowNode(t)[i] = <<>>
      <4>1. CASE t[i].kind = "rollback"
        BY <4>1 DEF BelowNode
      <4>2. CASE t[i].kind # "rollback"
        <5>1. t[i].kind \notin Inner
          BY <2>3, <4>2 DEF Kept, Inner
        <5> QED BY <4>2, <5>1, ChildrenFacts DEF BelowNode
      <4> QED BY <4>1, <4>2
    <3> HIDE DEF drawn, head
    <3>4. [k \in DOMAIN <<>> |-> IF <<>>[k] \in D THEN drawn[<<>>[k]] ELSE <<>>] = <<>>
      OBVIOUS
    <3>5. Under(drawn, D, BelowNode(t), i) = <<>>
      BY <3>3, <3>4, FlattenNone DEF Under
    <3>6. <<>> \o <<>> = <<>>
      BY ConcatEmptySeq
    <3> QED BY <3>1, <3>2, <3>5, <3>6
  <2> QED BY <2>2, <2>3
<1>8. Unfolds(drawn, D, head, BelowNode(t))
  <2>1. drawn = [i \in D |-> drawn[i]]
    BY DEF AtNodes
  <2> HIDE DEF drawn, head
  <2> QED BY <1>7, <2>1 DEF Unfolds
<1>9. drawn = told
  <2> HIDE DEF drawn, told, head, D
  <2> QED BY <1>4, <1>6, <1>8, UnfoldUnique
<1>10. 1 \in D /\ 1 \in Kept(t)
  BY LfFacts DEF Kept
<1>11. drawn[1] = b[NodeId(1)] /\ told[1] = Spread(by, w[1])
  BY <1>10 DEF AtNodes, ToldOf
<1>12. w[1] \in Seq(TraceStep)
  BY <1>3, <1>10 DEF Lists
<1>13. LedgerSteps(w[1], types) = Spread(by, w[1])
  BY <1>12, LedgerStepsTold
<1> HIDE DEF tree, by, drawn, told
<1>14. Told(tree) = LedgerSteps(WalkNode(t), types)
  BY <1>2, <1>3, <1>9, <1>11, <1>13
<1> QED BY <1>14 DEF tree

-----------------------------------------------------------------------------
(***************************************************************************)
(* The trees that are shown.                                               *)
(***************************************************************************)

\* The events are records, and say which exercises are consuming.
Recorded(t, events) ==
  \A i \in Kept(t) : /\ events[NodeId(i)].consuming = (t[i].kind = "consuming")
                     /\ {"type", "childEventIds"} \subseteq DOMAIN events[NodeId(i)]

LEMMA ConvertedTree ==
  ASSUME NEW t \in LfTransactions
  PROVE  \E events :
           /\ ConvertVersionedTransaction(t) =
                [rootEventIds |-> <<NodeId(1)>>, eventsById |-> events]
           /\ TreeFor(t, events, Archives(t, NoArchives))
           /\ Recorded(t, events)
<1> DEFINE events == [id \in {NodeId(i) : i \in Kept(t)} |-> EventOf(t, id.base)]
<1>1. ConvertVersionedTransaction(t) = [rootEventIds |-> <<NodeId(1)>>, eventsById |-> events]
  BY DEF ConvertVersionedTransaction, Kept
<1>2. Archives(t, NoArchives) = {}
  BY DEF Archives, NoArchives
<1>3. \A i \in Kept(t) : i \in DOMAIN t /\ t[i].kind \in Exercises \cup {"create"}
  BY DEF Kept
<1>4. ASSUME NEW i \in Kept(t)
      PROVE  /\ NodeId(i) \in DOMAIN events
             /\ events[NodeId(i)].type = IF t[i].kind = "create" THEN "created" ELSE "exercised"
             /\ events[NodeId(i)].consuming = (t[i].kind = "consuming")
             /\ {"type", "childEventIds"} \subseteq DOMAIN events[NodeId(i)]
             /\ events[NodeId(i)].childEventIds = <<>> \o NodeIds(ChildrenOf(t, i))
  <2> DEFINE c == ChildrenOf(t, i)
             x == EventOf(t, i)
  <2>1. NodeId(i).base = i
    BY IdFacts
  <2>2. NodeId(i) \in DOMAIN events /\ events[NodeId(i)] = x
    BY <2>1
  <2>3. /\ x.type = IF t[i].kind = "create" THEN "created" ELSE "exercised"
        /\ x.consuming = (t[i].kind = "consuming")
        /\ {"type", "childEventIds"} \subseteq DOMAIN x
        /\ x.childEventIds = IF t[i].kind = "create" THEN <<>> ELSE NodeIds(c)
    BY DEF EventOf, NodeIds
  <2>4. t[i].kind = "create" => c = <<>>
    <3>1. "create" \notin Inner
      BY DEF Inner, Exercises
    <3> QED BY <1>3, <3>1, ChildrenFacts
  <2>5. NodeIds(<<>>) = <<>>
    BY DEF NodeIds
  <2>6. NodeIds(c) \in Seq(Ids(t))
    BY <1>3, NodeIdsTyped
  <2> HIDE DEF events, x, c
  <2>7. <<>> \o NodeIds(c) = NodeIds(c)
    BY <2>6, ConcatEmptySeq
  <2>8. x.childEventIds = NodeIds(c)
    BY <2>3, <2>4, <2>5
  <2> QED BY <2>2, <2>3, <2>7, <2>8 DEF c
<1>5. DOMAIN events = {NodeId(i) : i \in Kept(t)}
  OBVIOUS
<1> HIDE DEF events
<1>6. TreeFor(t, events, {})
  BY <1>4, <1>5 DEF TreeFor
<1>7. Recorded(t, events)
  BY <1>4 DEF Recorded
<1> QED BY <1>1, <1>2, <1>6, <1>7

\* The gateway adds an archive for every consuming exercise.
LEMMA NormalizedTree ==
  ASSUME NEW t \in LfTransactions, NEW events,
         TreeFor(t, events, Archives(t, NoArchives)),
         Recorded(t, events)
  PROVE  TreeFor(t, Normalized(events), Archives(t, WithArchives))
<1> DEFINE A == Archives(t, WithArchives)
           ids == {NodeId(i) : i \in A}
           new == Normalized(events)
<1>1. /\ DOMAIN events = {NodeId(i) : i \in Kept(t)}
      /\ \A i \in Kept(t) :
           /\ events[NodeId(i)].childEventIds = <<>> \o NodeIds(ChildrenOf(t, i))
           /\ events[NodeId(i)].type = IF t[i].kind = "create" THEN "created" ELSE "exercised"
  <2>1. Archives(t, NoArchives) = {}
    BY DEF Archives, NoArchives
  <2> QED BY <2>1 DEF TreeFor
<1>2. A = {i \in Kept(t) : t[i].kind = "consuming"}
  BY DEF Archives, WithArchives
<1>3. \A i, j : NodeId(i) = NodeId(j) => i = j
  BY IdFacts
<1>4. \A i : ArchiveOf(NodeId(i)) \notin DOMAIN events
  BY <1>1, IdFacts
<1>5. Archiving(events) = ids
  <2>1. ASSUME NEW i \in Kept(t) PROVE NodeId(i) \in Archiving(events) <=> i \in A
    <3>1. i \in A <=> t[i].kind = "consuming"
      BY <1>2
    <3>2. NodeId(i) \in Archiving(events)
            <=> events[NodeId(i)].type = "exercised" /\ t[i].kind = "consuming"
      BY <1>1 DEF Archiving, Recorded
    <3>3. t[i].kind = "consuming" => events[NodeId(i)].type = "exercised"
      BY <1>1
    <3> QED BY <3>1, <3>2, <3>3
  <2>2. \A id \in Archiving(events) : \E i \in Kept(t) : id = NodeId(i)
    BY <1>1 DEF Archiving
  <2>3. A \subseteq Kept(t)
    BY <1>2
  <2> HIDE DEF A
  <2> QED BY <2>1, <2>2, <2>3
<1>6. ASSUME NEW i \in Kept(t)
      PROVE  /\ ~Contains(events[NodeId(i)].childEventIds, ArchiveOf(NodeId(i)))
             /\ events[NodeId(i)].childEventIds = NodeIds(ChildrenOf(t, i))
  <2> DEFINE s == NodeIds(ChildrenOf(t, i))
  <2>1. i \in DOMAIN t
    BY DEF Kept
  <2>2. s \in Seq(Ids(t)) /\ \A k \in DOMAIN s : s[k] = NodeId(ChildrenOf(t, i)[k])
    BY <2>1, NodeIdsTyped
  <2> HIDE DEF s
  <2>3. <<>> \o s = s
    BY <2>2, ConcatEmptySeq
  <2>4. DOMAIN s = 1..Len(s)
    BY <2>2
  <2>5. \A k \in 1..Len(s) : s[k] # ArchiveOf(NodeId(i))
    BY <2>2, <2>4, IdFacts
  <2>6. events[NodeId(i)].childEventIds = s
    BY <1>1, <2>3 DEF s
  <2>7. ~Contains(s, ArchiveOf(NodeId(i)))
    BY <2>5 DEF Contains
  <2> QED BY <2>6, <2>7 DEF s
<1>7. {id \in Archiving(events) : /\ ArchiveOf(id) \notin DOMAIN events
                                  /\ ~Contains(events[id].childEventIds, ArchiveOf(id))} = ids
  <2>1. \A i \in A : /\ ArchiveOf(NodeId(i)) \notin DOMAIN events
                     /\ ~Contains(events[NodeId(i)].childEventIds, ArchiveOf(NodeId(i)))
    BY <1>2, <1>4, <1>6
  <2> HIDE DEF A
  <2> QED BY <1>5, <2>1
<1>8. new = AddArchives(events, ids)
  BY <1>7 DEF Normalized
<1>9. /\ DOMAIN new = DOMAIN events \cup {ArchiveOf(e) : e \in ids}
      /\ \A id \in DOMAIN new : new[id] =
           IF id.archive /\ id \notin DOMAIN events
           THEN [type |-> "archived", consuming |-> FALSE, childEventIds |-> <<>>,
                 contract |-> events[[id EXCEPT !.archive = FALSE]].contract,
                 number |-> 0]
           ELSE IF id \in ids
                THEN [events[id] EXCEPT !.childEventIds = <<ArchiveOf(id)>> \o @]
                ELSE events[id]
  <2> HIDE DEF ids, new
  <2> QED BY <1>8 DEF AddArchives
<1>10. DOMAIN new = {NodeId(i) : i \in Kept(t)} \cup {ArchiveOf(NodeId(i)) : i \in A}
  <2>1. {ArchiveOf(e) : e \in ids} = {ArchiveOf(NodeId(i)) : i \in A}
    <3> HIDE DEF A
    <3> QED OBVIOUS
  <2> HIDE DEF A, ids, new
  <2> QED BY <1>1, <1>9, <2>1
<1>11. \A i : NodeId(i).archive = FALSE /\ ArchiveOf(NodeId(i)).archive = TRUE
  BY DEF NodeId, ArchiveOf
<1>12. ASSUME NEW i \in Kept(t)
       PROVE  new[NodeId(i)] =
                IF i \in A THEN [events[NodeId(i)] EXCEPT
                                   !.childEventIds = <<ArchiveOf(NodeId(i))>> \o @]
                ELSE events[NodeId(i)]
  <2> DEFINE id == NodeId(i)
  <2>1. id \in DOMAIN new /\ id.archive = FALSE
    BY <1>10, <1>11
  <2>2. id \in ids <=> i \in A
    <3> HIDE DEF A
    <3> QED BY <1>3
  <2> HIDE DEF id, new, ids, A
  <2>3. new[id] = IF id \in ids
                  THEN [events[id] EXCEPT !.childEventIds = <<ArchiveOf(id)>> \o @]
                  ELSE events[id]
    BY <1>9, <2>1
  <2> QED BY <2>2, <2>3 DEF id
<1>13. ASSUME NEW i \in A
       PROVE  new[ArchiveOf(NodeId(i))].type = "archived"
              /\ new[ArchiveOf(NodeId(i))].childEventIds = <<>>
  <2> DEFINE id == ArchiveOf(NodeId(i))
  <2>1. id \in DOMAIN new /\ id.archive = TRUE /\ id \notin DOMAIN events
    BY <1>4, <1>10, <1>11
  <2> HIDE DEF id, new, ids, A
  <2>2. new[id] = [type |-> "archived", consuming |-> FALSE, childEventIds |-> <<>>,
                   contract |-> events[[id EXCEPT !.archive = FALSE]].contract, number |-> 0]
    BY <1>9, <2>1
  <2> QED BY <2>2 DEF id
<1>14. ASSUME NEW i \in Kept(t)
       PROVE  /\ new[NodeId(i)].type = IF t[i].kind = "create" THEN "created" ELSE "exercised"
              /\ new[NodeId(i)].childEventIds =
                   (IF i \in A THEN <<ArchiveOf(NodeId(i))>> ELSE <<>>) \o NodeIds(ChildrenOf(t, i))
  <2> DEFINE x == events[NodeId(i)]
             a == ArchiveOf(NodeId(i))
             y == [x EXCEPT !.childEventIds = <<a>> \o @]
  <2>1. new[NodeId(i)] = IF i \in A THEN y ELSE x
    BY <1>12
  <2>2. /\ x.type = IF t[i].kind = "create" THEN "created" ELSE "exercised"
        /\ x.childEventIds = <<>> \o NodeIds(ChildrenOf(t, i))
        /\ x.childEventIds = NodeIds(ChildrenOf(t, i))
    BY <1>1, <1>6
  <2>3. "childEventIds" \in DOMAIN x /\ "type" \in DOMAIN x
    BY DEF Recorded
  <2> HIDE DEF x, a, new, A
  <2>4. y.type = x.type /\ y.childEventIds = <<a>> \o x.childEventIds
    BY <2>3
  <2> HIDE DEF y
  <2>5. /\ new[NodeId(i)].type = x.type
        /\ i \in A => new[NodeId(i)].childEventIds = <<a>> \o NodeIds(ChildrenOf(t, i))
        /\ i \notin A => new[NodeId(i)].childEventIds = <<>> \o NodeIds(ChildrenOf(t, i))
    BY <2>1, <2>2, <2>4
  <2> QED BY <2>2, <2>5 DEF a
<1> HIDE DEF new, A
<1> QED BY <1>10, <1>13, <1>14 DEF TreeFor, A, new

\* Steps that tell nothing of the ledger.
Quiet(s) == s \in Seq(TraceStep) /\ Spread(Telling(WithArchives), s) = <<>>

LEMMA QuietOne ==
  ASSUME NEW x \in TraceStep, x.stepType \notin WithArchives
  PROVE  Quiet(<<x>>)
<1>1. Telling(WithArchives)[x] = <<>>
  BY DEF Telling
<1>2. Telling(WithArchives) \in Lists(TraceStep, Action)
  BY TellingTyped
<1>3. Spread(Telling(WithArchives), <<x>>) = <<>>
  BY <1>1, <1>2, SpreadOne
<1> QED BY <1>3 DEF Quiet

\* They may be left out.
LEMMA QuietAround ==
  ASSUME NEW s, NEW r, NEW u, Both(u, s, r), s \in Seq(TraceStep), r \in Seq(TraceStep)
  PROVE  /\ u \in Seq(TraceStep) /\ Len(u) = Len(s) + Len(r)
         /\ Quiet(s) => Spread(Telling(WithArchives), u) = Spread(Telling(WithArchives), r)
         /\ Quiet(r) => Spread(Telling(WithArchives), u) = Spread(Telling(WithArchives), s)
         /\ Quiet(s) /\ Quiet(r) => Quiet(u)
<1> DEFINE by == Telling(WithArchives)
           S(v) == Spread(by, v)
<1>1. by \in [TraceStep -> Seq(Action)]
  BY TellingTyped DEF Lists
<1>2. u \in Seq(TraceStep) /\ Len(u) = Len(s) + Len(r)
  BY DEF Both
<1> HIDE DEF by
<1>3. Both(S(u), S(s), S(r))
  BY <1>1, SpreadBoth
<1>4. S(s) \in Seq(Action) /\ S(r) \in Seq(Action)
  BY <1>1, SpreadFacts
<1> HIDE DEF S
<1>5. <<>> \o S(r) = S(r) /\ S(s) \o <<>> = S(s)
  BY <1>4, ConcatEmptySeq
<1>6. /\ S(s) = <<>> => S(u) = S(r)
      /\ S(r) = <<>> => S(u) = S(s)
  BY <1>3, <1>5 DEF Both
<1> QED BY <1>2, <1>6 DEF Quiet, S, by

LEMMA OpeningQuiet ==
  ASSUME NEW t, NEW decoded \in BOOLEAN, NEW fetched \in BOOLEAN
  PROVE  Quiet(Opening(t, decoded, fetched))
<1> DEFINE x == Taken("fetch_package", 0, decoded)
           y == Taken("evaluate_expression", 0, TRUE)
           z == Taken("fetch_contract", 0, TRUE)
           r == IF t[1].kind = "create" \/ ~fetched THEN <<>> ELSE <<z>>
           s == <<x, y>>
           u == Opening(t, decoded, fetched)
<1>1. 0 \in 0..MaxNodes
  BY DebuggerConstantsOK
<1>2. /\ x \in TraceStep /\ x.stepType \notin WithArchives
      /\ y \in TraceStep /\ y.stepType \notin WithArchives
      /\ z \in TraceStep /\ z.stepType \notin WithArchives
  BY <1>1 DEF Taken, TraceStep, WithArchives
<1>3. Both(u, s, r)
  BY DEF Opening, Both
<1> HIDE DEF x, y, z, u
<1>4. Quiet(<<x>>) /\ Quiet(<<y>>) /\ Quiet(<<z>>)
  BY <1>2, QuietOne
<1>5. Quiet(s)
  <2>1. <<x>> \o <<y>> = s
    BY <1>2, PairJoined
  <2>2. Both(s, <<x>>, <<y>>)
    BY <2>1 DEF Both
  <2> DEFINE p == <<x>>
             q == <<y>>
  <2> HIDE DEF s, p, q
  <2>3. Quiet(p) /\ Quiet(q) /\ Both(s, p, q)
    BY <1>4, <2>2 DEF p, q
  <2> QED BY <2>3, QuietAround DEF Quiet
<1>6. Quiet(<<>>)
  <2>1. Telling(WithArchives) \in Lists(TraceStep, Action)
    BY TellingTyped
  <2>2. Spread(Telling(WithArchives), <<>>) = <<>>
    BY <1>2, <2>1, SpreadOne
  <2> QED BY <2>2 DEF Quiet
<1>7. Quiet(r)
  BY <1>4, <1>6
<1> HIDE DEF s, r
<1>8. Quiet(u)
  BY <1>3, <1>5, <1>7, QuietAround DEF Quiet
<1> QED BY <1>8 DEF u

LEMMA NothingTold == Told(NoTree) = <<>> /\ Normalized(<<>>) = <<>>
<1>1. Told(NoTree) = <<>>
  <2>1. TreeOf(<<>>, <<>>) = <<>>
    <3>1. TreeOf(<<>>, <<>>) = FlattenSeq(<<>>)
      BY DEF TreeOf
    <3> QED BY <3>1, FlattenNone
  <2>2. Told(NoTree) = [k \in DOMAIN <<>> |->
           [stepType |-> StepName[NoTree.eventsById[<<>>[k]].type], node |-> <<>>[k].base]]
    BY <2>1 DEF Told, NoTree, StepName
  <2> QED BY <2>2
<1>2. Normalized(<<>>) = <<>>
  <2>1. Archiving(<<>>) = {}
    BY DEF Archiving
  <2>2. {id \in Archiving(<<>>) :
           /\ ArchiveOf(id) \notin DOMAIN <<>>
           /\ ~Contains(<<>>[id].childEventIds, ArchiveOf(id))} = {}
    BY <2>1
  <2>3. Normalized(<<>>) = AddArchives(<<>>, {})
    BY <2>2 DEF Normalized
  <2>4. AddArchives(<<>>, {}) = <<>>
    BY DEF AddArchives
  <2> QED BY <2>3, <2>4
<1> QED BY <1>1, <1>2

\* A trace is the trace of one execution.
OneExecution(shown) ==
  /\ shown.steps \in Seq(TraceStep) /\ Len(shown.steps) >= 1 /\ shown.error \in BOOLEAN
  /\ Told(shown.tree) = LedgerSteps(shown.steps, WithArchives)
  /\ shown.error <=> ~shown.steps[Len(shown.steps)].passed
  /\ shown.error <=> shown.tree = NoTree

LEMMA WalkedList ==
  ASSUME NEW t \in LfTransactions
  PROVE  WalkNode(t) \in Seq(TraceStep)
<1>1. 1 \in DOMAIN t
  BY LfFacts
<1> QED BY <1>1, WalkUnfolds DEF Lists

\* A last step that tells nothing, after other steps.
LEMMA LastStep ==
  ASSUME NEW s \in Seq(TraceStep), NEW passed \in BOOLEAN, NEW steps,
         Both(steps, s, <<Taken("evaluate_expression", 0, passed)>>)
  PROVE  /\ steps \in Seq(TraceStep) /\ Len(steps) >= 1
         /\ steps[Len(steps)].passed = passed
         /\ Spread(Telling(WithArchives), steps) = Spread(Telling(WithArchives), s)
<1> DEFINE x == Taken("evaluate_expression", 0, passed)
           r == <<x>>
<1>1. x \in TraceStep /\ x.stepType \notin WithArchives /\ x.passed = passed
  BY DebuggerConstantsOK DEF Taken, TraceStep, WithArchives
<1>2. Both(steps, s, r)
  OBVIOUS
<1> HIDE DEF x
<1>3. r \in Seq(TraceStep) /\ Len(r) = 1 /\ r[1] = x
  BY <1>1
<1>4. Quiet(r)
  BY <1>1, QuietOne
<1> HIDE DEF r
<1>5. /\ steps \in Seq(TraceStep) /\ Len(steps) = Len(s) + 1
      /\ Spread(Telling(WithArchives), steps) = Spread(Telling(WithArchives), s)
  <2>1. s \in Seq(TraceStep) /\ r \in Seq(TraceStep)
    BY <1>3
  <2>2. /\ steps \in Seq(TraceStep) /\ Len(steps) = Len(s) + Len(r)
        /\ Quiet(r) => Spread(Telling(WithArchives), steps) = Spread(Telling(WithArchives), s)
    BY <1>2, <2>1, QuietAround
  <2> QED BY <1>3, <1>4, <2>2
<1>6. steps[Len(steps)] = x /\ Len(s) \in Nat
  <2>1. steps = s \o r /\ Len(s) \in Nat
    BY <1>2 DEF Both
  <2>2. Len(s) + 1 \in 1..(Len(s) + Len(r))
    BY <1>3, <2>1
  <2>3. steps[Len(s) + 1] = r[1]
    <3>1. ~(Len(s) + 1 <= Len(s)) /\ (Len(s) + 1) - Len(s) = 1
      BY <2>1
    <3>2. (s \o r)[Len(s) + 1] = r[(Len(s) + 1) - Len(s)]
      BY <1>3, <2>2, <3>1, ConcatAt
    <3> QED BY <2>1, <3>1, <3>2
  <2> QED BY <1>3, <1>5, <2>1, <2>3
<1> QED BY <1>1, <1>5, <1>6

LEMMA TraceFacts ==
  ASSUME NEW t \in LfTransactions,
         NEW decoded \in BOOLEAN, NEW fetched \in BOOLEAN, NEW admitted \in BOOLEAN
  PROVE  OneExecution(NormalizeEngineTrace(TryRealEngine(t, decoded, fetched, admitted)))
<1> DEFINE raw == TryRealEngine(t, decoded, fetched, admitted)
           shown == NormalizeEngineTrace(raw)
           by == Telling(WithArchives)
<1>1. CASE admitted
  <2> DEFINE o == Opening(t, decoded, TRUE)
             w == WalkNode(t)
             s == o \o w
  <2>1. PICK events : /\ ConvertVersionedTransaction(t) =
                           [rootEventIds |-> <<NodeId(1)>>, eventsById |-> events]
                      /\ TreeFor(t, events, Archives(t, NoArchives))
                      /\ Recorded(t, events)
    BY ConvertedTree
  <2> DEFINE drawn == [rootEventIds |-> <<NodeId(1)>>, eventsById |-> Normalized(events)]
  <2>2. /\ shown.tree = drawn /\ shown.error = FALSE
        /\ shown.steps = s \o <<Taken("evaluate_expression", 0, TRUE)>>
    <3> DEFINE x == [rootEventIds |-> <<NodeId(1)>>, eventsById |-> events]
    <3>1. raw = [steps |-> s \o <<Taken("evaluate_expression", 0, TRUE)>>,
                 tree |-> x, error |-> FALSE]
      BY <1>1, <2>1 DEF TryRealEngine
    <3>2. [x EXCEPT !.eventsById = Normalized(@)] = drawn
      OBVIOUS
    <3> HIDE DEF raw, s, x, drawn
    <3>3. /\ shown.tree = [raw.tree EXCEPT !.eventsById = Normalized(@)]
          /\ shown.error = raw.error /\ shown.steps = raw.steps
      BY <3>1 DEF NormalizeEngineTrace
    <3> QED BY <3>1, <3>2, <3>3
  <2>3. TreeFor(t, Normalized(events), Archives(t, WithArchives))
    BY <2>1, NormalizedTree
  <2>4. Told(drawn) = LedgerSteps(w, WithArchives)
    BY <2>3, TreeTells
  <2>5. drawn # NoTree
    <3>1. drawn.rootEventIds # NoTree.rootEventIds
      BY DEF NoTree
    <3> QED BY <3>1
  <2>6. Quiet(o)
    <3>1. TRUE \in BOOLEAN
      OBVIOUS
    <3> QED BY <3>1, OpeningQuiet
  <2>7. w \in Seq(TraceStep)
    BY WalkedList
  <2>8. Both(s, o, w) /\ Both(shown.steps, s, <<Taken("evaluate_expression", 0, TRUE)>>)
    BY <2>2 DEF Both
  <2> HIDE DEF o, w, s, shown, drawn
  <2>9. s \in Seq(TraceStep) /\ Spread(by, s) = Spread(by, w)
    BY <2>6, <2>7, <2>8, QuietAround DEF Quiet
  <2> DEFINE steps == shown.steps
  <2>10. Both(steps, s, <<Taken("evaluate_expression", 0, TRUE)>>)
    BY <2>8
  <2> HIDE DEF steps
  <2>11. /\ steps \in Seq(TraceStep) /\ Len(steps) >= 1 /\ steps[Len(steps)].passed = TRUE
         /\ Spread(by, steps) = Spread(by, s)
    BY <2>9, <2>10, LastStep
  <2>12. LedgerSteps(steps, WithArchives) = Spread(by, steps)
         /\ LedgerSteps(w, WithArchives) = Spread(by, w)
    BY <2>7, <2>11, LedgerStepsTold
  <2> HIDE DEF by
  <2>13. Told(drawn) = LedgerSteps(steps, WithArchives)
    BY <2>4, <2>9, <2>11, <2>12
  <2> QED BY <2>2, <2>5, <2>11, <2>13 DEF OneExecution, steps, shown
<1>2. CASE ~admitted
  <2> DEFINE o == Opening(t, decoded, fetched)
  <2>1. /\ shown.tree = NoTree /\ shown.error = TRUE
        /\ shown.steps = o \o <<Taken("evaluate_expression", 0, FALSE)>>
    <3>1. [NoTree EXCEPT !.eventsById = Normalized(@)] = NoTree
      BY NothingTold DEF NoTree
    <3>2. raw = [steps |-> o \o <<Taken("evaluate_expression", 0, FALSE)>>,
                 tree |-> NoTree, error |-> TRUE]
      BY <1>2 DEF TryRealEngine
    <3> HIDE DEF raw, o
    <3>3. /\ shown.tree = [raw.tree EXCEPT !.eventsById = Normalized(@)]
          /\ shown.error = raw.error /\ shown.steps = raw.steps
      BY <3>2 DEF NormalizeEngineTrace
    <3> QED BY <3>1, <3>2, <3>3
  <2>2. Quiet(o)
    BY OpeningQuiet
  <2> DEFINE steps == shown.steps
  <2>3. Both(steps, o, <<Taken("evaluate_expression", 0, FALSE)>>)
    BY <2>1 DEF Both
  <2> HIDE DEF o, steps, shown, by
  <2>4. /\ steps \in Seq(TraceStep) /\ Len(steps) >= 1 /\ steps[Len(steps)].passed = FALSE
        /\ Spread(by, steps) = Spread(by, o)
    <3>1. o \in Seq(TraceStep) /\ FALSE \in BOOLEAN
      BY <2>2 DEF Quiet
    <3> QED BY <2>3, <3>1, LastStep DEF by
  <2>5. LedgerSteps(steps, WithArchives) = <<>>
    BY <2>2, <2>4, LedgerStepsTold DEF Quiet, by
  <2> QED BY <2>1, <2>4, <2>5, NothingTold DEF OneExecution, steps, shown
<1> QED BY <1>1, <1>2

\* The tree of an offline simulation.
LEMMA OfflineFacts ==
  ASSUME NEW t \in LfTransactions
  PROVE  Told(ConvertVersionedTransaction(t)) = LedgerSteps(WalkNode(t), NoArchives)
<1>1. PICK events : /\ ConvertVersionedTransaction(t) =
                         [rootEventIds |-> <<NodeId(1)>>, eventsById |-> events]
                    /\ TreeFor(t, events, Archives(t, NoArchives))
  BY ConvertedTree
<1>2. Told([rootEventIds |-> <<NodeId(1)>>, eventsById |-> events]) = LedgerSteps(WalkNode(t), NoArchives)
  BY <1>1, TreeTells
<1> DEFINE tree == [rootEventIds |-> <<NodeId(1)>>, eventsById |-> events]
<1> HIDE DEF tree
<1>3. ConvertVersionedTransaction(t) = tree /\ Told(tree) = LedgerSteps(WalkNode(t), NoArchives)
  BY <1>1, <1>2 DEF tree
<1> QED BY <1>3

-----------------------------------------------------------------------------
(***************************************************************************)
(* The page.                                                               *)
(***************************************************************************)

\* A result that is shown.
OneSimulation(shown) ==
  /\ shown \in [mode : {"online", "offline"}, success : BOOLEAN, tree : {shown.tree}, admitted : BOOLEAN]
  /\ shown.mode = "offline" /\ shown.admitted =>
       Told(shown.tree) = LedgerSteps(WalkNode(lf), NoArchives)

SimKnown == sim = NoResult \/ OneSimulation(sim)

TraceShown ==
  /\ trace = NoTrace \/ OneExecution(trace)
  /\ current \in Nat
  /\ trace # NoTrace => current < Len(trace.steps)

DbgInv ==
  /\ lf \in LfTransactions
  /\ asked \in 0..MaxRequests
  /\ pending \in {"none"} \cup Requests /\ exec \in {"none", "committed", "refused"}
  /\ SimKnown /\ TraceShown

\* What may be shown after an answer.
LEMMA SimulatedFacts ==
  ASSUME lf \in LfTransactions, NEW x \in SimulateOnline \cup SimulateOffline
  PROVE  OneSimulation(x)
<1> DEFINE online == BuildOnlineTransactionTree(lf)
           tree == ConvertVersionedTransaction(lf)
<1>1. Told(tree) = LedgerSteps(WalkNode(lf), NoArchives)
  BY OfflineFacts
<1>2. \E mode \in {"online", "offline"}, success \in BOOLEAN, admitted \in BOOLEAN, r \in {online, tree, NoTree} :
        /\ x = Simulated(mode, success, r, admitted)
        /\ mode = "offline" /\ admitted => r = tree
  <2>1. x \in {Simulated("online", TRUE, online, TRUE), Simulated("online", FALSE, NoTree, FALSE),
               Simulated("offline", TRUE, tree, TRUE), Simulated("offline", TRUE, NoTree, FALSE),
               Simulated("offline", FALSE, NoTree, FALSE)}
    BY DEF SimulateOnline, SimulateOffline, TryRealEngineSimulation
  <2> HIDE DEF online, tree
  <2> QED BY <2>1
<1> HIDE DEF online, tree
<1>3. PICK mode \in {"online", "offline"}, success \in BOOLEAN, admitted \in BOOLEAN, r \in {online, tree, NoTree} :
        /\ x = Simulated(mode, success, r, admitted)
        /\ mode = "offline" /\ admitted => r = tree
  BY <1>2
<1>4. x = [mode |-> mode, success |-> success, tree |-> r, admitted |-> admitted]
  BY <1>3 DEF Simulated
<1>5. x \in [mode : {"online", "offline"}, success : BOOLEAN, tree : {x.tree}, admitted : BOOLEAN]
  BY <1>4
<1>6. x.mode = mode /\ x.admitted = admitted /\ x.tree = r
  BY <1>4
<1> QED BY <1>1, <1>3, <1>5, <1>6 DEF OneSimulation

LEMMA TracedFacts ==
  ASSUME lf \in LfTransactions, NEW x \in TraceResults
  PROVE  OneExecution(x)
<1>1. PICK decoded \in BOOLEAN, fetched \in BOOLEAN, admitted \in BOOLEAN :
        x = NormalizeEngineTrace(TryRealEngine(lf, decoded, fetched, admitted))
  BY DEF TraceResults
<1> DEFINE y == NormalizeEngineTrace(TryRealEngine(lf, decoded, fetched, admitted))
<1>2. OneExecution(y)
  BY TraceFacts
<1> HIDE DEF y
<1>3. x = y
  BY <1>1 DEF y
<1> QED BY <1>2, <1>3

LEMMA DbgInvInit ==
  ASSUME DebuggerInit(TRUE)
  PROVE  DbgInv
<1>1. /\ lf \in LfTransactions
      /\ asked = 0 /\ pending = "none"
      /\ sim = NoResult /\ exec = "none" /\ trace = NoTrace /\ current = 0
  BY DEF DebuggerInit
<1> QED BY <1>1, DebuggerConstantsOK DEF DbgInv, SimKnown, TraceShown

LEMMA DbgInvStep ==
  ASSUME DbgInv, [DebuggerNext]_debuggerVars
  PROVE  DbgInv'
<1> USE DEF DbgInv
<1>1. ASSUME NEW kind \in Requests, Request(kind) PROVE DbgInv'
  BY <1>1, DebuggerConstantsOK DEF Request, SimKnown, OneSimulation, TraceShown
<1>2. CASE SimulateAnswered
  <2>1. SimKnown'
    <3>1. lf' = lf /\ (sim' = sim \/ sim' \in SimulateOnline \cup SimulateOffline)
      BY <1>2 DEF SimulateAnswered
    <3>2. CASE sim' = sim
      BY <3>1, <3>2 DEF SimKnown, OneSimulation
    <3>3. CASE sim' \in SimulateOnline \cup SimulateOffline
      <4> DEFINE x == sim'
      <4>1. x \in SimulateOnline \cup SimulateOffline
        BY <3>3
      <4> HIDE DEF x
      <4>2. OneSimulation(x)
        BY <4>1, SimulatedFacts
      <4> QED BY <3>1, <4>2 DEF SimKnown, OneSimulation, x
    <3> QED BY <3>1, <3>2, <3>3
  <2> QED BY <1>2, <2>1 DEF SimulateAnswered, TraceShown
<1>3. CASE TraceAnswered
  <2>1. TraceShown'
    <3>1. CASE trace' \in TraceResults /\ current' = 0
      <4> DEFINE x == trace'
      <4>1. x \in TraceResults
        BY <3>1
      <4> HIDE DEF x
      <4>2. OneExecution(x)
        BY <4>1, TracedFacts
      <4>3. 0 < Len(x.steps)
        BY <4>2 DEF OneExecution
      <4> QED BY <3>1, <4>2, <4>3 DEF TraceShown, x
    <3>2. CASE UNCHANGED <<trace, current>>
      BY <3>2 DEF TraceShown
    <3> QED BY <1>3, <3>1, <3>2 DEF TraceAnswered
  <2>2. SimKnown'
    BY <1>3 DEF TraceAnswered, SimKnown, OneSimulation
  <2> QED BY <1>3, <2>1, <2>2 DEF TraceAnswered
<1>4. CASE ExecuteAnswered
  BY <1>4 DEF ExecuteAnswered, SimKnown, OneSimulation, TraceShown
<1>5. CASE ResetDebugger
  BY <1>5 DEF ResetDebugger, SimKnown, OneSimulation, TraceShown
<1>6. CASE Navigate
  <2>1. TraceShown'
    <3> DEFINE n == Len(trace.steps)
    <3>1. trace' = trace /\ trace # NoTrace /\ OneExecution(trace) /\ current \in Nat
      BY <1>6 DEF Navigate, TraceShown
    <3>2. n \in Nat /\ n >= 1 /\ DOMAIN trace.steps = 1..n
      BY <3>1 DEF OneExecution
    <3>3. \A m \in Int : Clamp(m) \in 0..(n - 1)
      BY <3>2 DEF Clamp
    <3>4. \A k \in DOMAIN trace.steps : k - 1 \in 0..(n - 1) /\ k - 1 \in Int
      BY <3>2
    <3>5. {k - 1 : k \in {j \in FailedSteps : \A i \in FailedSteps : j <= i}} \subseteq 0..(n - 1)
      BY <3>4 DEF FailedSteps
    <3>6. {Clamp(k - 1) : k \in DOMAIN trace.steps} \subseteq 0..(n - 1)
      BY <3>3, <3>4
    <3>7. {Clamp(current + 1), Clamp(current - 1), Clamp(n - 1), 0} \subseteq 0..(n - 1)
      <4>1. current + 1 \in Int /\ current - 1 \in Int /\ n - 1 \in Int /\ 0 \in 0..(n - 1)
        BY <3>1, <3>2
      <4> HIDE DEF n
      <4> QED BY <3>3, <4>1
    <3>8. current' \in 0..(n - 1)
      BY <1>6, <3>5, <3>6, <3>7 DEF Navigate
    <3> QED BY <3>1, <3>2, <3>8 DEF TraceShown
  <2> QED BY <1>6, <2>1 DEF Navigate, SimKnown, OneSimulation
<1>7. CASE UNCHANGED debuggerVars
  BY <1>7 DEF debuggerVars, SimKnown, OneSimulation, TraceShown
<1> QED BY <1>1, <1>2, <1>3, <1>4, <1>5, <1>6, <1>7 DEF DebuggerNext, DebuggerAnswered

LEMMA DbgInvMeans ==
  ASSUME DbgInv
  PROVE  DebuggerTypeOK /\ ExecutionShown
<1> USE DEF DbgInv
<1>1. DebuggerTypeOK
  <2>1. sim = NoResult \/ sim \in [mode : {"online", "offline"}, success : BOOLEAN,
          tree : {sim.tree}, admitted : BOOLEAN]
    BY DEF SimKnown, OneSimulation
  <2>2. trace.steps = <<>> \/ trace.steps \in Seq(TraceStep)
    BY DEF TraceShown, OneExecution, NoTrace
  <2>3. trace.error \in BOOLEAN /\ current \in Nat
    <3>1. CASE trace = NoTrace
      BY <3>1 DEF TraceShown, NoTrace
    <3>2. CASE OneExecution(trace)
      BY <3>2 DEF TraceShown, OneExecution
    <3> QED BY <3>1, <3>2 DEF TraceShown
  <2> QED BY <2>1, <2>2, <2>3 DEF DebuggerTypeOK, TraceStep
<1>2. ExecutionShown
  <2>1. ASSUME trace # NoTrace
        PROVE  /\ current \in 0..(Len(trace.steps) - 1)
               /\ Told(trace.tree) = LedgerSteps(trace.steps, WithArchives)
               /\ trace.error <=> ~trace.steps[Len(trace.steps)].passed
               /\ trace.error <=> trace.tree = NoTree
    <3>1. OneExecution(trace) /\ current \in Nat /\ current < Len(trace.steps)
      BY <2>1 DEF TraceShown
    <3>2. Len(trace.steps) \in Nat
      BY <3>1 DEF OneExecution
    <3> QED BY <3>1, <3>2 DEF OneExecution
  <2>2. sim.mode = "offline" /\ sim.admitted => Told(sim.tree) = LedgerSteps(WalkNode(lf), NoArchives)
    BY DEF SimKnown, OneSimulation, NoResult, Simulated
  <2> QED BY <2>1, <2>2 DEF ExecutionShown, WithArchives, NoArchives
<1> QED BY <1>1, <1>2

\* A trace that is shown is one execution, for any number of nodes and of
\* requests: the current step is one of its steps, the steps tell the actions
\* of the tree beside them in its order, each archive right after its exercise
\* and nothing of what was rolled back, and there is an error exactly if the
\* last step did not pass and there is no tree.
THEOREM DebuggerTheorem == DebuggerSpec => [](DebuggerTypeOK /\ ExecutionShown)
<1>1. DebuggerInit(TRUE) => DbgInv
  BY DbgInvInit
<1>2. DbgInv /\ [DebuggerNext]_debuggerVars => DbgInv'
  BY DbgInvStep
<1>3. DbgInv => DebuggerTypeOK /\ ExecutionShown
  BY DbgInvMeans
<1> QED BY <1>1, <1>2, <1>3, PTL DEF DebuggerSpec
=============================================================================
