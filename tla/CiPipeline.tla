----------------------------- MODULE CiPipeline -----------------------------
(***************************************************************************)
(* POST /api/v1/ci/run (routes/ci.ts): one request that provisions a       *)
(* sandbox, uploads a DAR, connects, runs a Daml script, evaluates its     *)
(* assertions on the ACS and tears everything down, or does what its catch *)
(* block does when a step throws.  Users of the sandbox page may delete or *)
(* reset the very sandbox meanwhile; SandboxManager has the details of     *)
(* that, here the sandbox is what the pipeline sees of it.                 *)
(***************************************************************************)
EXTENDS Integers

Steps == {"idle", "creating", "persisting", "waiting", "uploading",
          "connecting", "bootstrapping", "writing", "scripting", "unlinking",
          "ledgerEnd", "asserting", "tearing", "replied"}

\* The steps inside the try block that await something which can throw.
Fragile == {"creating", "uploading", "connecting", "bootstrapping",
            "writing", "ledgerEnd"}

VARIABLES
  ci,        \* the request
  sandbox    \* the sandbox it created, and the reset of it under way, if any

ciVars == <<ci, sandbox>>

Run == [step     : Steps,
        script   : BOOLEAN,    \* body.testScript
        exists   : BOOLEAN,    \* body.assertions has a contract_exists
        id       : BOOLEAN,    \* sandboxId is set
        client   : {"none", "connected", "closed"},
        dar      : BOOLEAN,    \* /tmp/ci-<runId>.dar exists
        errors   : BOOLEAN,    \* errors is not empty
        found    : BOOLEAN,    \* acsSnapshot has the contract
        thrown   : BOOLEAN,    \* the catch block runs or ran
        status   : {"none", "passed", "failed", "error"},
        diskFull : BOOLEAN]    \* history: writing or removing the DAR failed

Sandbox == [status : {"none", "provisioning", "running", "error", "deleted"},
            ledger : BOOLEAN,     \* the script left the contract active
            reset  : {"no", "running", "done"}]

NoRun == [step |-> "idle", script |-> FALSE, exists |-> FALSE, id |-> FALSE,
          client |-> "none", dar |-> FALSE, errors |-> FALSE,
          found |-> FALSE, thrown |-> FALSE, status |-> "none",
          diskFull |-> FALSE]

CiInit ==
  /\ ci = NoRun
  /\ sandbox = [status |-> "none", ledger |-> FALSE, reset |-> "no"]

Registered == sandbox.status \in {"provisioning", "running", "error"}

At(step) == ci.step = step

Goto(step) == ci' = [ci EXCEPT !.step = step]

-----------------------------------------------------------------------------
(***************************************************************************)
(* The request.                                                            *)
(***************************************************************************)

RunRequested ==
  /\ At("idle")
  /\ \E script, exists \in BOOLEAN :
       ci' = [ci EXCEPT !.step = "creating", !.script = script,
                        !.exists = exists]
  /\ UNCHANGED sandbox

\* createSandbox registers the sandbox and awaits the file; its id is known
\* to the pipeline only when it returns.
Provision ==
  /\ At("creating")
  /\ sandbox' = [sandbox EXCEPT !.status = "provisioning"]
  /\ Goto("persisting")

Provisioned ==
  /\ At("persisting")
  /\ ci' = [ci EXCEPT !.step = "waiting", !.id = TRUE]
  /\ UNCHANGED sandbox

ThrowAndForget(run) ==                     \* mutant: no cleanup in the catch
  ci' = [run EXCEPT !.thrown = TRUE, !.status = "error", !.step = "replied"]

\* What a throw leads to: with a sandbox id, deleteSandbox is awaited.
Throw(run) ==
  ci' = [run EXCEPT !.thrown = TRUE, !.status = "error",
                    !.step = IF run.id THEN "tearing" ELSE "replied"]

\* A poll of waitForSandboxReady that sees an end to the waiting.
Polled ==
  /\ At("waiting")
  /\ IF sandbox.status = "running" THEN Goto("uploading") ELSE Throw(ci)
  /\ sandbox.status # "provisioning"
  /\ UNCHANGED sandbox

\* It did not become ready within 60 s.
WaitTimeout ==
  /\ At("waiting")
  /\ Throw(ci)
  /\ UNCHANGED sandbox

\* uploadDar looks the sandbox up, fails unless it is running, and uploads.
Uploaded ==
  /\ At("uploading") /\ sandbox.status = "running"
  /\ Goto("connecting")
  /\ UNCHANGED sandbox

Connected ==
  /\ At("connecting") /\ Registered
  /\ ci' = [ci EXCEPT !.step = "bootstrapping", !.client = "connected"]
  /\ UNCHANGED sandbox

SandboxBootstrapped ==
  /\ At("bootstrapping") /\ Registered
  /\ Goto(IF ci.script THEN "writing" ELSE "ledgerEnd")
  /\ UNCHANGED sandbox

DarWritten ==
  /\ At("writing")
  /\ ci' = [ci EXCEPT !.step = "scripting", !.dar = TRUE]
  /\ UNCHANGED sandbox

\* runDamlScript reports a failure instead of throwing it.
ScriptSucceeds ==
  /\ At("scripting") /\ Registered
  /\ Goto("unlinking")
  /\ \E creates \in BOOLEAN : sandbox' = [sandbox EXCEPT !.ledger = creates]

ScriptFails ==
  /\ At("scripting")
  /\ ci' = [ci EXCEPT !.step = "unlinking", !.errors = TRUE]
  /\ UNCHANGED sandbox

\* fs.unlink in the finally block; its failure is ignored.
Unlinked ==
  /\ At("unlinking")
  /\ \E fails \in BOOLEAN :
       ci' = [ci EXCEPT !.step = "ledgerEnd", !.dar = fails,
                        !.diskFull = ci.diskFull \/ fails]
  /\ UNCHANGED sandbox

\* bootstrap({ skipUserManagement: true }) returns no user rights, from which
\* the parties are taken.
AllParties == {}

\* getLedgerEnd, and the ACS if there are parties to query it for.
Collected ==
  /\ At("ledgerEnd") /\ Registered
  /\ ci' = [ci EXCEPT !.step = "asserting",
                      !.found = AllParties # {} /\ sandbox.ledger]
  /\ UNCHANGED sandbox

\* contract_exists, when asked for, passes if the contract is in the snapshot.
Verdict ==
  CASE ci.errors                -> "error"
    [] ci.exists /\ ~ci.found   -> "failed"
    [] OTHER                    -> "passed"

\* runAssertions, the status and client.disconnect().
Asserted ==
  /\ At("asserting")
  /\ ci' = [ci EXCEPT !.step = "tearing", !.status = Verdict,
                      !.client = "closed"]
  /\ UNCHANGED sandbox

\* deleteSandbox, which throws only when the sandbox is not registered.  From
\* the try block that leads to the catch block, which tries once more and
\* gives up; either way the request is answered.
TearDown ==
  /\ At("tearing")
  /\ IF Registered
     THEN /\ Goto("replied")
          /\ sandbox' = [sandbox EXCEPT !.status = "deleted"]
     ELSE /\ ci' = [ci EXCEPT !.step = "replied", !.thrown = TRUE,
                              !.status = "error"]
          /\ UNCHANGED sandbox

\* An awaited step throws.  A DAR may be left half written, or may be left
\* already.
StepThrows ==
  /\ ci.step \in Fragile
  /\ \E left \in BOOLEAN :
       /\ left => At("writing")
       /\ Throw([ci EXCEPT !.dar = ci.dar \/ left,
                           !.diskFull = ci.diskFull \/ left])
  /\ UNCHANGED sandbox

-----------------------------------------------------------------------------
(***************************************************************************)
(* The sandbox.                                                            *)
(***************************************************************************)

\* Once createSandbox has returned, startSandbox goes on by itself.
SandboxStarts ==
  /\ sandbox.status = "provisioning" /\ ci.id
  /\ \E status \in {"running", "error"} :
       sandbox' = [sandbox EXCEPT !.status = status]
  /\ UNCHANGED ci

SandboxDies ==
  /\ sandbox.status = "running"
  /\ sandbox' = [sandbox EXCEPT !.status = "error"]
  /\ UNCHANGED ci

UserDeletes ==
  /\ Registered
  /\ sandbox' = [sandbox EXCEPT !.status = "deleted"]
  /\ UNCHANGED ci

\* A reset looks the sandbox up and registers it anew many seconds later.
UserResets ==
  /\ Registered /\ sandbox.reset = "no"
  /\ sandbox' = [sandbox EXCEPT !.reset = "running"]
  /\ UNCHANGED ci

ResetDone ==
  /\ sandbox.reset = "running"
  /\ sandbox' = [status |-> "provisioning", ledger |-> FALSE, reset |-> "done"]
  /\ UNCHANGED ci

-----------------------------------------------------------------------------
Pipeline ==
  \/ Provision \/ Provisioned \/ Polled \/ WaitTimeout \/ Uploaded
  \/ Connected \/ SandboxBootstrapped \/ DarWritten \/ ScriptSucceeds \/ ScriptFails
  \/ Unlinked \/ Collected \/ Asserted \/ TearDown
  \/ StepThrows

CiNext ==
  \/ RunRequested \/ Pipeline
  \/ SandboxStarts \/ SandboxDies \/ UserDeletes \/ UserResets \/ ResetDone

CiSpec == CiInit /\ [][CiNext]_ciVars

-----------------------------------------------------------------------------
CiTypeOK == ci \in Run /\ sandbox \in Sandbox

\* What may be left behind once the request is answered: the sandbox only when
\* a reset that a user began has brought it back (SandboxManager), the DAR in
\* /tmp only when the disk failed, and a connected client only when a step has
\* thrown, since the catch block deletes the sandbox and disconnects nothing.
CiLeavesOnly ==
  At("replied") =>
    /\ Registered => sandbox.reset = "done"
    /\ ci.dar => ci.diskFull
    /\ ci.client = "connected" => ci.thrown

\* The inductive invariant behind it: what the request holds at which step.
CiHolds ==
  /\ ci.step \in {"idle", "creating"} =>
       sandbox.status = "none" /\ sandbox.reset = "no"
  /\ ci.step \notin {"idle", "creating", "persisting", "replied"} => ci.id
  /\ ci.dar => ci.diskFull \/ ci.step \in {"scripting", "unlinking"}
  /\ ci.client = "connected" =>
       ci.thrown \/ ci.step \in {"bootstrapping", "writing", "scripting", "unlinking",
                                 "ledgerEnd", "asserting"}
=============================================================================
