--------------------------- MODULE SandboxManager ---------------------------
(***************************************************************************)
(* The gateway's sandbox manager (services/sandbox-manager.ts): creation,  *)
(* deletion and reset of sandboxes, the detached processes they run as,    *)
(* the file they are restored from, and restarts of the gateway.           *)
(*                                                                         *)
(* The n-th request that is not refused at once is operation n.  The       *)
(* sandbox an operation creates has its number as id; the state object a   *)
(* create or reset installs in the registry and the process that           *)
(* startSandbox spawns for it have its number as well.  An object that was *)
(* replaced in the registry lives on in the handlers that captured it.     *)
(*                                                                         *)
(* Every await ends an action.  A port stands for a block of six ports,    *)
(* which a process binds together.  The built-in Demo sandbox, which can   *)
(* be neither deleted nor reset, and freedPorts, which nothing reads, are  *)
(* left out.                                                               *)
(***************************************************************************)
EXTENDS Integers, FiniteSets

CONSTANTS
  MaxOps,        \* bound: create, delete and reset requests
  Ports,         \* port blocks, lowest first
  MaxSandboxes,  \* MAX_SANDBOXES
  MaxExits,      \* bound: processes that exit unasked
  MaxCrashes     \* bound: restarts of the gateway

ASSUME ConstantsOK ==
  /\ MaxOps \in Nat /\ MaxExits \in Nat /\ MaxCrashes \in Nat
  /\ Ports \subseteq Nat \ {0} /\ Ports # {} /\ IsFiniteSet(Ports)
  /\ MaxSandboxes \in Nat \ {0}

Ops  == 1..MaxOps
None == 0

VARIABLES
  registry,  \* registry[id]: the state object of sandbox id, or None
  object,    \* object[n]: the state object installed by operation n
  op,        \* op[n]: the n-th request
  process,   \* process[n]: the process spawned by operation n
  file,      \* sandboxes.json
  writes,    \* writes[n]: the snapshot operation n is writing to the file
  disturbed, \* history: requests or file writes overlapped, or the gateway
             \* crashed in the middle of an operation
  exits,     \* counts towards MaxExits
  crashes    \* counts towards MaxCrashes

vars == <<registry, object, op, process, file, writes, disturbed, exits, crashes>>

bounds == <<exits, crashes>>

Object == [port   : Ports \cup {None},
           status : {"provisioning", "running", "stopped", "error"},
           handle : Ops \cup {None}]     \* processHandle

Snapshots == SUBSET (Ops \X Ports)
NoWrite   == {<<None, None>>}

\* "probing": awaiting a free port; "stopping": the 2 s between SIGTERM and
\* SIGKILL; "sweeping": awaiting lsof; "cleaning": removing temporary files;
\* "waiting": for the ports of a killed process; "saving": awaiting the file
\* before the start; "config", "starting": startSandbox; "settling": awaiting
\* the file at the end; "lost": the gateway crashed.
Op == [kind   : {"none", "create", "delete", "reset"},
       stage  : {"none", "probing", "stopping", "sweeping", "cleaning", "waiting",
                 "saving", "config", "starting", "settling", "done", "lost"},
       id     : Ops \cup {None},
       object : Ops \cup {None},     \* the state object it works on, in memory
       pid    : Ops \cup {None},     \* the process it is going to kill
       port   : Ports \cup {None},
       probe  : SUBSET Ports]        \* ports still to be probed

NoOp == [kind |-> "none", stage |-> "none", id |-> None, object |-> None,
         pid |-> None, port |-> None, probe |-> {}]

NewObject(port) == [port |-> port, status |-> "provisioning", handle |-> None]

Init ==
  /\ registry = [n \in Ops |-> None]
  /\ object = [n \in Ops |-> NewObject(None)]
  /\ op = [n \in Ops |-> NoOp]
  /\ process = [n \in Ops |-> "none"]
  /\ file = {}
  /\ writes = [n \in Ops |-> NoWrite]
  /\ disturbed = FALSE
  /\ exits = 0 /\ crashes = 0

-----------------------------------------------------------------------------
Registered == {id \in Ops : registry[id] # None}

Busy(n) == op[n].stage \notin {"none", "done", "lost"}

Living(p) == process[p] \in {"starting", "serving"}

\* A process that ends: its "exit" event waits for the handler, if the gateway
\* that spawned it still runs.
Ended(p) == IF op[p].object = None THEN "gone" ELSE "exited"

\* A process listens on the port.
Bound(port) == \E p \in Ops : process[p] = "serving" /\ op[p].port = port

IsNext(n) == op[n].stage = "none" /\ \A m \in 1..(n - 1) : op[m].stage # "none"

Stage(n, stage) == op' = [op EXCEPT ![n].stage = stage]

SnapshotOfObjects(reg, obj) ==                     \* mutant: all objects
  {<<id, obj[id].port>> : id \in Ops}

\* What persistSandboxes writes when reg is the registry and obj its objects.
Snapshot(reg, obj) ==
  {<<id, obj[reg[id]].port>> : id \in {i \in Ops : reg[i] # None}}

PersistOldSandboxes(n) ==                          \* mutant: saves too early
  /\ writes' = [writes EXCEPT ![n] = Snapshot(registry, object)]
  /\ disturbed' = (disturbed \/ \E m \in Ops : writes[m] # NoWrite)

\* persistSandboxes: the snapshot is taken at once and written later.
PersistSandboxes(n) ==
  /\ writes' = [writes EXCEPT ![n] = Snapshot(registry', object')]
  /\ disturbed' = (disturbed \/ \E m \in Ops : writes[m] # NoWrite)

-----------------------------------------------------------------------------
(***************************************************************************)
(* createSandbox.                                                          *)
(***************************************************************************)

PortsOfRunning ==                                  \* mutant: running ones
  {object[registry[id]].port :
     id \in {i \in Registered : object[registry[i]].status = "running"}}

UsedPorts == {object[registry[id]].port : id \in Registered}

CreateAtLimit(n) ==                                \* mutant: > for >=
  /\ IsNext(n)
  /\ Cardinality(Registered) <= MaxSandboxes
  /\ Ports \ UsedPorts # {}
  /\ op' = [op EXCEPT ![n] = [NoOp EXCEPT !.kind = "create", !.stage = "probing",
                                          !.id = n, !.probe = Ports \ UsedPorts]]
  /\ disturbed' = (disturbed \/ \E m \in Ops : op[m].stage = "probing")
  /\ UNCHANGED <<registry, object, process, file, writes, bounds>>

\* Below the limit, the search for a port begins with the ports that no
\* sandbox uses now.  (429 and 503 leave no trace.)
CreateRequest(n) ==
  /\ IsNext(n)
  /\ Cardinality(Registered) < MaxSandboxes
  /\ Ports \ UsedPorts # {}
  /\ op' = [op EXCEPT ![n] = [NoOp EXCEPT !.kind = "create", !.stage = "probing",
                                          !.id = n, !.probe = Ports \ UsedPorts]]
  /\ disturbed' = (disturbed \/ \E m \in Ops : op[m].stage = "probing")
  /\ UNCHANGED <<registry, object, process, file, writes, bounds>>

\* The lowest port left turns out to be taken, or becomes the sandbox's.
Probe(n) ==
  \E port \in op[n].probe :
    /\ op[n].stage = "probing"
    /\ \A other \in op[n].probe : port <= other
    /\ IF Bound(port)
       THEN /\ op' = [op EXCEPT ![n].probe = @ \ {port},
                                ![n].stage = IF op[n].probe = {port}
                                             THEN "done" ELSE "probing"]
            /\ UNCHANGED <<registry, object, writes, disturbed>>
       ELSE /\ op' = [op EXCEPT ![n].stage = "saving", ![n].port = port,
                                ![n].probe = {}]
            /\ object' = [object EXCEPT ![n] = NewObject(port)]
            /\ registry' = [registry EXCEPT ![n] = n]
            /\ PersistSandboxes(n)
    /\ UNCHANGED <<process, file, bounds>>

-----------------------------------------------------------------------------
(***************************************************************************)
(* startSandbox.                                                           *)
(***************************************************************************)

\* startSandbox looks its sandbox up once.
StartSandbox(n) ==
  LET o == registry[op[n].id] IN
  IF o = None THEN Stage(n, "done")
  ELSE op' = [op EXCEPT ![n].object = o, ![n].stage = "config"]

\* A snapshot reaches the file; snapshots may do so in any order.  The
\* operation goes on.
Persisted(n) ==
  /\ writes[n] # NoWrite
  /\ file' = writes[n]
  /\ writes' = [writes EXCEPT ![n] = NoWrite]
  /\ IF op[n].stage = "saving" THEN StartSandbox(n) ELSE Stage(n, "done")
  /\ UNCHANGED <<registry, object, process, disturbed, bounds>>

\* The configuration has been written and the process is spawned.
Spawn(n) ==
  /\ op[n].stage = "config"
  /\ process' = [process EXCEPT ![n] = "starting"]
  /\ object' = [object EXCEPT ![op[n].object].handle = n]
  /\ Stage(n, "starting")
  /\ UNCHANGED <<registry, file, writes, disturbed, bounds>>

\* The health check finds somebody serving on the port.
Ready(n) ==
  /\ op[n].stage = "starting"
  /\ Bound(op[n].port)
  /\ object' = [object EXCEPT ![op[n].object].status = "running"]
  /\ UNCHANGED registry
  /\ PersistSandboxes(n)
  /\ Stage(n, "settling")
  /\ UNCHANGED <<process, file, bounds>>

StartFailsSilently(n) ==                           \* mutant: no status
  /\ op[n].stage \in {"config", "starting"}
  /\ Stage(n, "done")
  /\ UNCHANGED <<registry, object, process, file, writes, disturbed, bounds>>

\* The configuration cannot be written, or 60 s pass.  The catch of
\* startSandbox marks the object it started, the caller's catch the object
\* that is registered now.
StartFails(n) ==
  LET current == registry[op[n].id] IN
  /\ op[n].stage \in {"config", "starting"}
  /\ object' = [o \in Ops |-> IF o \in {op[n].object, current}
                              THEN [object[o] EXCEPT !.status = "error"]
                              ELSE object[o]]
  /\ UNCHANGED registry
  /\ IF current = None THEN Stage(n, "done") /\ UNCHANGED <<writes, disturbed>>
     ELSE PersistSandboxes(n) /\ Stage(n, "settling")
  /\ UNCHANGED <<process, file, bounds>>

-----------------------------------------------------------------------------
(***************************************************************************)
(* deleteSandbox and resetSandbox.                                         *)
(***************************************************************************)

\* The sandbox is looked up.  If its process is known it gets a SIGTERM.
StopRequest(n, kind, id) ==
  LET o == registry[id] IN
  /\ IsNext(n)
  /\ o # None
  /\ op' = [op EXCEPT ![n] =
       [kind |-> kind, id |-> id, object |-> o, pid |-> object[o].handle,
        stage |-> IF object[o].handle = None THEN "sweeping" ELSE "stopping",
        port |-> object[o].port, probe |-> {}]]
  /\ object' = IF kind = "reset" THEN [object EXCEPT ![o].status = "stopped"]
               ELSE object
  /\ disturbed' = (disturbed \/ \E m \in Ops : Busy(m) /\ op[m].id = id)
  /\ UNCHANGED <<registry, process, file, writes, bounds>>

\* The processes of a set that live are killed.
Kill(victims) ==
  process' = [p \in Ops |-> IF p \in victims /\ Living(p) THEN Ended(p)
                            ELSE process[p]]

KillNothing(n) ==                                  \* mutant: no SIGKILL
  /\ op[n].stage = "stopping"
  /\ UNCHANGED process
  /\ Stage(n, "sweeping")
  /\ UNCHANGED <<registry, object, file, writes, disturbed, bounds>>

\* 2 s later: SIGKILL.
KillHandle(n) ==
  /\ op[n].stage = "stopping"
  /\ Kill({op[n].pid, object[op[n].object].handle})
  /\ Stage(n, "sweeping")
  /\ UNCHANGED <<registry, object, file, writes, disturbed, bounds>>

\* Whatever serves the port is killed.  lsof lists those connected to it as
\* well: a gateway that is connected to a sandbox that outlived KillHandle, a
\* restored one, kills itself here.  That is a Restart in this stage or in the
\* next one, which the model takes at any time.
Sweep(n) ==
  /\ op[n].stage = "sweeping"
  /\ Kill({p \in Ops : process[p] = "serving" /\ op[p].port = op[n].port})
  /\ Stage(n, "cleaning")
  /\ UNCHANGED <<registry, object, file, writes, disturbed, bounds>>

DeleteUnsaved(n) ==                                \* mutant: no persist
  /\ op[n].stage = "cleaning"
  /\ IF op[n].kind = "delete"
     THEN registry' = [registry EXCEPT ![op[n].id] = None] /\ Stage(n, "done")
     ELSE Stage(n, "waiting") /\ UNCHANGED registry
  /\ UNCHANGED <<object, process, file, writes, disturbed, bounds>>

\* The temporary files have been removed: a deleted sandbox leaves the
\* registry, a reset waits for its ports.
Cleaned(n) ==
  /\ op[n].stage = "cleaning"
  /\ IF op[n].kind = "delete"
     THEN /\ registry' = [registry EXCEPT ![op[n].id] = None]
          /\ UNCHANGED object
          /\ PersistSandboxes(n)
          /\ Stage(n, "settling")
     ELSE /\ Stage(n, "waiting")
          /\ UNCHANGED <<registry, object, writes, disturbed>>
  /\ UNCHANGED <<process, file, bounds>>

\* The ports are free, or 15 s have passed: a new object is registered,
\* whatever is registered by now.
Reinstall(n) ==
  /\ op[n].stage = "waiting"
  /\ object' = [object EXCEPT ![n] = NewObject(op[n].port)]
  /\ registry' = [registry EXCEPT ![op[n].id] = n]
  /\ PersistSandboxes(n)
  /\ Stage(n, "saving")
  /\ UNCHANGED <<process, file, bounds>>

-----------------------------------------------------------------------------
(***************************************************************************)
(* The processes.  They are detached: a crash of the gateway leaves them.  *)
(***************************************************************************)

\* Canton binds its ports, or exits because they are taken.
Bind(p) ==
  /\ process[p] = "starting"
  /\ process' = [process EXCEPT ![p] = IF Bound(op[p].port) THEN Ended(p)
                                       ELSE "serving"]
  /\ UNCHANGED <<registry, object, op, file, writes, disturbed, bounds>>

\* SIGTERM has been sent and SIGKILL has not.
Terminated(p) == \E n \in Ops : op[n].stage = "stopping" /\ op[n].pid = p

Exit(p) ==
  /\ Living(p)
  /\ \/ Terminated(p) /\ UNCHANGED exits
     \/ exits < MaxExits /\ exits' = exits + 1
  /\ process' = [process EXCEPT ![p] = Ended(p)]
  /\ UNCHANGED <<registry, object, op, file, writes, disturbed, crashes>>

BlameCurrent(p) ==                                 \* mutant: a fresh lookup
  LET o == registry[op[p].id] IN
  IF o # None /\ object[o].status # "stopped"
  THEN [object EXCEPT ![o].status = "error"] ELSE object

\* The "exit" handler with an exit code other than 0: it marks the object
\* the process was started for.
Blame(p) ==
  LET o == op[p].object IN
  IF object[o].status # "stopped" THEN [object EXCEPT ![o].status = "error"]
  ELSE object

ExitEvent(p) ==
  /\ process[p] = "exited"
  /\ process' = [process EXCEPT ![p] = "gone"]
  /\ object' \in {object, Blame(p)}
  /\ UNCHANGED <<registry, op, file, writes, disturbed, bounds>>

-----------------------------------------------------------------------------
(***************************************************************************)
(* The gateway crashes and starts again.                                   *)
(***************************************************************************)

\* restoreSandboxes: the health check tells whether a sandbox still runs.
Restored(f) ==
  [n \in Ops |-> IF \E port \in Ports : <<n, port>> \in f
                 THEN LET port == CHOOSE q \in Ports : <<n, q>> \in f IN
                      [port |-> port, handle |-> None,
                       status |-> IF Bound(port) THEN "running" ELSE "stopped"]
                 ELSE NewObject(None)]

\* A crash during a write may leave the file truncated, which reads as empty.
Restart ==
  \E f \in {file} \cup (IF \A n \in Ops : writes[n] = NoWrite THEN {} ELSE {{}}) :
    /\ crashes < MaxCrashes
    /\ crashes' = crashes + 1
    /\ file' = f
    /\ registry' = [n \in Ops |-> IF \E port \in Ports : <<n, port>> \in f
                                  THEN n ELSE None]
    /\ object' = Restored(f)
    /\ writes' = [n \in Ops |-> NoWrite]
    /\ op' = [n \in Ops |-> [op[n] EXCEPT !.object = None,
                                          !.stage = IF Busy(n) THEN "lost" ELSE @]]
    /\ process' = [p \in Ops |-> IF process[p] = "exited" THEN "gone"
                                 ELSE process[p]]
    /\ disturbed' = (\/ disturbed
                     \/ \E n \in Ops : Busy(n) \/ process[n] = "starting")
    /\ UNCHANGED exits

Next ==
  \/ \E n \in Ops : CreateRequest(n)
  \/ \E n \in Ops : Probe(n)
  \/ \E n \in Ops : Persisted(n)
  \/ \E n \in Ops : Spawn(n)
  \/ \E n \in Ops : Ready(n)
  \/ \E n \in Ops : StartFails(n)
  \/ \E n, id \in Ops, kind \in {"delete", "reset"} : StopRequest(n, kind, id)
  \/ \E n \in Ops : KillHandle(n)
  \/ \E n \in Ops : Sweep(n)
  \/ \E n \in Ops : Cleaned(n)
  \/ \E n \in Ops : Reinstall(n)
  \/ \E p \in Ops : Bind(p)
  \/ \E p \in Ops : Exit(p)
  \/ \E p \in Ops : ExitEvent(p)
  \/ Restart

Spec == Init /\ [][Next]_vars

\* Every await of an operation ends: probes, file writes, timers and child
\* processes end, and the readiness loop by its timeout at the latest.
Fairness ==
  \A n \in Ops :
    /\ WF_vars(Probe(n))
    /\ WF_vars(Persisted(n))
    /\ WF_vars(Spawn(n) \/ StartFails(n))
    /\ WF_vars(Ready(n) \/ StartFails(n))
    /\ WF_vars(KillHandle(n) \/ Sweep(n) \/ Cleaned(n) \/ Reinstall(n))

FairSpec == Spec /\ Fairness

-----------------------------------------------------------------------------
(***************************************************************************)
(* Properties.  Those that start with ~disturbed hold as long as requests  *)
(* on one sandbox, searches for a port, and writes of the file do not      *)
(* overlap, and the gateway crashes only while no operation is under way   *)
(* and no process is starting.                                             *)
(***************************************************************************)

\* The states the conditional properties speak of.
Undisturbed == ~disturbed

\* Every variable has its type.
TypeOK ==
  /\ registry \in [Ops -> Ops \cup {None}]
  /\ object \in [Ops -> Object]
  /\ op \in [Ops -> Op]
  /\ process \in [Ops -> {"none", "starting", "serving", "exited", "gone"}]
  /\ file \in Snapshots
  /\ writes \in [Ops -> Snapshots \cup {NoWrite}]
  /\ disturbed \in BOOLEAN
  /\ exits \in 0..MaxExits /\ crashes \in 0..MaxCrashes

\* Sandboxes keep the limit and to their own ports through creations, resets and
\* restarts, though the limit is tested and a port chosen from a registry read
\* some awaits before the sandbox is registered: no two share a port, so that
\* stopping one by its port never kills the other.
SlotsKept ==
  ~disturbed =>
    /\ Cardinality(Registered) <= MaxSandboxes
    /\ \A a, b \in Registered :
         object[registry[a]].port = object[registry[b]].port => a = b

\* Deletions and creations are for good: a sandbox that was deleted does not
\* come back, neither by an operation that was under way nor from the file, and
\* when no operation is under way the file holds what the registry holds, for
\* a restart to find.
RegistryDurable ==
  ~disturbed =>
    /\ \A n \in Ops : op[n].kind = "delete" /\ op[n].stage = "done" =>
         registry[op[n].id] = None
    /\ (\A n \in Ops : ~Busy(n)) => file = Snapshot(registry, object)

\* A living process belongs to a registered sandbox, which has no other:
\* nothing leaks through failed starts, resets, deletions and restarts that
\* lose the process handles.
ProcessesOwned ==
  ~disturbed => \A p \in Ops : Living(p) =>
    /\ op[p].id \in Registered
    /\ \A q \in Ops : Living(q) /\ op[q].id = op[p].id => q = p

\* A running sandbox is declared failed only because its own process exited:
\* not by the exit of the process it replaced, nor by an old start that
\* times out.
FailsOnItsOwn ==
  [][~disturbed' => \A id \in Registered :
       LET o == registry[id] IN
       registry'[id] = o /\ object[o].status = "running"
         /\ object'[o].status = "error"
       => process[object[o].handle] = "exited"]_vars

\* No sandbox stays in provisioning: it is running, failed, stopped or gone
\* in the end, whatever is deleted, reset or restarted meanwhile.
ProvisioningEnds ==
  \A id \in Ops :
    (id \in Registered /\ object[registry[id]].status = "provisioning") ~>
      (id \notin Registered \/ object[registry[id]].status # "provisioning")

\* Deleting a sandbox cleans up its resources (sandbox-manager.ts:396): when
\* the deletion has been answered, no process of it lives.
DeleteCleansUp ==
  \A n, p \in Ops :
    op[n].kind = "delete" /\ op[n].stage = "done" /\ op[p].id = op[n].id
      => ~Living(p)

-----------------------------------------------------------------------------
(***************************************************************************)
(* The inductive invariants behind the safety properties: first what holds *)
(* whatever overlaps, then what holds as long as nothing has.              *)
(***************************************************************************)

\* The stages that stop an old process, and those that start a new one.
Stopping == {"stopping", "sweeping", "cleaning", "waiting"}
Starting == {"saving", "config", "starting"}

\* What a request knows at each of its stages, and when it has a process.
RequestInv(n) ==
  /\ op[n].stage = "none" => op[n].kind = "none"
  /\ op[n].stage # "none" => op[n].kind # "none" /\ op[n].id \in Ops
  /\ op[n].kind = "create" => op[n].id = n
  /\ op[n].stage = "probing" => op[n].kind = "create"
  /\ op[n].stage \in Stopping =>
       op[n].kind \in {"delete", "reset"} /\ op[n].object \in Ops
  /\ op[n].stage = "waiting" => op[n].kind = "reset"
  /\ op[n].stage \in Starting => op[n].kind \in {"create", "reset"}
  /\ op[n].stage \in Stopping \cup Starting => op[n].port \in Ports
  /\ op[n].stage \in {"config", "starting"} => op[n].object \in Ops
  /\ writes[n] # NoWrite <=> op[n].stage \in {"saving", "settling"}
  /\ process[n] # "none" =>
       /\ op[n].stage \in {"starting", "settling", "done", "lost"}
       /\ op[n].kind \in {"create", "reset"} /\ op[n].port \in Ports
  /\ process[n] = "exited" => op[n].object \in Ops

\* A registered sandbox has its ports, and a port has one process.
ShapeInv ==
  /\ \A n \in Ops : RequestInv(n)
  /\ \A id \in Registered : object[registry[id]].port \in Ports
  /\ \A p, q \in Ops :
       process[p] = "serving" /\ process[q] = "serving"
         /\ op[p].port = op[q].port => p = q

\* At most one request at a time searches for a port or works on a sandbox,
\* and a sandbox is registered, with an object of its own, only once the
\* request that creates it has found a port.
ApartInv ==
  /\ \A m, n \in Ops :
       op[m].stage = "probing" /\ op[n].stage = "probing" => m = n
  /\ \A m, n \in Ops : Busy(m) /\ Busy(n) /\ op[m].id = op[n].id => m = n
  /\ \A id \in Registered :
       /\ op[id].kind = "create" /\ op[id].stage \notin {"none", "probing"}
       /\ op[registry[id]].id = id
       /\ op[registry[id]].stage \notin {"none", "probing"} \cup Stopping
  /\ \A m \in Ops : op[m].stage # "none" /\ op[m].id # m =>
       op[op[m].id].stage \notin {"none", "probing"}

\* How far a request has come with the sandbox it works on.
ProgressInv(n) ==
  /\ op[n].stage = "probing" =>
       Cardinality(Registered) < MaxSandboxes /\ op[n].probe \cap UsedPorts = {}
  /\ op[n].stage \in Stopping =>
       registry[op[n].id] = op[n].object /\ object[op[n].object].port = op[n].port
  /\ op[n].stage \in Starting =>
       /\ registry[op[n].id] = n /\ object[n].port = op[n].port
       /\ object[n].status # "running"
  /\ op[n].stage \in {"config", "starting"} => op[n].object = n
  /\ op[n].kind = "delete" /\ op[n].stage \in {"settling", "done"} =>
       registry[op[n].id] = None
  /\ op[n].stage = "sweeping" => \A p \in Ops :
       Living(p) /\ op[p].id = op[n].id => process[p] = "serving"
  /\ op[n].stage \in {"cleaning", "waiting", "saving", "config"} =>
       \A p \in Ops : Living(p) => op[p].id # op[n].id

\* The file, or the one write under way, holds what the registry holds.
FileInv ==
  /\ (\A n \in Ops : writes[n] = NoWrite) => file = Snapshot(registry, object)
  /\ \A n \in Ops : writes[n] # NoWrite =>
       /\ writes[n] = Snapshot(registry, object)
       /\ \A m \in Ops : writes[m] # NoWrite => m = n

\* A living process serves the sandbox it was spawned for: the object that is
\* registered knows it, or it was restored from the file, and then the process
\* listens.  An exit handler marks the object of its own process.
OwnerInv(p) ==
  /\ Living(p) =>
       LET o == registry[op[p].id] IN
       /\ o # None /\ object[o].port = op[p].port
       /\ \/ object[o].handle = p
          \/ object[o].handle = None /\ process[p] = "serving"
  /\ process[p] \in {"starting", "serving", "exited"} /\ op[p].object # None =>
       op[p].object = p /\ object[p].handle = p

CalmInv ==
  /\ SlotsKept
  /\ ApartInv
  /\ \A n \in Ops : ProgressInv(n) /\ OwnerInv(n)
  /\ FileInv

SandboxInv == ShapeInv /\ (~disturbed => CalmInv)
=============================================================================
