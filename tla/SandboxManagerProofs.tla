------------------------ MODULE SandboxManagerProofs ------------------------
(***************************************************************************)
(* Proofs about SandboxManager for every number of requests, ports and     *)
(* sandboxes, exits and crashes.  First what holds whatever overlaps, then *)
(* what holds as long as nothing has; one lemma per action each time.      *)
(***************************************************************************)
EXTENDS SandboxManager, FiniteSetTheorems, TLAPS

\* None is no operation and no port, and NoWrite is no snapshot.
LEMMA Nothing ==
  /\ None \notin Ops /\ None \notin Ports
  /\ NoWrite \notin Snapshots /\ NoWrite # {}
<1>1. None \notin Ops /\ None \notin Ports
  BY ConstantsOK DEF Ops, None
<1>2. QED
  BY <1>1 DEF NoWrite, Snapshots

\* An operation that moves on to another stage.
LEMMA StageFacts ==
  ASSUME TypeOK, NEW n \in Ops, NEW st \in
           {"none", "probing", "stopping", "sweeping", "cleaning", "waiting",
            "saving", "config", "starting", "settling", "done", "lost"},
         Stage(n, st)
  PROVE  /\ op' \in [Ops -> Op]
         /\ op'[n] = [op[n] EXCEPT !.stage = st]
         /\ op'[n].kind = op[n].kind /\ op'[n].stage = st
         /\ op'[n].id = op[n].id /\ op'[n].object = op[n].object
         /\ op'[n].port = op[n].port /\ op'[n].probe = op[n].probe
         /\ \A m \in Ops : m # n => op'[m] = op[m]
<1>1. op \in [Ops -> Op] /\ op[n] \in Op
  BY DEF TypeOK
<1>2. op' = [op EXCEPT ![n] = [op[n] EXCEPT !.stage = st]]
  BY <1>1 DEF Stage
<1>3. [op[n] EXCEPT !.stage = st] \in Op
  BY <1>1 DEF Op
<1>4. QED
  BY <1>1, <1>2, <1>3 DEF Op

\* What is written to the file: registered sandboxes with their ports.
LEMMA SnapshotType ==
  ASSUME NEW reg \in [Ops -> Ops \cup {None}], NEW obj \in [Ops -> Object],
         \A id \in Ops : reg[id] # None => obj[reg[id]].port \in Ports
  PROVE  Snapshot(reg, obj) \in Snapshots
BY DEF Snapshot, Snapshots

LEMMA PersistFacts ==
  ASSUME TypeOK, NEW n \in Ops, PersistSandboxes(n),
         registry' \in [Ops -> Ops \cup {None}], object' \in [Ops -> Object],
         \A id \in Ops : registry'[id] # None => object'[registry'[id]].port \in Ports
  PROVE  /\ writes' \in [Ops -> Snapshots \cup {NoWrite}]
         /\ writes'[n] = Snapshot(registry', object') /\ writes'[n] # NoWrite
         /\ \A m \in Ops : m # n => writes'[m] = writes[m]
         /\ disturbed' \in BOOLEAN /\ (disturbed => disturbed')
         /\ ~disturbed' => \A m \in Ops : writes[m] = NoWrite
<1>1. Snapshot(registry', object') \in Snapshots
  BY SnapshotType
<1>2. QED
  BY <1>1, Nothing DEF PersistSandboxes, TypeOK

LEMMA NewObjectType ==
  ASSUME NEW port \in Ports \cup {None}
  PROVE  /\ NewObject(port) \in Object /\ NewObject(port).port = port
         /\ NewObject(port).status = "provisioning"
         /\ NewObject(port).handle = None
BY DEF NewObject, Object

-----------------------------------------------------------------------------
(***************************************************************************)
(* Types and shapes: what holds whatever overlaps.                         *)
(***************************************************************************)

\* In a step, process p stays as it is or ends.
StaysOrEnds(p) ==
  process'[p] = process[p] \/ (Living(p) /\ process'[p] = Ended(p))

\* Requests other than n are left alone, and no process starts or serves anew.
LEMMA ShapeKept ==
  ASSUME TypeOK, ShapeInv, NEW n \in Ops, RequestInv(n)',
         \A m \in Ops : m # n => /\ op'[m] = op[m] /\ writes'[m] = writes[m]
                                 /\ StaysOrEnds(m),
         op'[n].port = op[n].port \/ process'[n] # "serving",
         process'[n] = "serving" => process[n] = "serving",
         \A id \in Ops : registry'[id] # None =>
           object'[registry'[id]].port \in Ports
  PROVE  ShapeInv'
<1>0. ASSUME NEW m \in Ops, m # n
      PROVE  /\ process[m] # "none" <=> process'[m] # "none"
             /\ process'[m] = "serving" => process[m] = "serving"
             /\ process'[m] = "exited" => process[m] = "exited" \/ op[m].object # None
  BY <1>0 DEF StaysOrEnds, Living, Ended
<1>1. \A m \in Ops : RequestInv(m)'
  <2> SUFFICES ASSUME NEW m \in Ops, m # n PROVE RequestInv(m)'
    OBVIOUS
  <2>1. RequestInv(m) /\ op'[m] = op[m] /\ writes'[m] = writes[m]
    BY DEF ShapeInv
  <2>2. op[m].object # None => op[m].object \in Ops
    BY DEF TypeOK, Op
  <2>3. QED
    BY <1>0, <2>1, <2>2 DEF RequestInv
<1>2. \A id \in Registered' : object'[registry'[id]].port \in Ports
  BY DEF Registered
<1>3. \A p, q \in Ops :
        process'[p] = "serving" /\ process'[q] = "serving"
          /\ op'[p].port = op'[q].port => p = q
  BY <1>0 DEF ShapeInv
<1>4. QED
  BY <1>1, <1>2, <1>3 DEF ShapeInv

LEMMA CreateRequestShape ==
  ASSUME TypeOK, ShapeInv, NEW n \in Ops, CreateRequest(n)
  PROVE  TypeOK' /\ ShapeInv'
<1> DEFINE r == [NoOp EXCEPT !.kind = "create", !.stage = "probing",
                             !.id = n, !.probe = Ports \ UsedPorts]
<1>1. /\ r \in Op /\ r.kind = "create" /\ r.stage = "probing" /\ r.id = n
      /\ r.object = None /\ r.port = None /\ r.probe = Ports \ UsedPorts
  BY DEF NoOp, Op
<1>2. /\ op' = [op EXCEPT ![n] = r] /\ op[n].stage = "none"
      /\ disturbed' \in BOOLEAN
      /\ UNCHANGED <<registry, object, process, file, writes, bounds>>
  BY DEF CreateRequest, IsNext, TypeOK
<1> HIDE DEF r
<1>3. TypeOK'
  BY <1>1, <1>2 DEF TypeOK, bounds
<1>4. op'[n] = r /\ \A m \in Ops : m # n => op'[m] = op[m]
  BY <1>2 DEF TypeOK
<1>5. RequestInv(n)'
  BY <1>1, <1>2, <1>4 DEF ShapeInv, RequestInv, Stopping, Starting
<1>6. process'[n] = "none"
  BY <1>2 DEF ShapeInv, RequestInv, TypeOK
<1>7. QED
  BY <1>2, <1>3, <1>4, <1>5, <1>6, ShapeKept DEF ShapeInv, Registered, StaysOrEnds

LEMMA ProbeShape ==
  ASSUME TypeOK, ShapeInv, NEW n \in Ops, Probe(n)
  PROVE  TypeOK' /\ ShapeInv'
<1>1. PICK port \in op[n].probe :
        /\ op[n].stage = "probing"
        /\ IF Bound(port)
           THEN /\ op' = [op EXCEPT ![n].probe = @ \ {port},
                                    ![n].stage = IF op[n].probe = {port}
                                                 THEN "done" ELSE "probing"]
                /\ UNCHANGED <<registry, object, writes, disturbed>>
           ELSE /\ op' = [op EXCEPT ![n].stage = "saving", ![n].port = port,
                                    ![n].probe = {}]
                /\ object' = [object EXCEPT ![n] = NewObject(port)]
                /\ registry' = [registry EXCEPT ![n] = n]
                /\ PersistSandboxes(n)
        /\ UNCHANGED <<process, file, bounds>>
  BY DEF Probe
<1>2. op[n] \in Op /\ port \in Ports
  BY <1>1 DEF TypeOK, Op
<1>3. /\ op[n].kind = "create" /\ op[n].id = n /\ process[n] = "none"
      /\ writes[n] = NoWrite
  BY <1>1 DEF ShapeInv, RequestInv, TypeOK
<1>4. CASE Bound(port)
  <2> DEFINE st == IF op[n].probe = {port} THEN "done" ELSE "probing"
             r == [op[n] EXCEPT !.probe = @ \ {port}, !.stage = st]
  <2>1. /\ r \in Op /\ r.kind = "create" /\ r.stage = st /\ r.id = n
        /\ r.object = op[n].object /\ r.port = op[n].port
    BY <1>2, <1>3 DEF Op
  <2>2. op' = [op EXCEPT ![n] = r]
    BY <1>1, <1>4 DEF TypeOK
  <2>3. st \in {"done", "probing"}
    OBVIOUS
  <2> HIDE DEF r, st
  <2>4. op'[n] = r /\ \A m \in Ops : m # n => op'[m] = op[m]
    BY <2>2 DEF TypeOK
  <2>5. TypeOK'
    BY <1>1, <1>4, <2>1, <2>2 DEF TypeOK, bounds
  <2>6. RequestInv(n)'
    BY <1>1, <1>3, <1>4, <2>1, <2>3, <2>4 DEF RequestInv, Stopping, Starting
  <2>7. QED
    BY <1>1, <1>3, <1>4, <2>4, <2>5, <2>6, ShapeKept DEF ShapeInv, Registered, StaysOrEnds
<1>5. CASE ~Bound(port)
  <2> DEFINE r == [op[n] EXCEPT !.stage = "saving", !.port = port, !.probe = {}]
  <2>1. /\ r \in Op /\ r.kind = "create" /\ r.stage = "saving" /\ r.id = n
        /\ r.object = op[n].object /\ r.port = port
    BY <1>2, <1>3 DEF Op
  <2>2. op' = [op EXCEPT ![n] = r]
    BY <1>1, <1>5 DEF TypeOK
  <2> HIDE DEF r
  <2>3. op'[n] = r /\ \A m \in Ops : m # n => op'[m] = op[m]
    BY <2>2 DEF TypeOK
  <2>4. /\ registry' \in [Ops -> Ops \cup {None}]
        /\ object' \in [Ops -> Object]
        /\ \A id \in Ops : registry'[id] # None =>
             object'[registry'[id]].port \in Ports
    BY <1>1, <1>2, <1>5, NewObjectType DEF TypeOK, ShapeInv, Registered
  <2>5. /\ writes' \in [Ops -> Snapshots \cup {NoWrite}]
        /\ writes'[n] # NoWrite /\ disturbed' \in BOOLEAN
        /\ \A m \in Ops : m # n => writes'[m] = writes[m]
    BY <1>1, <1>5, <2>4, PersistFacts
  <2>6. TypeOK'
    BY <1>1, <2>1, <2>2, <2>4, <2>5 DEF TypeOK, bounds
  <2>7. RequestInv(n)'
    BY <1>1, <1>2, <1>3, <2>1, <2>3, <2>5 DEF RequestInv, Stopping, Starting
  <2>8. QED
    BY <1>1, <1>3, <2>3, <2>4, <2>5, <2>6, <2>7, ShapeKept DEF StaysOrEnds
<1>6. QED
  BY <1>4, <1>5

LEMMA PersistedShape ==
  ASSUME TypeOK, ShapeInv, NEW n \in Ops, Persisted(n)
  PROVE  TypeOK' /\ ShapeInv'
<1>1. /\ writes[n] # NoWrite /\ file' = writes[n]
      /\ writes' = [writes EXCEPT ![n] = NoWrite]
      /\ UNCHANGED <<registry, object, process, disturbed, bounds>>
  BY DEF Persisted
<1>2. /\ op[n].stage \in {"saving", "settling"} /\ op[n].id \in Ops
      /\ op[n] \in Op
  BY <1>1 DEF ShapeInv, RequestInv, TypeOK
<1> DEFINE o == registry[op[n].id]
           started == op[n].stage = "saving" /\ o # None
<1>3. CASE started
  <2> DEFINE r == [op[n] EXCEPT !.object = o, !.stage = "config"]
  <2>1. op' = [op EXCEPT ![n] = r]
    BY <1>3 DEF Persisted, StartSandbox, TypeOK
  <2>2. o \in Ops
    BY <1>2, <1>3 DEF TypeOK
  <2>3. /\ r \in Op /\ r.kind = op[n].kind /\ r.stage = "config"
        /\ r.id = op[n].id /\ r.object = o /\ r.port = op[n].port
    BY <1>2, <2>2 DEF Op
  <2> HIDE DEF r, o
  <2>4. op'[n] = r /\ \A m \in Ops : m # n => op'[m] = op[m]
    BY <2>1 DEF TypeOK
  <2>5. TypeOK'
    BY <1>1, <2>1, <2>3 DEF TypeOK, bounds
  <2>6. RequestInv(n)'
    BY <1>1, <1>2, <1>3, <2>2, <2>3, <2>4
       DEF ShapeInv, RequestInv, Stopping, Starting, TypeOK
  <2>7. QED
    BY <1>1, <2>3, <2>4, <2>5, <2>6, ShapeKept
       DEF ShapeInv, Registered, StaysOrEnds, TypeOK
<1>4. CASE ~started
  <2>1. Stage(n, "done")
    BY <1>4 DEF Persisted, StartSandbox
  <2>2. TypeOK'
    BY <1>1, <2>1, StageFacts DEF TypeOK, bounds
  <2>3. RequestInv(n)'
    <3>1. /\ op'[n].stage = "done" /\ op'[n].kind = op[n].kind
          /\ op'[n].id = op[n].id /\ op'[n].object = op[n].object
          /\ op'[n].port = op[n].port
          /\ writes'[n] = NoWrite /\ process'[n] = process[n]
      BY <1>1, <2>1, StageFacts DEF TypeOK
    <3>2. RequestInv(n)
      BY DEF ShapeInv
    <3>3. QED
      BY <1>2, <3>1, <3>2 DEF RequestInv, Stopping, Starting
  <2>4. QED
    BY <1>1, <2>1, <2>2, <2>3, StageFacts, ShapeKept
       DEF ShapeInv, Registered, StaysOrEnds, TypeOK
<1>5. QED
  BY <1>3, <1>4

LEMMA SpawnShape ==
  ASSUME TypeOK, ShapeInv, NEW n \in Ops, Spawn(n)
  PROVE  TypeOK' /\ ShapeInv'
<1>1. /\ op[n].stage = "config" /\ Stage(n, "starting")
      /\ process' = [process EXCEPT ![n] = "starting"]
      /\ object' = [object EXCEPT ![op[n].object].handle = n]
      /\ UNCHANGED <<registry, file, writes, disturbed, bounds>>
  BY DEF Spawn
<1>2. RequestInv(n) /\ op[n].object \in Ops
  BY <1>1 DEF ShapeInv, RequestInv
<1>3. object' = [object EXCEPT ![op[n].object] =
                   [object[op[n].object] EXCEPT !.handle = n]]
  BY <1>1, <1>2 DEF TypeOK
<1>4. /\ object' \in [Ops -> Object]
      /\ \A o \in Ops : object'[o].port = object[o].port
  BY <1>2, <1>3 DEF TypeOK, Object
<1>5. TypeOK'
  BY <1>1, <1>4, StageFacts DEF TypeOK, bounds
<1>6. /\ op'[n].stage = "starting" /\ op'[n].kind = op[n].kind
      /\ op'[n].id = op[n].id /\ op'[n].object = op[n].object
      /\ op'[n].port = op[n].port
      /\ writes'[n] = writes[n] /\ process'[n] = "starting"
      /\ \A m \in Ops : m # n => op'[m] = op[m] /\ process'[m] = process[m]
  BY <1>1, StageFacts DEF TypeOK
<1>7. RequestInv(n)'
  BY <1>1, <1>2, <1>6 DEF RequestInv, Stopping, Starting
<1>8. QED
  BY <1>1, <1>4, <1>5, <1>6, <1>7, ShapeKept
     DEF ShapeInv, Registered, StaysOrEnds, TypeOK

LEMMA ReadyShape ==
  ASSUME TypeOK, ShapeInv, NEW n \in Ops, Ready(n)
  PROVE  TypeOK' /\ ShapeInv'
<1>1. /\ op[n].stage = "starting" /\ Stage(n, "settling") /\ PersistSandboxes(n)
      /\ object' = [object EXCEPT ![op[n].object].status = "running"]
      /\ UNCHANGED <<registry, process, file, bounds>>
  BY DEF Ready
<1>2. RequestInv(n) /\ op[n].object \in Ops
  BY <1>1 DEF ShapeInv, RequestInv
<1>3. object' = [object EXCEPT ![op[n].object] =
                   [object[op[n].object] EXCEPT !.status = "running"]]
  BY <1>1, <1>2 DEF TypeOK
<1>4. /\ object' \in [Ops -> Object]
      /\ \A o \in Ops : object'[o].port = object[o].port
  BY <1>2, <1>3 DEF TypeOK, Object
<1>5. \A id \in Ops : registry'[id] # None => object'[registry'[id]].port \in Ports
  BY <1>1, <1>4 DEF ShapeInv, Registered, TypeOK
<1>6. /\ writes' \in [Ops -> Snapshots \cup {NoWrite}] /\ disturbed' \in BOOLEAN
      /\ writes'[n] # NoWrite /\ \A m \in Ops : m # n => writes'[m] = writes[m]
  BY <1>1, <1>4, <1>5, PersistFacts DEF TypeOK
<1>7. TypeOK'
  BY <1>1, <1>4, <1>6, StageFacts DEF TypeOK, bounds
<1>8. /\ op'[n].stage = "settling" /\ op'[n].kind = op[n].kind
      /\ op'[n].id = op[n].id /\ op'[n].object = op[n].object
      /\ op'[n].port = op[n].port
      /\ \A m \in Ops : m # n => op'[m] = op[m]
  BY <1>1, StageFacts
<1>9. RequestInv(n)'
  BY <1>1, <1>2, <1>6, <1>8 DEF RequestInv, Stopping, Starting
<1>10. QED
  BY <1>1, <1>5, <1>6, <1>7, <1>8, <1>9, ShapeKept DEF StaysOrEnds

LEMMA StartFailsShape ==
  ASSUME TypeOK, ShapeInv, NEW n \in Ops, StartFails(n)
  PROVE  TypeOK' /\ ShapeInv'
<1> DEFINE current == registry[op[n].id]
           st == IF current = None THEN "done" ELSE "settling"
<1>1. /\ op[n].stage \in {"config", "starting"} /\ Stage(n, st)
      /\ object' = [o \in Ops |-> IF o \in {op[n].object, current}
                                  THEN [object[o] EXCEPT !.status = "error"]
                                  ELSE object[o]]
      /\ IF current = None THEN UNCHANGED <<writes, disturbed>>
         ELSE PersistSandboxes(n)
      /\ UNCHANGED <<registry, process, file, bounds>>
  BY DEF StartFails
<1>2. RequestInv(n) /\ writes[n] = NoWrite
  BY <1>1 DEF ShapeInv, RequestInv
<1>3. \A o \in Ops : /\ [object[o] EXCEPT !.status = "error"] \in Object
                     /\ [object[o] EXCEPT !.status = "error"].port = object[o].port
  BY DEF TypeOK, Object
<1>4. /\ object' \in [Ops -> Object]
      /\ \A o \in Ops : object'[o].port = object[o].port
  BY <1>1, <1>3 DEF TypeOK
<1>5. \A id \in Ops : registry'[id] # None => object'[registry'[id]].port \in Ports
  BY <1>1, <1>4 DEF ShapeInv, Registered, TypeOK
<1> HIDE DEF current
<1>6. /\ writes' \in [Ops -> Snapshots \cup {NoWrite}] /\ disturbed' \in BOOLEAN
      /\ writes'[n] = NoWrite <=> current = None
      /\ \A m \in Ops : m # n => writes'[m] = writes[m]
  <2>1. CASE current = None
    BY <1>1, <1>2, <2>1 DEF TypeOK
  <2>2. CASE current # None
    BY <1>1, <1>4, <1>5, <2>2, PersistFacts DEF TypeOK
  <2>3. QED
    BY <2>1, <2>2
<1>7. st \in {"done", "settling"}
  OBVIOUS
<1>8. TypeOK'
  BY <1>1, <1>4, <1>6, <1>7, StageFacts DEF TypeOK, bounds
<1>9. /\ op'[n].stage = st /\ op'[n].kind = op[n].kind
      /\ op'[n].id = op[n].id /\ op'[n].object = op[n].object
      /\ op'[n].port = op[n].port
      /\ \A m \in Ops : m # n => op'[m] = op[m]
  BY <1>1, <1>7, StageFacts
<1>10. RequestInv(n)'
  BY <1>1, <1>2, <1>6, <1>9 DEF RequestInv, Stopping, Starting
<1>11. QED
  BY <1>1, <1>5, <1>6, <1>8, <1>9, <1>10, ShapeKept DEF StaysOrEnds

LEMMA StopRequestShape ==
  ASSUME TypeOK, ShapeInv, NEW n \in Ops, NEW id \in Ops,
         NEW kind \in {"delete", "reset"}, StopRequest(n, kind, id)
  PROVE  TypeOK' /\ ShapeInv'
<1> DEFINE o == registry[id]
           st == IF object[o].handle = None THEN "sweeping" ELSE "stopping"
           r == [kind |-> kind, id |-> id, object |-> o,
                 pid |-> object[o].handle, stage |-> st,
                 port |-> object[o].port, probe |-> {}]
<1>1. /\ op[n].stage = "none" /\ o # None
      /\ op' = [op EXCEPT ![n] = r]
      /\ object' = IF kind = "reset"
                   THEN [object EXCEPT ![o].status = "stopped"] ELSE object
      /\ disturbed' \in BOOLEAN
      /\ UNCHANGED <<registry, process, file, writes, bounds>>
  BY DEF StopRequest, IsNext, TypeOK
<1>2. /\ o \in Ops /\ object[o] \in Object /\ object[o].port \in Ports
      /\ object[o].handle \in Ops \cup {None}
  BY <1>1 DEF TypeOK, Object, ShapeInv, Registered
<1>3. st \in {"sweeping", "stopping"}
  OBVIOUS
<1>4. /\ r \in Op /\ r.kind = kind /\ r.stage = st /\ r.id = id
      /\ r.object = o /\ r.port = object[o].port
  BY <1>2, <1>3 DEF Op
<1>5. /\ object' \in [Ops -> Object]
      /\ \A x \in Ops : object'[x].port = object[x].port
  BY <1>1, <1>2 DEF TypeOK, Object
<1> HIDE DEF r, st, o
<1>6. op'[n] = r /\ \A m \in Ops : m # n => op'[m] = op[m]
  BY <1>1 DEF TypeOK
<1>7. TypeOK'
  BY <1>1, <1>4, <1>5 DEF TypeOK, bounds
<1>8. RequestInv(n) /\ process[n] = "none" /\ writes[n] = NoWrite
  BY <1>1 DEF ShapeInv, RequestInv, TypeOK
<1>9. RequestInv(n)'
  BY <1>1, <1>2, <1>3, <1>4, <1>6, <1>8 DEF RequestInv, Stopping, Starting
<1>10. QED
  BY <1>1, <1>5, <1>6, <1>7, <1>8, <1>9, ShapeKept
     DEF ShapeInv, Registered, StaysOrEnds, TypeOK

\* Killed processes end; the others stay as they are.
LEMMA KillFacts ==
  ASSUME TypeOK, NEW victims, Kill(victims)
  PROVE  /\ process' \in [Ops -> {"none", "starting", "serving", "exited", "gone"}]
         /\ \A p \in Ops : StaysOrEnds(p)
         /\ \A p \in Ops : p \in victims => ~Living(p)'
BY DEF Kill, StaysOrEnds, Living, Ended, TypeOK

\* A stage that only kills.
LEMMA KillStageShape ==
  ASSUME TypeOK, ShapeInv, NEW n \in Ops, NEW victims, Kill(victims),
         \/ op[n].stage = "stopping" /\ Stage(n, "sweeping")
         \/ op[n].stage = "sweeping" /\ Stage(n, "cleaning"),
         UNCHANGED <<registry, object, file, writes, disturbed, bounds>>
  PROVE  TypeOK' /\ ShapeInv'
<1>1. PICK st \in {"sweeping", "cleaning"} : Stage(n, st)
  OBVIOUS
<1>2. /\ process' \in [Ops -> {"none", "starting", "serving", "exited", "gone"}]
      /\ \A p \in Ops : StaysOrEnds(p)
  BY KillFacts
<1>3. TypeOK'
  BY <1>1, <1>2, StageFacts DEF TypeOK, bounds
<1>4. /\ op'[n].stage = st /\ op'[n].kind = op[n].kind
      /\ op'[n].id = op[n].id /\ op'[n].object = op[n].object
      /\ op'[n].port = op[n].port
      /\ \A m \in Ops : m # n => op'[m] = op[m]
  BY <1>1, StageFacts
<1>5. RequestInv(n) /\ process[n] = "none"
  BY DEF ShapeInv, RequestInv, TypeOK
<1>6. process'[n] = "none"
  BY <1>2, <1>5 DEF StaysOrEnds, Living
<1>7. RequestInv(n)'
  BY <1>4, <1>5, <1>6 DEF RequestInv, Stopping, Starting
<1>8. QED
  BY <1>2, <1>3, <1>4, <1>6, <1>7, ShapeKept DEF ShapeInv, Registered, TypeOK

LEMMA CleanedShape ==
  ASSUME TypeOK, ShapeInv, NEW n \in Ops, Cleaned(n)
  PROVE  TypeOK' /\ ShapeInv'
<1>1. /\ op[n].stage = "cleaning"
      /\ UNCHANGED <<object, process, file, bounds>>
  BY DEF Cleaned
<1>2. RequestInv(n) /\ process[n] = "none" /\ writes[n] = NoWrite
  BY <1>1 DEF ShapeInv, RequestInv, TypeOK
<1>3. CASE op[n].kind = "delete"
  <2>1. /\ registry' = [registry EXCEPT ![op[n].id] = None]
        /\ PersistSandboxes(n) /\ Stage(n, "settling")
    BY <1>3 DEF Cleaned
  <2>2. /\ registry' \in [Ops -> Ops \cup {None}]
        /\ \A id \in Ops : registry'[id] # None =>
             object'[registry'[id]].port \in Ports
    BY <1>1, <2>1 DEF TypeOK, ShapeInv, Registered
  <2>3. /\ writes' \in [Ops -> Snapshots \cup {NoWrite}] /\ disturbed' \in BOOLEAN
        /\ writes'[n] # NoWrite /\ \A m \in Ops : m # n => writes'[m] = writes[m]
    BY <1>1, <2>1, <2>2, PersistFacts DEF TypeOK
  <2>4. /\ op'[n].stage = "settling" /\ op'[n].kind = op[n].kind
        /\ op'[n].id = op[n].id /\ op'[n].object = op[n].object
        /\ op'[n].port = op[n].port
        /\ \A m \in Ops : m # n => op'[m] = op[m]
    BY <2>1, StageFacts
  <2>5. TypeOK'
    BY <1>1, <2>1, <2>2, <2>3, StageFacts DEF TypeOK, bounds
  <2>6. RequestInv(n)'
    BY <1>1, <1>2, <2>3, <2>4 DEF RequestInv, Stopping, Starting
  <2>7. QED
    BY <1>1, <1>2, <2>2, <2>3, <2>4, <2>5, <2>6, ShapeKept DEF StaysOrEnds
<1>4. CASE op[n].kind # "delete"
  <2>1. Stage(n, "waiting") /\ UNCHANGED <<registry, writes, disturbed>>
    BY <1>4 DEF Cleaned
  <2>2. /\ op'[n].stage = "waiting" /\ op'[n].kind = op[n].kind
        /\ op'[n].id = op[n].id /\ op'[n].object = op[n].object
        /\ op'[n].port = op[n].port
        /\ \A m \in Ops : m # n => op'[m] = op[m]
    BY <2>1, StageFacts
  <2>3. TypeOK'
    BY <1>1, <2>1, StageFacts DEF TypeOK, bounds
  <2>4. RequestInv(n)'
    BY <1>1, <1>2, <1>4, <2>1, <2>2 DEF RequestInv, Stopping, Starting
  <2>5. QED
    BY <1>1, <1>2, <2>1, <2>2, <2>3, <2>4, ShapeKept
       DEF ShapeInv, Registered, StaysOrEnds
<1>5. QED
  BY <1>3, <1>4

LEMMA ReinstallShape ==
  ASSUME TypeOK, ShapeInv, NEW n \in Ops, Reinstall(n)
  PROVE  TypeOK' /\ ShapeInv'
<1>1. /\ op[n].stage = "waiting" /\ Stage(n, "saving") /\ PersistSandboxes(n)
      /\ object' = [object EXCEPT ![n] = NewObject(op[n].port)]
      /\ registry' = [registry EXCEPT ![op[n].id] = n]
      /\ UNCHANGED <<process, file, bounds>>
  BY DEF Reinstall
<1>2. RequestInv(n) /\ process[n] = "none" /\ op[n].port \in Ports
  BY <1>1 DEF ShapeInv, RequestInv, TypeOK, Stopping
<1>3. /\ registry' \in [Ops -> Ops \cup {None}] /\ object' \in [Ops -> Object]
      /\ \A id \in Ops : registry'[id] # None =>
           object'[registry'[id]].port \in Ports
  <2>1. NewObject(op[n].port) \in Object /\ NewObject(op[n].port).port \in Ports
    BY <1>2, NewObjectType
  <2>2. /\ object'[n].port \in Ports
        /\ \A o \in Ops : o # n => object'[o] = object[o]
    BY <1>1, <2>1 DEF TypeOK
  <2>3. \A id \in Ops : registry'[id] \in {n, registry[id]}
    BY <1>1 DEF TypeOK
  <2>4. \A id \in Ops : registry'[id] # None =>
          object'[registry'[id]].port \in Ports
    BY <2>2, <2>3 DEF TypeOK, ShapeInv, Registered
  <2>5. QED
    BY <1>1, <2>1, <2>4 DEF TypeOK
<1>4. /\ writes' \in [Ops -> Snapshots \cup {NoWrite}] /\ disturbed' \in BOOLEAN
      /\ writes'[n] # NoWrite /\ \A m \in Ops : m # n => writes'[m] = writes[m]
  BY <1>1, <1>3, PersistFacts
<1>5. /\ op'[n].stage = "saving" /\ op'[n].kind = op[n].kind
      /\ op'[n].id = op[n].id /\ op'[n].object = op[n].object
      /\ op'[n].port = op[n].port
      /\ \A m \in Ops : m # n => op'[m] = op[m]
  BY <1>1, StageFacts
<1>6. TypeOK'
  BY <1>1, <1>3, <1>4, StageFacts DEF TypeOK, bounds
<1>7. RequestInv(n)'
  BY <1>1, <1>2, <1>4, <1>5 DEF RequestInv, Stopping, Starting
<1>8. QED
  BY <1>1, <1>2, <1>3, <1>4, <1>5, <1>6, <1>7, ShapeKept DEF StaysOrEnds

\* A process binds its ports only where nobody listens.
LEMMA BindShape ==
  ASSUME TypeOK, ShapeInv, NEW p \in Ops, Bind(p)
  PROVE  TypeOK' /\ ShapeInv'
<1> DEFINE b == IF Bound(op[p].port) THEN Ended(p) ELSE "serving"
<1>1. /\ process[p] = "starting" /\ process' = [process EXCEPT ![p] = b]
      /\ UNCHANGED <<registry, object, op, file, writes, disturbed, bounds>>
  BY DEF Bind
<1>2. /\ b \in {"serving", "exited", "gone"}
      /\ b = "serving" => \A q \in Ops :
           ~(process[q] = "serving" /\ op[q].port = op[p].port)
      /\ b = "exited" => op[p].object # None
  BY DEF Ended, Bound
<1> HIDE DEF b
<1>3. TypeOK'
  BY <1>1, <1>2 DEF TypeOK, bounds
<1>4. process'[p] = b /\ \A m \in Ops : m # p => process'[m] = process[m]
  BY <1>1 DEF TypeOK
<1>5. \A m \in Ops : RequestInv(m)'
  <2> TAKE m \in Ops
  <2>1. RequestInv(m) /\ op'[m] = op[m] /\ writes'[m] = writes[m]
    BY <1>1 DEF ShapeInv
  <2>2. op[m].object # None => op[m].object \in Ops
    BY DEF TypeOK, Op
  <2>3. QED
    BY <1>1, <1>2, <1>4, <2>1, <2>2 DEF RequestInv
<1>6. \A q, r \in Ops :
        process'[q] = "serving" /\ process'[r] = "serving"
          /\ op'[q].port = op'[r].port => q = r
  BY <1>1, <1>2, <1>4 DEF ShapeInv
<1>7. QED
  BY <1>1, <1>3, <1>5, <1>6 DEF ShapeInv, Registered

\* A process exits, or its exit is handled.
LEMMA ExitShape ==
  ASSUME TypeOK, ShapeInv, NEW p \in Ops, Exit(p) \/ ExitEvent(p)
  PROVE  TypeOK' /\ ShapeInv'
<1> DEFINE b == IF Living(p) THEN Ended(p) ELSE "gone"
<1>1. /\ process' = [process EXCEPT ![p] = b] /\ process[p] # "none"
      /\ UNCHANGED <<registry, op, file, writes, disturbed, crashes>>
  BY DEF Exit, ExitEvent, Living, bounds
<1>2. b \in {"exited", "gone"} /\ (b = "exited" => op[p].object # None)
  BY DEF Ended
<1>3. exits' \in 0..MaxExits
  BY ConstantsOK DEF Exit, ExitEvent, TypeOK, bounds
<1>4. /\ object' \in [Ops -> Object]
      /\ \A o \in Ops : object'[o].port = object[o].port
  <2>1. CASE UNCHANGED object
    BY <2>1 DEF TypeOK
  <2>2. CASE ~UNCHANGED object
    <3>1. op[p].object \in Ops
      BY <2>2 DEF Exit, ExitEvent, ShapeInv, RequestInv
    <3>2. object' = [object EXCEPT ![op[p].object] =
                       [object[op[p].object] EXCEPT !.status = "error"]]
      BY <2>2, <3>1 DEF Exit, ExitEvent, Blame, TypeOK
    <3>3. QED
      BY <3>1, <3>2 DEF TypeOK, Object
  <2>3. QED
    BY <2>1, <2>2
<1> HIDE DEF b
<1>5. TypeOK'
  BY <1>1, <1>2, <1>3, <1>4 DEF TypeOK
<1>6. process'[p] = b /\ \A m \in Ops : m # p => process'[m] = process[m]
  BY <1>1 DEF TypeOK
<1>7. RequestInv(p)'
  <2>1. RequestInv(p) /\ op'[p] = op[p] /\ writes'[p] = writes[p]
    BY <1>1 DEF ShapeInv
  <2>2. op[p].object # None => op[p].object \in Ops
    BY DEF TypeOK, Op
  <2>3. QED
    BY <1>1, <1>2, <1>6, <2>1, <2>2 DEF RequestInv
<1>8. QED
  BY <1>1, <1>2, <1>4, <1>5, <1>6, <1>7, ShapeKept
     DEF ShapeInv, Registered, StaysOrEnds, TypeOK

\* The gateway restarts from its file.
LEMMA RestartFacts ==
  ASSUME TypeOK, Restart
  PROVE  \E f \in {file, {}} :
           /\ f \in Snapshots /\ file' = f
           /\ f = file \/ \E n \in Ops : writes[n] # NoWrite
           /\ registry' = [n \in Ops |-> IF \E port \in Ports : <<n, port>> \in f
                                         THEN n ELSE None]
           /\ \A n \in Ops : /\ object'[n] \in Object
                             /\ object'[n].handle = None
                             /\ registry'[n] # None =>
                                  /\ object'[n].port \in Ports
                                  /\ <<n, object'[n].port>> \in f
           /\ \A n \in Ops :
                /\ op'[n] \in Op /\ op'[n].kind = op[n].kind
                /\ op'[n].id = op[n].id /\ op'[n].port = op[n].port
                /\ op'[n].object = None
                /\ op'[n].stage = IF Busy(n) THEN "lost" ELSE op[n].stage
<1>1. PICK f \in {file} \cup (IF \A n \in Ops : writes[n] = NoWrite THEN {} ELSE {{}}) :
        /\ file' = f
        /\ registry' = [n \in Ops |-> IF \E port \in Ports : <<n, port>> \in f
                                      THEN n ELSE None]
        /\ object' = Restored(f)
        /\ op' = [n \in Ops |-> [op[n] EXCEPT !.object = None,
                                              !.stage = IF Busy(n) THEN "lost" ELSE @]]
  BY DEF Restart
<1>2. /\ f \in {file, {}} /\ f \in Snapshots
      /\ f = file \/ \E n \in Ops : writes[n] # NoWrite
  BY <1>1 DEF TypeOK, Snapshots
<1>3. ASSUME NEW n \in Ops
      PROVE  /\ object'[n] \in Object /\ object'[n].handle = None
             /\ registry'[n] # None => /\ object'[n].port \in Ports
                                       /\ <<n, object'[n].port>> \in f
  <2>1. CASE \E port \in Ports : <<n, port>> \in f
    <3> DEFINE c == CHOOSE q \in Ports : <<n, q>> \in f
               st == IF Bound(c) THEN "running" ELSE "stopped"
    <3>1. c \in Ports /\ <<n, c>> \in f
      BY <2>1
    <3>2. object'[n] = [port |-> c, handle |-> None, status |-> st]
      BY <1>1, <2>1 DEF Restored
    <3>3. st \in {"running", "stopped"}
      OBVIOUS
    <3> HIDE DEF c, st
    <3>4. QED
      BY <3>1, <3>2, <3>3 DEF Object
  <2>2. CASE ~\E port \in Ports : <<n, port>> \in f
    <3>1. object'[n] = NewObject(None) /\ registry'[n] = None
      BY <1>1, <2>2 DEF Restored
    <3>2. QED
      BY <3>1, NewObjectType
  <2>3. QED
    BY <2>1, <2>2
<1>4. ASSUME NEW n \in Ops
      PROVE  /\ op'[n] \in Op /\ op'[n].kind = op[n].kind
             /\ op'[n].id = op[n].id /\ op'[n].port = op[n].port
             /\ op'[n].object = None
             /\ op'[n].stage = IF Busy(n) THEN "lost" ELSE op[n].stage
  <2> DEFINE st == IF Busy(n) THEN "lost" ELSE op[n].stage
  <2>1. op[n] \in Op /\ op'[n] = [op[n] EXCEPT !.object = None, !.stage = st]
    BY <1>1 DEF TypeOK
  <2>2. st \in {"none", "probing", "stopping", "sweeping", "cleaning", "waiting",
                "saving", "config", "starting", "settling", "done", "lost"}
    BY <2>1 DEF Op
  <2> HIDE DEF st
  <2>3. QED
    BY <2>1, <2>2 DEF Op, st
<1>5. QED
  BY <1>1, <1>2, <1>3, <1>4

LEMMA RestartShape ==
  ASSUME TypeOK, ShapeInv, Restart
  PROVE  TypeOK' /\ ShapeInv'
<1>1. PICK f \in {file, {}} :
        /\ f \in Snapshots /\ file' = f
        /\ registry' = [n \in Ops |-> IF \E port \in Ports : <<n, port>> \in f
                                      THEN n ELSE None]
        /\ \A n \in Ops : /\ object'[n] \in Object
                          /\ registry'[n] # None => object'[n].port \in Ports
        /\ \A n \in Ops :
             /\ op'[n] \in Op /\ op'[n].kind = op[n].kind
             /\ op'[n].id = op[n].id /\ op'[n].port = op[n].port
             /\ op'[n].object = None
             /\ op'[n].stage = IF Busy(n) THEN "lost" ELSE op[n].stage
  BY RestartFacts
<1>2. /\ crashes' \in 0..MaxCrashes /\ exits' = exits
      /\ disturbed' \in BOOLEAN
      /\ writes' = [n \in Ops |-> NoWrite]
      /\ process' = [p \in Ops |-> IF process[p] = "exited" THEN "gone"
                                   ELSE process[p]]
  <2>1. /\ crashes < MaxCrashes /\ crashes' = crashes + 1 /\ exits' = exits
        /\ writes' = [n \in Ops |-> NoWrite]
        /\ process' = [p \in Ops |-> IF process[p] = "exited" THEN "gone"
                                     ELSE process[p]]
        /\ disturbed' = (\/ disturbed
                         \/ \E n \in Ops : Busy(n) \/ process[n] = "starting")
    BY DEF Restart
  <2>2. crashes' \in 0..MaxCrashes
    BY <2>1, ConstantsOK DEF TypeOK
  <2>3. QED
    BY <2>1, <2>2 DEF TypeOK
<1>3. DOMAIN object' = Ops /\ DOMAIN op' = Ops
      /\ object' = [n \in Ops |-> object'[n]] /\ op' = [n \in Ops |-> op'[n]]
  BY DEF Restart, Restored
<1>4. TypeOK'
  <2>1. object' \in [Ops -> Object] /\ op' \in [Ops -> Op]
    BY <1>1, <1>3
  <2>2. QED
    BY <1>1, <1>2, <2>1 DEF TypeOK
<1>5. \A n \in Ops : RequestInv(n)'
  <2> TAKE n \in Ops
  <2>1. RequestInv(n)
    BY DEF ShapeInv
  <2>2. writes'[n] = NoWrite /\ process'[n] # "exited"
        /\ (process'[n] # "none" <=> process[n] # "none")
    BY <1>2
  <2>3. op'[n].stage \in {"none", "done", "lost"}
        /\ (op[n].stage = "none" <=> op'[n].stage = "none")
    BY <1>1 DEF Busy
  <2>4. QED
    BY <1>1, <2>1, <2>2, <2>3 DEF RequestInv, Busy, Stopping, Starting
<1>6. \A id \in Registered' : object'[registry'[id]].port \in Ports
  BY <1>1 DEF Registered
<1>7. \A p, q \in Ops :
        process'[p] = "serving" /\ process'[q] = "serving"
          /\ op'[p].port = op'[q].port => p = q
  BY <1>1, <1>2 DEF ShapeInv
<1>8. QED
  BY <1>4, <1>5, <1>6, <1>7 DEF ShapeInv

LEMMA ShapeInit == Init => TypeOK /\ ShapeInv
<1> SUFFICES ASSUME Init PROVE TypeOK /\ ShapeInv
  OBVIOUS
<1>1. NoOp \in Op /\ NoOp.stage = "none" /\ NoOp.kind = "none"
  BY DEF NoOp, Op
<1>2. NewObject(None) \in Object
  BY NewObjectType
<1>3. TypeOK
  <2>1. 0 \in 0..MaxExits /\ 0 \in 0..MaxCrashes /\ {} \in Snapshots
    BY ConstantsOK DEF Snapshots
  <2>2. /\ registry \in [Ops -> Ops \cup {None}] /\ object \in [Ops -> Object]
        /\ op \in [Ops -> Op]
        /\ writes \in [Ops -> Snapshots \cup {NoWrite}]
        /\ process \in [Ops -> {"none", "starting", "serving", "exited", "gone"}]
    BY <1>1, <1>2 DEF Init
  <2>3. QED
    BY <2>1, <2>2 DEF Init, TypeOK
<1>4. \A n \in Ops : RequestInv(n)
  BY <1>1 DEF Init, RequestInv, Stopping, Starting
<1>5. QED
  BY <1>3, <1>4 DEF Init, ShapeInv, Registered

LEMMA ShapeStep == TypeOK /\ ShapeInv /\ [Next]_vars => TypeOK' /\ ShapeInv'
<1> SUFFICES ASSUME TypeOK, ShapeInv, [Next]_vars PROVE TypeOK' /\ ShapeInv'
  OBVIOUS
<1>1. CASE UNCHANGED vars
  BY <1>1 DEF vars, TypeOK, ShapeInv, RequestInv, Registered
<1>2. ASSUME NEW n \in Ops, KillHandle(n) PROVE TypeOK' /\ ShapeInv'
  BY <1>2, KillStageShape DEF KillHandle
<1>3. ASSUME NEW n \in Ops, Sweep(n) PROVE TypeOK' /\ ShapeInv'
  BY <1>3, KillStageShape DEF Sweep
<1>4. QED
  BY <1>1, <1>2, <1>3, CreateRequestShape, ProbeShape, PersistedShape,
     SpawnShape, ReadyShape, StartFailsShape, StopRequestShape, CleanedShape,
     ReinstallShape, BindShape, ExitShape, RestartShape DEF Next

\* Init and every action keep every variable in its type: no snapshot and no
\* process ever takes a port from a sandbox that has none.
THEOREM TypeCorrect == Spec => []TypeOK
BY ShapeInit, ShapeStep, PTL DEF Spec

\* What a request knows at each of its stages, whatever overlaps or crashes.
THEOREM Shapes == Spec => []ShapeInv
BY ShapeInit, ShapeStep, PTL DEF Spec

-----------------------------------------------------------------------------
(***************************************************************************)
(* What holds as long as nothing has overlapped: how the parts of the      *)
(* invariant survive a step that leaves alone what they are about.         *)
(***************************************************************************)

\* Request m stays on its sandbox and begins nothing.
Onward(m) ==
  /\ op'[m].id = op[m].id /\ op'[m].kind = op[m].kind
  /\ Busy(m)' => Busy(m)
  /\ op'[m].stage = "probing" => op[m].stage = "probing"
  /\ op'[m].stage = "none" <=> op[m].stage = "none"
  /\ op'[m].stage \in Stopping => op[m].stage \in Stopping

\* The registry and the ports of all objects stay as they are.
SameRegistry ==
  registry' = registry /\ \A o \in Ops : object'[o].port = object[o].port

LEMMA RegistrySame ==
  ASSUME TypeOK, SameRegistry
  PROVE  /\ Registered' = Registered /\ UsedPorts' = UsedPorts
         /\ Snapshot(registry, object)' = Snapshot(registry, object)
<1>1. Registered' = Registered
  BY DEF SameRegistry, Registered
<1>2. \A id \in Registered : /\ registry[id] \in Ops /\ id \in Ops
                             /\ object'[registry'[id]].port = object[registry[id]].port
  BY DEF SameRegistry, Registered, TypeOK
<1>3. UsedPorts' = UsedPorts
  BY <1>1, <1>2 DEF UsedPorts
<1>4. Snapshot(registry, object)' = Snapshot(registry, object)
  BY <1>1, <1>2 DEF Snapshot, Registered
<1>5. QED
  BY <1>1, <1>3, <1>4

LEMMA SlotsSame ==
  ASSUME TypeOK, SlotsKept, ~disturbed, SameRegistry
  PROVE  SlotsKept'
<1>1. Registered' = Registered
  BY RegistrySame
<1>2. \A id \in Registered :
        object'[registry'[id]].port = object[registry[id]].port
  BY DEF SameRegistry, Registered, TypeOK
<1>3. QED
  BY <1>1, <1>2 DEF SlotsKept

LEMMA ApartKept ==
  ASSUME TypeOK, ShapeInv, ApartInv, \A m \in Ops : Onward(m),
         \A id \in Registered' : id \in Registered /\ registry'[id] = registry[id]
  PROVE  ApartInv'
<1>1. \A id \in Registered : id \in Ops /\ registry[id] \in Ops
  BY DEF Registered, TypeOK
<1>2. \A m \in Ops : op[m].stage # "none" => op[m].id \in Ops
  BY DEF ShapeInv, RequestInv
<1>3. \A m, n \in Ops :
        op'[m].stage = "probing" /\ op'[n].stage = "probing" => m = n
  BY DEF ApartInv, Onward
<1>4. \A m, n \in Ops : Busy(m)' /\ Busy(n)' /\ op'[m].id = op'[n].id => m = n
  BY DEF ApartInv, Onward
<1>5. ASSUME NEW id \in Registered'
      PROVE  /\ op'[id].kind = "create" /\ op'[id].stage \notin {"none", "probing"}
             /\ op'[registry'[id]].id = id
             /\ op'[registry'[id]].stage \notin {"none", "probing"} \cup Stopping
  BY <1>1 DEF ApartInv, Onward
<1>6. ASSUME NEW m \in Ops, op'[m].stage # "none", op'[m].id # m
      PROVE  op'[op'[m].id].stage \notin {"none", "probing"}
  BY <1>2, <1>6 DEF ApartInv, Onward
<1>7. QED
  BY <1>3, <1>4, <1>5, <1>6 DEF ApartInv

\* What request m has reached survives when its sandbox keeps its object and
\* no new process of it lives.
LEMMA ProgressKept ==
  ASSUME TypeOK, ShapeInv, NEW m \in Ops, ProgressInv(m), op'[m] = op[m],
         SameRegistry,
         op[m].stage \in Starting => object'[m].status # "running",
         Busy(m) => \A p \in Ops : Living(p)' /\ op'[p].id = op[m].id =>
           /\ Living(p) /\ op[p].id = op[m].id
           /\ process[p] = "serving" => process'[p] = "serving"
  PROVE  ProgressInv(m)'
<1>1. Registered' = Registered /\ UsedPorts' = UsedPorts
  BY RegistrySame
<1>2. RequestInv(m) /\ registry' = registry
  BY DEF ShapeInv, SameRegistry
<1>3. op[m].stage \in Stopping => op[m].object \in Ops
  BY <1>2 DEF RequestInv
<1>4. op'[m].stage = "sweeping" => \A p \in Ops :
        Living(p)' /\ op'[p].id = op'[m].id => process'[p] = "serving"
  BY DEF ProgressInv, Busy
<1>5. op'[m].stage \in {"cleaning", "waiting", "saving", "config"} =>
        \A p \in Ops : Living(p)' => op'[p].id # op'[m].id
  BY DEF ProgressInv, Busy
<1>6. op'[m].stage = "probing" =>
        Cardinality(Registered') < MaxSandboxes /\ op'[m].probe \cap UsedPorts' = {}
  BY <1>1 DEF ProgressInv
<1>7. QED
  BY <1>2, <1>3, <1>4, <1>5, <1>6 DEF ProgressInv, SameRegistry

\* The registered object of a process still knows it.
LEMMA OwnerKept ==
  ASSUME TypeOK, ShapeInv, NEW p \in Ops, OwnerInv(p),
         op'[p].id = op[p].id, op'[p].port = op[p].port,
         op'[p].object = op[p].object,
         Living(p)' => Living(p) /\ (process[p] = "serving" => process'[p] = "serving"),
         process'[p] = "exited" =>
           process[p] \in {"starting", "serving", "exited"},
         SameRegistry, \A o \in Ops : object'[o].handle = object[o].handle
  PROVE  OwnerInv(p)'
<1>1. Living(p) => op[p].id \in Ops
  BY DEF ShapeInv, RequestInv, Living
<1>2. Living(p) => registry[op[p].id] \in Ops \cup {None}
  BY <1>1 DEF TypeOK
<1>3. process'[p] \in {"starting", "serving"} <=> Living(p)'
  BY DEF Living
<1>4. QED
  BY <1>2, <1>3 DEF OwnerInv, SameRegistry, Living

\* The registry and the file stay as they are, and so do the writes.
LEMMA FileKept ==
  ASSUME TypeOK, FileInv, SameRegistry, file' = file, writes' = writes
  PROVE  FileInv'
BY RegistrySame DEF FileInv

\* A snapshot that is taken of the registry as it becomes.
LEMMA FilePersisted ==
  ASSUME TypeOK, NEW n \in Ops, PersistSandboxes(n), ~disturbed',
         registry' \in [Ops -> Ops \cup {None}], object' \in [Ops -> Object],
         \A id \in Ops : registry'[id] # None => object'[registry'[id]].port \in Ports
  PROVE  FileInv' /\ ~disturbed
<1>1. /\ writes'[n] = Snapshot(registry, object)' /\ writes'[n] # NoWrite
      /\ \A m \in Ops : m # n => writes'[m] = NoWrite
      /\ ~disturbed
  BY PersistFacts
<1>2. QED
  BY <1>1 DEF FileInv

-----------------------------------------------------------------------------
(***************************************************************************)
(* One lemma per action, as long as nothing has overlapped.                *)
(***************************************************************************)

\* A stage that follows another, or a request that is left alone.
LEMMA StageOnward ==
  ASSUME TypeOK, NEW n \in Ops, NEW st \in
           {"sweeping", "cleaning", "waiting", "saving", "config", "starting",
            "settling", "done"},
         op'[n].id = op[n].id, op'[n].kind = op[n].kind, op'[n].stage = st,
         Busy(n), st \in Stopping => op[n].stage \in Stopping,
         \A m \in Ops : m # n => op'[m] = op[m]
  PROVE  \A m \in Ops : Onward(m)
<1>1. Onward(n)
  BY DEF Onward, Busy
<1>2. \A m \in Ops : m # n => Onward(m)
  BY DEF Onward, Busy
<1>3. QED
  BY <1>1, <1>2

\* A request moves on to its next stage, the registry and all handles stay as
\* they are, and processes end at most: what is left is the request itself.
LEMMA StageCalm ==
  ASSUME TypeOK, ShapeInv, CalmInv, ~disturbed, NEW n \in Ops, NEW st \in
           {"sweeping", "cleaning", "waiting", "settling", "done"},
         Stage(n, st), Busy(n), st \in Stopping => op[n].stage \in Stopping,
         SameRegistry, \A o \in Ops : object'[o].handle = object[o].handle,
         \A o \in Ops : o # n /\ object'[o].status = "running" =>
           object[o].status = "running",
         \A p \in Ops : StaysOrEnds(p),
         ProgressInv(n)', FileInv'
  PROVE  CalmInv'
<1>1. /\ op'[n].stage = st /\ op'[n].kind = op[n].kind
      /\ op'[n].id = op[n].id /\ op'[n].object = op[n].object
      /\ op'[n].port = op[n].port
      /\ \A m \in Ops : m # n => op'[m] = op[m]
  BY StageFacts
<1>2. \A p \in Ops : Living(p)' => Living(p) /\ process'[p] = process[p]
  BY DEF StaysOrEnds, Living, Ended
<1>3. ApartInv'
  <2>1. \A m \in Ops : Onward(m)
    BY <1>1, StageOnward
  <2>2. QED
    BY <2>1, ApartKept DEF CalmInv, Registered, SameRegistry
<1>4. ASSUME NEW m \in Ops, m # n PROVE ProgressInv(m)'
  <2>1. ProgressInv(m) /\ op'[m] = op[m]
    BY <1>1, <1>4 DEF CalmInv
  <2>2. op[m].stage \in Starting => object'[m].status # "running"
    BY <1>4, <2>1 DEF ProgressInv
  <2>3. \A p \in Ops : op'[p].id = op[p].id
    BY <1>1
  <2>4. QED
    BY <1>2, <2>1, <2>2, <2>3, ProgressKept
<1>5. ASSUME NEW p \in Ops PROVE OwnerInv(p)'
  <2>1. process'[p] = "exited" => process[p] \in {"starting", "serving", "exited"}
    BY DEF StaysOrEnds, Living
  <2>2. /\ op'[p].id = op[p].id /\ op'[p].port = op[p].port
        /\ op'[p].object = op[p].object
    BY <1>1
  <2>3. QED
    BY <1>2, <2>1, <2>2, OwnerKept DEF CalmInv
<1>6. QED
  BY <1>3, <1>4, <1>5, SlotsSame DEF CalmInv

\* Killing the known process leaves one that listens, if any.
LEMMA KillHandleCalm ==
  ASSUME TypeOK, ShapeInv, CalmInv, NEW n \in Ops, KillHandle(n), ~disturbed'
  PROVE  CalmInv'
<1>1. /\ op[n].stage = "stopping" /\ Stage(n, "sweeping") /\ ~disturbed
      /\ Kill({op[n].pid, object[op[n].object].handle})
      /\ UNCHANGED <<registry, object, file, writes, bounds>>
  BY DEF KillHandle
<1>2. /\ op'[n].stage = "sweeping" /\ op'[n].kind = op[n].kind
      /\ op'[n].id = op[n].id /\ op'[n].object = op[n].object
      /\ op'[n].port = op[n].port
      /\ \A p \in Ops : op'[p].id = op[p].id
  BY <1>1, StageFacts
<1>3. \A p \in Ops : Living(p)' => /\ Living(p) /\ process'[p] = process[p]
                                   /\ p # object[op[n].object].handle
  BY <1>1, KillFacts DEF StaysOrEnds, Living, Ended
<1>4. ProgressInv(n)'
  <2>1. /\ registry'[op'[n].id] = op'[n].object
        /\ object'[op'[n].object].port = op'[n].port
    BY <1>1, <1>2 DEF CalmInv, ProgressInv, Stopping
  <2>2. ASSUME NEW p \in Ops, Living(p)', op'[p].id = op'[n].id
        PROVE  process'[p] = "serving"
    <3>1. op[p].id = op[n].id /\ registry[op[n].id] = op[n].object
      BY <1>1, <1>2, <2>1, <2>2
    <3>2. QED
      BY <1>3, <2>2, <3>1 DEF CalmInv, OwnerInv
  <2>3. QED
    BY <1>2, <2>1, <2>2 DEF ProgressInv, Stopping, Starting
<1>5. SameRegistry /\ FileInv'
  BY <1>1, FileKept DEF SameRegistry, CalmInv
<1>6. QED
  BY <1>1, <1>4, <1>5, KillFacts, StageCalm DEF Busy, Stopping

\* Killing what listens on the port of the sandbox leaves no process of it.
LEMMA SweepCalm ==
  ASSUME TypeOK, ShapeInv, CalmInv, NEW n \in Ops, Sweep(n), ~disturbed'
  PROVE  CalmInv'
<1> DEFINE victims == {p \in Ops : process[p] = "serving" /\ op[p].port = op[n].port}
<1>1. /\ op[n].stage = "sweeping" /\ Stage(n, "cleaning") /\ ~disturbed
      /\ Kill(victims)
      /\ UNCHANGED <<registry, object, file, writes, bounds>>
  BY DEF Sweep
<1>2. /\ op'[n].stage = "cleaning" /\ op'[n].kind = op[n].kind
      /\ op'[n].id = op[n].id /\ op'[n].object = op[n].object
      /\ op'[n].port = op[n].port
      /\ \A p \in Ops : op'[p].id = op[p].id
  BY <1>1, StageFacts
<1>3. ASSUME NEW p \in Ops, Living(p)'
      PROVE  Living(p) /\ ~(process[p] = "serving" /\ op[p].port = op[n].port)
  <2> HIDE DEF victims
  <2>1. Living(p) /\ p \notin victims
    BY <1>1, <1>3, KillFacts DEF StaysOrEnds, Living, Ended
  <2>2. QED
    BY <2>1 DEF victims
<1>4. ProgressInv(n)'
  <2>1. /\ registry'[op'[n].id] = op'[n].object
        /\ object'[op'[n].object].port = op'[n].port
    BY <1>1, <1>2 DEF CalmInv, ProgressInv, Stopping
  <2>2. ASSUME NEW p \in Ops, Living(p)', op'[p].id = op'[n].id
        PROVE  FALSE
    <3>1. /\ Living(p) /\ op[p].id = op[n].id
          /\ registry[op[n].id] = op[n].object
          /\ object[op[n].object].port = op[n].port
      BY <1>1, <1>2, <1>3, <2>1, <2>2
    <3>2. process[p] = "serving"
      BY <1>1, <3>1 DEF CalmInv, ProgressInv
    <3>3. op[p].port = op[n].port
      BY <3>1 DEF CalmInv, OwnerInv
    <3>4. QED
      BY <1>3, <2>2, <3>2, <3>3
  <2>3. QED
    BY <1>2, <2>1, <2>2 DEF ProgressInv, Stopping, Starting
<1>5. SameRegistry /\ FileInv'
  BY <1>1, FileKept DEF SameRegistry, CalmInv
<1>6. \A p \in Ops : StaysOrEnds(p)
  BY <1>1, KillFacts
<1>7. QED
  BY <1>1, <1>4, <1>5, <1>6, StageCalm DEF Busy, Stopping

\* The one write under way reaches the file: it is what the registry holds.
LEMMA PersistedFile ==
  ASSUME TypeOK, ShapeInv, CalmInv, NEW n \in Ops, Persisted(n)
  PROVE  FileInv'
<1>1. /\ writes[n] # NoWrite /\ file' = writes[n]
      /\ writes' = [writes EXCEPT ![n] = NoWrite]
      /\ registry' = registry /\ object' = object
  BY DEF Persisted
<1>2. \A m \in Ops : writes'[m] = NoWrite
  BY <1>1 DEF CalmInv, FileInv, TypeOK
<1>3. file' = Snapshot(registry, object)'
  BY <1>1 DEF CalmInv, FileInv
<1>4. QED
  BY <1>2, <1>3 DEF FileInv

LEMMA PersistedCalm ==
  ASSUME TypeOK, ShapeInv, CalmInv, NEW n \in Ops, Persisted(n), ~disturbed'
  PROVE  CalmInv'
<1>1. /\ writes[n] # NoWrite /\ ~disturbed
      /\ UNCHANGED <<registry, object, process>>
  BY DEF Persisted
<1>2. RequestInv(n) /\ op[n].stage \in {"saving", "settling"} /\ op[n].id \in Ops
  BY <1>1 DEF ShapeInv, RequestInv
<1>3. SameRegistry /\ FileInv' /\ \A p \in Ops : StaysOrEnds(p)
  BY <1>1, PersistedFile DEF SameRegistry, StaysOrEnds
<1>4. CASE op[n].stage = "settling"
  <2>1. Stage(n, "done")
    BY <1>4 DEF Persisted
  <2>2. /\ op'[n].stage = "done" /\ op'[n].kind = op[n].kind
        /\ op'[n].id = op[n].id
    BY <2>1, StageFacts
  <2>3. ProgressInv(n)'
    BY <1>1, <1>4, <2>2 DEF CalmInv, ProgressInv, Stopping, Starting
  <2>4. QED
    BY <1>1, <1>3, <1>4, <2>1, <2>3, StageCalm DEF Busy, Stopping
<1>5. CASE op[n].stage = "saving"
  <2> DEFINE r == [op[n] EXCEPT !.object = n, !.stage = "config"]
  <2>1. /\ registry[op[n].id] = n /\ object[n].port = op[n].port
        /\ object[n].status # "running" /\ n # None
        /\ \A p \in Ops : Living(p) => op[p].id # op[n].id
    BY <1>5, Nothing DEF CalmInv, ProgressInv, Starting
  <2>2. op' = [op EXCEPT ![n] = r]
    BY <1>5, <2>1 DEF Persisted, StartSandbox, TypeOK
  <2>3. /\ r.kind = op[n].kind /\ r.stage = "config" /\ r.id = op[n].id
        /\ r.object = n /\ r.port = op[n].port
    BY DEF TypeOK, Op
  <2> HIDE DEF r
  <2>4. op'[n] = r /\ \A m \in Ops : m # n => op'[m] = op[m]
    BY <2>2 DEF TypeOK
  <2>5. \A p \in Ops : op'[p].id = op[p].id /\ op'[p].port = op[p].port
    BY <2>3, <2>4
  <2>6. ApartInv'
    <3>1. \A m \in Ops : Onward(m)
      BY <1>5, <2>3, <2>4, StageOnward DEF Busy, Stopping
    <3>2. QED
      BY <1>1, <3>1, ApartKept DEF CalmInv, Registered
  <2>7. ASSUME NEW m \in Ops, m # n PROVE ProgressInv(m)'
    <3>1. ProgressInv(m) /\ op'[m] = op[m]
      BY <2>4, <2>7 DEF CalmInv
    <3>2. op[m].stage \in Starting => object'[m].status # "running"
      BY <1>1, <3>1 DEF ProgressInv
    <3>3. QED
      BY <1>1, <1>3, <2>5, <3>1, <3>2, ProgressKept DEF Living
  <2>8. ProgressInv(n)'
    BY <1>1, <2>1, <2>3, <2>4, <2>5
       DEF ProgressInv, Stopping, Starting, Living
  <2>9. ASSUME NEW p \in Ops PROVE OwnerInv(p)'
    <3>1. CASE p # n
      <4>1. op'[p].object = op[p].object
        BY <2>4, <3>1
      <4>2. QED
        BY <1>1, <1>3, <2>5, <4>1, OwnerKept DEF CalmInv, Living
    <3>2. CASE p = n
      BY <1>1, <1>2, <1>5, <3>2 DEF OwnerInv, RequestInv, Living
    <3>3. QED
      BY <3>1, <3>2
  <2>10. QED
    BY <1>1, <1>3, <2>6, <2>7, <2>8, <2>9, SlotsSame DEF CalmInv
<1>6. QED
  BY <1>2, <1>4, <1>5

\* The new process is the only one of its sandbox, and its object knows it.
LEMMA SpawnCalm ==
  ASSUME TypeOK, ShapeInv, CalmInv, NEW n \in Ops, Spawn(n), ~disturbed'
  PROVE  CalmInv'
<1>1. /\ op[n].stage = "config" /\ Stage(n, "starting") /\ ~disturbed
      /\ process' = [process EXCEPT ![n] = "starting"]
      /\ object' = [object EXCEPT ![op[n].object].handle = n]
      /\ registry' = registry /\ file' = file /\ writes' = writes
  BY DEF Spawn
<1>2. /\ op'[n].stage = "starting" /\ op'[n].kind = op[n].kind
      /\ op'[n].id = op[n].id /\ op'[n].object = op[n].object
      /\ op'[n].port = op[n].port
      /\ \A m \in Ops : m # n => op'[m] = op[m]
  BY <1>1, StageFacts
<1>3. /\ op[n].object = n /\ registry[op[n].id] = n /\ object[n].port = op[n].port
      /\ object[n].status # "running"
      /\ \A p \in Ops : Living(p) => op[p].id # op[n].id
  BY <1>1 DEF CalmInv, ProgressInv, Starting
<1>4. /\ object'[n].handle = n
      /\ \A o \in Ops : /\ object'[o].port = object[o].port
                        /\ object'[o].status = object[o].status
                        /\ o # n => object'[o] = object[o]
  <2>1. object' = [object EXCEPT ![n] = [object[n] EXCEPT !.handle = n]]
    BY <1>1, <1>3 DEF TypeOK
  <2>2. QED
    BY <2>1 DEF TypeOK, Object
<1>5. SameRegistry
  BY <1>1, <1>4 DEF SameRegistry
<1>6. process'[n] = "starting" /\ \A p \in Ops : p # n => process'[p] = process[p]
  BY <1>1 DEF TypeOK
<1>7. \A p \in Ops : op'[p].id = op[p].id /\ op'[p].port = op[p].port
                     /\ op'[p].object = op[p].object
  BY <1>2
<1>8. ApartInv'
  <2>1. \A m \in Ops : Onward(m)
    BY <1>1, <1>2, StageOnward DEF Busy, Stopping
  <2>2. QED
    BY <1>1, <2>1, ApartKept DEF CalmInv, Registered
<1>9. ASSUME NEW m \in Ops, m # n PROVE ProgressInv(m)'
  <2>1. ProgressInv(m) /\ op'[m] = op[m]
    BY <1>2, <1>9 DEF CalmInv
  <2>2. op[m].stage \in Starting => object'[m].status # "running"
    BY <1>4, <2>1 DEF ProgressInv
  <2>3. Busy(m) => op[n].id # op[m].id
    BY <1>1, <1>9 DEF CalmInv, ApartInv, Busy
  <2>4. QED
    BY <1>5, <1>6, <1>7, <2>1, <2>2, <2>3, ProgressKept DEF Living
<1>10. ProgressInv(n)'
  BY <1>1, <1>2, <1>3, <1>4 DEF ProgressInv, Stopping, Starting
<1>11. ASSUME NEW p \in Ops PROVE OwnerInv(p)'
  <2>1. CASE p = n
    <3>1. /\ registry'[op'[n].id] = n /\ object'[n].port = op'[n].port
          /\ object'[n].handle = n /\ op'[n].object = n /\ n # None
      BY <1>1, <1>2, <1>3, <1>4, Nothing
    <3>2. QED
      BY <2>1, <3>1 DEF OwnerInv
  <2>2. CASE p # n
    <3>1. OwnerInv(p) /\ process'[p] = process[p] /\ object'[p] = object[p]
      BY <1>4, <1>6, <2>2 DEF CalmInv
    <3>2. Living(p) => op[p].id \in Registered /\ registry[op[p].id] \in Ops
      BY <3>1 DEF OwnerInv, Registered, TypeOK, ShapeInv, RequestInv, Living
    <3>3. Living(p) => registry[op[p].id] # n
      BY <1>3, <3>2 DEF CalmInv, ApartInv
    <3>4. Living(p) => object'[registry'[op'[p].id]] = object[registry[op[p].id]]
      BY <1>1, <1>4, <1>7, <3>2, <3>3
    <3>5. QED
      BY <1>1, <1>7, <3>1, <3>4 DEF OwnerInv, Living
  <2>3. QED
    BY <2>1, <2>2
<1>12. QED
  BY <1>1, <1>5, <1>8, <1>9, <1>10, <1>11, SlotsSame, FileKept DEF CalmInv

\* What a request that starts its sandbox knows of it.
LEMMA StartingFacts ==
  ASSUME TypeOK, ShapeInv, CalmInv, NEW n \in Ops,
         op[n].stage \in {"config", "starting"}
  PROVE  /\ op[n].object = n /\ registry[op[n].id] = n /\ n # None
         /\ op[n].id \in Ops /\ op[n].kind # "delete"
         /\ object[n].status # "running"
BY Nothing DEF CalmInv, ProgressInv, ShapeInv, RequestInv, Starting

LEMMA ReadyCalm ==
  ASSUME TypeOK, ShapeInv, CalmInv, TypeOK', NEW n \in Ops, Ready(n), ~disturbed'
  PROVE  CalmInv'
<1>1. /\ op[n].stage = "starting" /\ Stage(n, "settling") /\ PersistSandboxes(n)
      /\ object' = [object EXCEPT ![op[n].object].status = "running"]
      /\ registry' = registry /\ process' = process
  BY DEF Ready
<1>2. /\ op'[n].stage = "settling" /\ op'[n].kind = op[n].kind
  BY <1>1, StageFacts
<1>3. op[n].object = n /\ op[n].kind # "delete"
  BY <1>1, StartingFacts
<1>4. \A o \in Ops : /\ object'[o].port = object[o].port
                     /\ object'[o].handle = object[o].handle
                     /\ o # n => object'[o].status = object[o].status
  <2>1. object' = [object EXCEPT ![n] = [object[n] EXCEPT !.status = "running"]]
    BY <1>1, <1>3 DEF TypeOK
  <2>2. QED
    BY <2>1 DEF TypeOK, Object
<1>5. SameRegistry /\ \A p \in Ops : StaysOrEnds(p)
  BY <1>1, <1>4 DEF SameRegistry, StaysOrEnds
<1>6. \A id \in Ops : registry'[id] # None => object'[registry'[id]].port \in Ports
  BY <1>1, <1>4 DEF ShapeInv, Registered, TypeOK
<1>7. FileInv' /\ ~disturbed
  BY <1>1, <1>6, FilePersisted DEF TypeOK
<1>8. ProgressInv(n)'
  BY <1>2, <1>3 DEF ProgressInv, Stopping, Starting
<1>9. QED
  BY <1>1, <1>4, <1>5, <1>7, <1>8, StageCalm DEF Busy, Stopping

LEMMA StartFailsCalm ==
  ASSUME TypeOK, ShapeInv, CalmInv, TypeOK', NEW n \in Ops, StartFails(n),
         ~disturbed, ~disturbed'
  PROVE  CalmInv'
<1>1. /\ op[n].object = n /\ registry[op[n].id] = n /\ n # None
      /\ op[n].kind # "delete"
  BY StartingFacts DEF StartFails
<1>2. /\ op[n].stage \in {"config", "starting"} /\ Stage(n, "settling")
      /\ PersistSandboxes(n)
      /\ object' = [o \in Ops |-> IF o \in {op[n].object, n}
                                  THEN [object[o] EXCEPT !.status = "error"]
                                  ELSE object[o]]
      /\ registry' = registry /\ process' = process
  BY <1>1 DEF StartFails
<1>3. /\ op'[n].stage = "settling" /\ op'[n].kind = op[n].kind
  BY <1>2, StageFacts
<1>4. \A o \in Ops : /\ object'[o].port = object[o].port
                     /\ object'[o].handle = object[o].handle
                     /\ o # n => object'[o].status = object[o].status
  BY <1>1, <1>2 DEF TypeOK, Object
<1>5. SameRegistry /\ \A p \in Ops : StaysOrEnds(p)
  BY <1>2, <1>4 DEF SameRegistry, StaysOrEnds
<1>6. \A id \in Ops : registry'[id] # None => object'[registry'[id]].port \in Ports
  BY <1>2, <1>4 DEF ShapeInv, Registered, TypeOK
<1>7. FileInv'
  BY <1>2, <1>6, FilePersisted DEF TypeOK
<1>8. ProgressInv(n)'
  BY <1>1, <1>3 DEF ProgressInv, Stopping, Starting
<1>9. QED
  BY <1>2, <1>4, <1>5, <1>7, <1>8, StageCalm DEF Busy, Stopping

\* A request that begins on a sandbox nobody else works on.
LEMMA StopRequestCalm ==
  ASSUME TypeOK, ShapeInv, CalmInv, NEW n \in Ops, NEW id \in Ops,
         NEW kind \in {"delete", "reset"}, StopRequest(n, kind, id), ~disturbed'
  PROVE  CalmInv'
<1> DEFINE o == registry[id]
           st == IF object[o].handle = None THEN "sweeping" ELSE "stopping"
           r == [kind |-> kind, id |-> id, object |-> o,
                 pid |-> object[o].handle, stage |-> st,
                 port |-> object[o].port, probe |-> {}]
<1>1. /\ op[n].stage = "none" /\ o # None
      /\ op' = [op EXCEPT ![n] = r]
      /\ object' = IF kind = "reset"
                   THEN [object EXCEPT ![o].status = "stopped"] ELSE object
      /\ ~disturbed /\ \A m \in Ops : Busy(m) => op[m].id # id
      /\ UNCHANGED <<registry, process, file, writes>>
  BY DEF StopRequest, IsNext
<1>2. /\ o \in Ops /\ id \in Registered
  BY <1>1 DEF TypeOK, Registered
<1>3. /\ r.kind = kind /\ r.stage = st /\ r.id = id
      /\ r.object = o /\ r.port = object[o].port
      /\ st \in {"sweeping", "stopping"}
      /\ st = "sweeping" => object[o].handle = None
  OBVIOUS
<1>4. \A x \in Ops : /\ object'[x].port = object[x].port
                     /\ object'[x].handle = object[x].handle
                     /\ object'[x].status = "running" => object[x].status = "running"
  BY <1>1, <1>2 DEF TypeOK, Object
<1>5. SameRegistry
  BY <1>1, <1>4 DEF SameRegistry
<1> HIDE DEF r, st
<1>6. op'[n] = r /\ \A m \in Ops : m # n => op'[m] = op[m]
  BY <1>1 DEF TypeOK
<1>7. process[n] = "none" /\ RequestInv(n)
  BY <1>1 DEF ShapeInv, RequestInv
<1>8. ApartInv'
  <2>1. /\ op[id].kind = "create" /\ op[id].stage \notin {"none", "probing"}
        /\ \A m \in Ops : op[m].stage # "none" => op[m].id \in Ops
    BY <1>2 DEF CalmInv, ApartInv, ShapeInv, RequestInv
  <2>2. \A m \in Ops : op'[m].stage = "probing" =>
          m # n /\ op[m].stage = "probing"
    BY <1>3, <1>6
  <2>3. \A m \in Ops : Busy(m)' => \/ m = n /\ op'[m].id = id
                                   \/ m # n /\ Busy(m) /\ op'[m].id = op[m].id
    BY <1>3, <1>6 DEF Busy
  <2>4. \A m, k \in Ops : Busy(m)' /\ Busy(k)' /\ op'[m].id = op'[k].id => m = k
    BY <1>1, <2>3 DEF CalmInv, ApartInv
  <2>5. ASSUME NEW i \in Registered'
        PROVE  /\ op'[i].kind = "create" /\ op'[i].stage \notin {"none", "probing"}
               /\ op'[registry'[i]].id = i
               /\ op'[registry'[i]].stage \notin {"none", "probing"} \cup Stopping
    <3>1. i \in Registered /\ i \in Ops /\ registry[i] \in Ops
      BY <1>1 DEF Registered, TypeOK
    <3>2. i # n /\ registry[i] # n
      BY <1>1, <3>1 DEF CalmInv, ApartInv
    <3>3. QED
      BY <1>1, <1>6, <3>1, <3>2 DEF CalmInv, ApartInv
  <2>6. ASSUME NEW m \in Ops, op'[m].stage # "none", op'[m].id # m
        PROVE  op'[op'[m].id].stage \notin {"none", "probing"}
    <3>1. CASE m = n
      BY <1>1, <1>3, <1>6, <2>1, <3>1
    <3>2. CASE m # n
      <4>1. op'[m] = op[m] /\ op[op[m].id].stage \notin {"none", "probing"}
        BY <1>6, <2>6, <3>2 DEF CalmInv, ApartInv
      <4>2. op[m].id \in Ops /\ op[m].id # n
        BY <1>1, <2>1, <2>6, <4>1
      <4>3. QED
        BY <1>6, <4>1, <4>2
    <3>3. QED
      BY <3>1, <3>2
  <2>7. QED
    BY <2>2, <2>4, <2>5, <2>6 DEF CalmInv, ApartInv
<1>9. ASSUME NEW p \in Ops, Living(p)'
      PROVE  p # n /\ Living(p) /\ process'[p] = process[p] /\ op'[p] = op[p]
  BY <1>1, <1>6, <1>7, <1>9 DEF Living
<1>10. ASSUME NEW m \in Ops, m # n PROVE ProgressInv(m)'
  <2>1. ProgressInv(m) /\ op'[m] = op[m]
    BY <1>6, <1>10 DEF CalmInv
  <2>2. op[m].stage \in Starting => object'[m].status # "running"
    BY <1>4, <2>1 DEF ProgressInv
  <2>3. QED
    BY <1>5, <1>9, <2>1, <2>2, ProgressKept
<1>11. ProgressInv(n)'
  <2>1. registry'[op'[n].id] = op'[n].object /\ object'[op'[n].object].port = op'[n].port
    BY <1>1, <1>2, <1>3, <1>4, <1>6
  <2>2. ASSUME op'[n].stage = "sweeping", NEW p \in Ops, Living(p)',
               op'[p].id = op'[n].id
        PROVE  process'[p] = "serving"
    <3>1. /\ Living(p) /\ process'[p] = process[p] /\ op[p].id = id
          /\ object[o].handle = None /\ p # None
      BY <1>3, <1>6, <1>9, <2>2, Nothing
    <3>2. QED
      BY <3>1 DEF CalmInv, OwnerInv
  <2>3. QED
    BY <1>3, <1>6, <2>1, <2>2 DEF ProgressInv, Stopping, Starting
<1>12. ASSUME NEW p \in Ops PROVE OwnerInv(p)'
  <2>1. CASE p = n
    BY <1>1, <1>7, <2>1 DEF OwnerInv, Living
  <2>2. CASE p # n
    BY <1>1, <1>4, <1>5, <1>6, <2>2, OwnerKept DEF CalmInv, Living
  <2>3. QED
    BY <2>1, <2>2
<1>13. QED
  BY <1>1, <1>5, <1>8, <1>10, <1>11, <1>12, SlotsSame, FileKept DEF CalmInv

\* A number that no request has used is no sandbox's.
LEMMA FreshNumber ==
  ASSUME TypeOK, ShapeInv, CalmInv, NEW n \in Ops,
         op[n].stage \in {"none", "probing"}
  PROVE  /\ n \notin Registered /\ \A i \in Registered : registry[i] # n
         /\ process[n] = "none" /\ registry[n] = None
         /\ \A m \in Ops : m # n /\ op[m].stage # "none" => op[m].id # n
BY DEF CalmInv, ApartInv, ShapeInv, RequestInv, Registered

LEMMA CreateRequestCalm ==
  ASSUME TypeOK, ShapeInv, CalmInv, NEW n \in Ops, CreateRequest(n), ~disturbed'
  PROVE  CalmInv'
<1> DEFINE r == [NoOp EXCEPT !.kind = "create", !.stage = "probing",
                             !.id = n, !.probe = Ports \ UsedPorts]
<1>1. /\ op[n].stage = "none" /\ Cardinality(Registered) < MaxSandboxes
      /\ op' = [op EXCEPT ![n] = r]
      /\ ~disturbed /\ \A m \in Ops : op[m].stage # "probing"
      /\ UNCHANGED <<registry, object, process, file, writes>>
  BY DEF CreateRequest, IsNext
<1>2. /\ r.kind = "create" /\ r.stage = "probing" /\ r.id = n
      /\ r.probe = Ports \ UsedPorts
  BY DEF NoOp
<1> HIDE DEF r
<1>3. op'[n] = r /\ \A m \in Ops : m # n => op'[m] = op[m]
  BY <1>1 DEF TypeOK
<1>4. /\ n \notin Registered /\ \A i \in Registered : registry[i] # n
      /\ process[n] = "none"
      /\ \A m \in Ops : m # n /\ op[m].stage # "none" => op[m].id # n
  BY <1>1, FreshNumber
<1>5. SameRegistry
  BY <1>1 DEF SameRegistry
<1>6. ApartInv'
  <2>1. \A m, k \in Ops :
          op'[m].stage = "probing" /\ op'[k].stage = "probing" => m = k
    BY <1>1, <1>3
  <2>2. \A m, k \in Ops : Busy(m)' /\ Busy(k)' /\ op'[m].id = op'[k].id => m = k
    BY <1>2, <1>3, <1>4 DEF CalmInv, ApartInv, Busy
  <2>3. ASSUME NEW i \in Registered'
        PROVE  /\ op'[i].kind = "create" /\ op'[i].stage \notin {"none", "probing"}
               /\ op'[registry'[i]].id = i
               /\ op'[registry'[i]].stage \notin {"none", "probing"} \cup Stopping
    <3>1. i \in Registered /\ i \in Ops /\ registry[i] \in Ops
      BY <1>1 DEF Registered, TypeOK
    <3>2. QED
      BY <1>1, <1>3, <1>4, <3>1 DEF CalmInv, ApartInv
  <2>4. ASSUME NEW m \in Ops, op'[m].stage # "none", op'[m].id # m
        PROVE  op'[op'[m].id].stage \notin {"none", "probing"}
    <3>1. m # n /\ op'[m] = op[m]
      BY <1>2, <1>3, <2>4
    <3>2. op[m].id \in Ops /\ op[m].id # n
      BY <1>4, <2>4, <3>1 DEF ShapeInv, RequestInv
    <3>3. QED
      BY <1>3, <2>4, <3>1, <3>2 DEF CalmInv, ApartInv
  <2>5. QED
    BY <2>1, <2>2, <2>3, <2>4 DEF ApartInv
<1>7. ASSUME NEW p \in Ops, Living(p)'
      PROVE  Living(p) /\ process'[p] = process[p] /\ op'[p] = op[p]
  BY <1>1, <1>3, <1>4, <1>7 DEF Living
<1>8. ASSUME NEW m \in Ops, m # n PROVE ProgressInv(m)'
  <2>1. ProgressInv(m) /\ op'[m] = op[m]
    BY <1>3, <1>8 DEF CalmInv
  <2>2. op[m].stage \in Starting => object'[m].status # "running"
    BY <1>1, <2>1 DEF ProgressInv
  <2>3. QED
    BY <1>5, <1>7, <2>1, <2>2, ProgressKept
<1>9. ProgressInv(n)'
  <2>1. Registered' = Registered /\ UsedPorts' = UsedPorts
    BY <1>5, RegistrySame
  <2>2. QED
    BY <1>1, <1>2, <1>3, <2>1 DEF ProgressInv, Stopping, Starting
<1>10. ASSUME NEW p \in Ops PROVE OwnerInv(p)'
  <2>1. CASE p = n
    BY <1>1, <1>4, <2>1 DEF OwnerInv, Living
  <2>2. CASE p # n
    BY <1>1, <1>3, <1>5, <2>2, OwnerKept DEF CalmInv, Living
  <2>3. QED
    BY <2>1, <2>2
<1>11. QED
  BY <1>1, <1>5, <1>6, <1>8, <1>9, <1>10, SlotsSame, FileKept DEF CalmInv

\* A port turns out to be taken: the search goes on, or ends.
LEMMA ProbeTakenCalm ==
  ASSUME TypeOK, ShapeInv, CalmInv, ~disturbed, NEW n \in Ops,
         NEW port \in op[n].probe, op[n].stage = "probing",
         op' = [op EXCEPT ![n].probe = @ \ {port},
                          ![n].stage = IF op[n].probe = {port}
                                       THEN "done" ELSE "probing"],
         UNCHANGED <<registry, object, writes, process, file>>
  PROVE  CalmInv'
<1> DEFINE st == IF op[n].probe = {port} THEN "done" ELSE "probing"
           r == [op[n] EXCEPT !.probe = @ \ {port}, !.stage = st]
<1>1. /\ r.kind = op[n].kind /\ r.stage = st /\ r.id = op[n].id
      /\ r.object = op[n].object /\ r.port = op[n].port
      /\ r.probe \subseteq op[n].probe
  BY DEF TypeOK, Op
<1>2. op' = [op EXCEPT ![n] = r] /\ st \in {"done", "probing"}
  BY DEF TypeOK
<1> HIDE DEF r, st
<1>3. op'[n] = r /\ \A m \in Ops : m # n => op'[m] = op[m]
  BY <1>2 DEF TypeOK
<1>4. SameRegistry
  BY DEF SameRegistry
<1>5. Registered' = Registered /\ UsedPorts' = UsedPorts
  BY <1>4, RegistrySame
<1>6. ApartInv'
  <2>1. Onward(n)
    BY <1>1, <1>2, <1>3 DEF Onward, Busy, Stopping
  <2>2. \A m \in Ops : Onward(m)
    BY <1>3, <2>1 DEF Onward, Busy
  <2>3. QED
    BY <1>5, <2>2, ApartKept DEF CalmInv
<1>7. \A p \in Ops : /\ op'[p].id = op[p].id /\ op'[p].port = op[p].port
                     /\ op'[p].object = op[p].object
  BY <1>1, <1>3
<1>8. ASSUME NEW m \in Ops, m # n PROVE ProgressInv(m)'
  <2>1. ProgressInv(m) /\ op'[m] = op[m]
    BY <1>3, <1>8 DEF CalmInv
  <2>2. op[m].stage \in Starting => object'[m].status # "running"
    BY <2>1 DEF ProgressInv
  <2>3. QED
    BY <1>4, <1>7, <2>1, <2>2, ProgressKept DEF Living
<1>9. ProgressInv(n)'
  <2>1. /\ Cardinality(Registered) < MaxSandboxes
        /\ op[n].probe \cap UsedPorts = {} /\ op[n].kind = "create"
    BY DEF CalmInv, ProgressInv, ShapeInv, RequestInv
  <2>2. QED
    BY <1>1, <1>2, <1>3, <1>5, <2>1 DEF ProgressInv, Stopping, Starting
<1>10. \A p \in Ops : OwnerInv(p)'
  BY <1>4, <1>7, OwnerKept DEF CalmInv, Living
<1>11. QED
  BY <1>4, <1>6, <1>8, <1>9, <1>10, SlotsSame, FileKept DEF CalmInv

LEMMA RegisteredFinite ==
  IsFiniteSet(Registered) /\ Cardinality(Registered) \in Nat
<1>1. 1 \in Int /\ MaxOps \in Int
  BY ConstantsOK
<1>2. IsFiniteSet(Ops)
  BY <1>1, FS_Interval DEF Ops
<1>3. QED
  BY <1>2, FS_Subset, FS_CardinalityType DEF Registered

\* A port turns out to be free: the sandbox is registered, with an object of
\* its own and a port nobody else has.
LEMMA ProbeFoundCalm ==
  ASSUME TypeOK, ShapeInv, CalmInv, TypeOK', ShapeInv', ~disturbed, ~disturbed',
         NEW n \in Ops, NEW port \in op[n].probe, op[n].stage = "probing",
         op' = [op EXCEPT ![n].stage = "saving", ![n].port = port, ![n].probe = {}],
         object' = [object EXCEPT ![n] = NewObject(port)],
         registry' = [registry EXCEPT ![n] = n], PersistSandboxes(n),
         process' = process
  PROVE  CalmInv'
<1> DEFINE r == [op[n] EXCEPT !.stage = "saving", !.port = port, !.probe = {}]
<1>1. /\ r.kind = op[n].kind /\ r.stage = "saving" /\ r.id = op[n].id
      /\ r.port = port
  BY DEF TypeOK, Op
<1>2. op' = [op EXCEPT ![n] = r]
  BY DEF TypeOK
<1> HIDE DEF r
<1>3. op'[n] = r /\ \A m \in Ops : m # n => op'[m] = op[m]
  BY <1>2 DEF TypeOK
<1>4. /\ n \notin Registered /\ \A i \in Registered : registry[i] # n
      /\ process[n] = "none" /\ n # None
      /\ \A m \in Ops : m # n /\ op[m].stage # "none" => op[m].id # n
  BY FreshNumber, Nothing
<1>5. /\ op[n].kind = "create" /\ op[n].id = n
      /\ Cardinality(Registered) < MaxSandboxes /\ op[n].probe \cap UsedPorts = {}
  BY DEF CalmInv, ProgressInv, ShapeInv, RequestInv
<1>6. /\ port \in Ports /\ object'[n] = NewObject(port)
      /\ object'[n].port = port /\ object'[n].status = "provisioning"
      /\ \A o \in Ops : o # n => object'[o] = object[o]
  <2>1. port \in Ports
    BY DEF TypeOK, Op
  <2>2. QED
    BY <2>1, NewObjectType DEF TypeOK
<1>7. /\ registry'[n] = n /\ \A i \in Ops : i # n => registry'[i] = registry[i]
      /\ Registered' = Registered \cup {n}
      /\ \A i \in Registered : registry'[i] = registry[i] /\ registry[i] \in Ops
  <2>1. registry'[n] = n /\ \A i \in Ops : i # n => registry'[i] = registry[i]
    BY DEF TypeOK
  <2>2. QED
    BY <1>4, <2>1 DEF Registered, TypeOK
<1>8. \A i \in Registered : /\ i \in Ops /\ i # n
                            /\ object'[registry'[i]] = object[registry[i]]
  BY <1>4, <1>6, <1>7 DEF Registered
<1>9. SlotsKept'
  <2>1. Cardinality(Registered') <= MaxSandboxes
    <3>1. IsFiniteSet(Registered) /\ Cardinality(Registered) \in Nat
      BY RegisteredFinite
    <3>2. Cardinality(Registered') = Cardinality(Registered) + 1
      BY <1>4, <1>7, <3>1, FS_AddElement
    <3>3. QED
      BY <1>5, <3>1, <3>2, ConstantsOK
  <2>2. \A i \in Registered : object[registry[i]].port \in UsedPorts
    BY DEF UsedPorts
  <2>3. \A a, b \in Registered' :
          object'[registry'[a]].port = object'[registry'[b]].port => a = b
    BY <1>5, <1>6, <1>7, <1>8, <2>2 DEF CalmInv, SlotsKept
  <2>4. QED
    BY <2>1, <2>3 DEF SlotsKept
<1>10. ApartInv'
  <2>1. \A m, k \in Ops :
          op'[m].stage = "probing" /\ op'[k].stage = "probing" => m = k
    BY <1>1, <1>3 DEF CalmInv, ApartInv
  <2>2. \A m, k \in Ops : Busy(m)' /\ Busy(k)' /\ op'[m].id = op'[k].id => m = k
    <3>1. op'[n].id = n /\ \A m \in Ops : m # n /\ Busy(m)' => Busy(m) /\ op'[m].id # n
      BY <1>1, <1>3, <1>4, <1>5 DEF Busy
    <3>2. \A m \in Ops : m # n => op'[m].id = op[m].id
      BY <1>3
    <3>3. \A m, k \in Ops : Busy(m) /\ Busy(k) /\ op[m].id = op[k].id => m = k
      BY DEF CalmInv, ApartInv
    <3>4. QED
      BY <3>1, <3>2, <3>3
  <2>3. ASSUME NEW i \in Registered'
        PROVE  /\ op'[i].kind = "create" /\ op'[i].stage \notin {"none", "probing"}
               /\ op'[registry'[i]].id = i
               /\ op'[registry'[i]].stage \notin {"none", "probing"} \cup Stopping
    <3>1. CASE i = n
      BY <1>1, <1>3, <1>5, <1>7, <3>1 DEF Stopping
    <3>2. CASE i # n
      <4>1. /\ i \in Registered /\ i \in Ops /\ registry[i] \in Ops
            /\ registry[i] # n /\ registry'[i] = registry[i]
        BY <1>4, <1>7, <1>8, <3>2
      <4>2. op'[i] = op[i] /\ op'[registry'[i]] = op[registry[i]]
        BY <1>3, <3>2, <4>1
      <4>3. QED
        BY <4>1, <4>2 DEF CalmInv, ApartInv
    <3>3. QED
      BY <3>1, <3>2
  <2>4. ASSUME NEW m \in Ops, op'[m].stage # "none", op'[m].id # m
        PROVE  op'[op'[m].id].stage \notin {"none", "probing"}
    <3>1. m # n /\ op'[m] = op[m]
      BY <1>1, <1>3, <1>5, <2>4
    <3>2. op[m].id \in Ops /\ op[m].id # n
      BY <1>4, <2>4, <3>1 DEF ShapeInv, RequestInv
    <3>3. QED
      <4>1. op[op[m].id].stage \notin {"none", "probing"}
        BY <2>4, <3>1 DEF CalmInv, ApartInv
      <4>2. QED
        BY <1>3, <3>1, <3>2, <4>1
  <2>5. QED
    BY <2>1, <2>2, <2>3, <2>4 DEF ApartInv
<1>11. ASSUME NEW p \in Ops, Living(p)'
       PROVE  Living(p) /\ p # n /\ op[p].stage # "none" /\ op[p].id # n
              /\ op'[p] = op[p]
  <2>1. Living(p) /\ p # n /\ op[p].stage # "none"
    BY <1>4, <1>11 DEF Living, ShapeInv, RequestInv
  <2>2. QED
    BY <1>3, <1>4, <2>1
<1>12. ASSUME NEW m \in Ops, m # n PROVE ProgressInv(m)'
  <2>1. ProgressInv(m) /\ RequestInv(m) /\ op'[m] = op[m]
        /\ op[m].stage # "probing"
    BY <1>3, <1>12 DEF CalmInv, ShapeInv, ApartInv
  <2>2. op[m].stage # "none" => op[m].id \in Ops /\ registry'[op[m].id] = registry[op[m].id]
    BY <1>4, <1>7, <1>12, <2>1 DEF RequestInv
  <2>3. op[m].stage \in Stopping =>
          /\ registry'[op[m].id] = op[m].object
          /\ object'[op[m].object].port = op[m].port
    <3> SUFFICES ASSUME op[m].stage \in Stopping
                 PROVE  /\ registry'[op[m].id] = op[m].object
                        /\ object'[op[m].object].port = op[m].port
      OBVIOUS
    <3>1. /\ op[m].id \in Ops /\ registry[op[m].id] = op[m].object
          /\ op[m].object \in Ops /\ op[m].object # None
      BY <2>1, <2>2, Nothing DEF ProgressInv, RequestInv, Stopping
    <3>2. op[m].object # n
      BY <1>4, <3>1 DEF Registered
    <3>3. QED
      BY <1>6, <2>1, <2>2, <3>1, <3>2 DEF ProgressInv, Stopping
  <2>4. op[m].stage \in Starting =>
          /\ registry'[op[m].id] = m /\ object'[m].port = op[m].port
          /\ object'[m].status # "running"
    BY <1>6, <1>12, <2>1, <2>2 DEF ProgressInv, Starting
  <2>5. op[m].kind = "delete" /\ op[m].stage \in {"settling", "done"} =>
          registry'[op[m].id] = None
    BY <2>1, <2>2 DEF ProgressInv
  <2>6. QED
    BY <1>11, <2>1, <2>3, <2>4, <2>5 DEF ProgressInv
<1>13. ProgressInv(n)'
  BY <1>1, <1>3, <1>5, <1>6, <1>7, <1>11, ZenonT(60) DEF ProgressInv, Stopping, Starting
<1>14. ASSUME NEW p \in Ops PROVE OwnerInv(p)'
  <2>1. CASE p = n
    BY <1>4, <2>1 DEF OwnerInv, Living
  <2>2. CASE p # n
    <3>1. OwnerInv(p) /\ op'[p] = op[p] /\ object'[p] = object[p]
      BY <1>3, <1>6, <2>2 DEF CalmInv
    <3>2. Living(p) => op[p].id \in Registered
      BY <3>1 DEF OwnerInv, Registered, ShapeInv, RequestInv, Living
    <3>3. Living(p) => /\ registry'[op[p].id] = registry[op[p].id]
                       /\ object'[registry'[op[p].id]] = object[registry[op[p].id]]
      BY <1>7, <1>8, <3>2
    <3>4. QED
      BY <3>1, <3>3 DEF OwnerInv, Living
  <2>3. QED
    BY <2>1, <2>2
<1>15. FileInv'
  <2>1. \A id \in Ops : registry'[id] # None => object'[registry'[id]].port \in Ports
    BY DEF ShapeInv, Registered
  <2>2. QED
    BY <2>1, FilePersisted DEF TypeOK
<1>16. QED
  BY <1>9, <1>10, <1>12, <1>13, <1>14, <1>15 DEF CalmInv

LEMMA ProbeCalm ==
  ASSUME TypeOK, ShapeInv, CalmInv, TypeOK', ShapeInv', NEW n \in Ops, Probe(n),
         ~disturbed, ~disturbed'
  PROVE  CalmInv'
<1>1. PICK port \in op[n].probe :
        /\ op[n].stage = "probing"
        /\ IF Bound(port)
           THEN /\ op' = [op EXCEPT ![n].probe = @ \ {port},
                                    ![n].stage = IF op[n].probe = {port}
                                                 THEN "done" ELSE "probing"]
                /\ UNCHANGED <<registry, object, writes, disturbed>>
           ELSE /\ op' = [op EXCEPT ![n].stage = "saving", ![n].port = port,
                                    ![n].probe = {}]
                /\ object' = [object EXCEPT ![n] = NewObject(port)]
                /\ registry' = [registry EXCEPT ![n] = n]
                /\ PersistSandboxes(n)
        /\ UNCHANGED <<process, file, bounds>>
  BY DEF Probe
<1>2. CASE Bound(port)
  BY <1>1, <1>2, ProbeTakenCalm
<1>3. CASE ~Bound(port)
  BY <1>1, <1>3, ProbeFoundCalm
<1>4. QED
  BY <1>2, <1>3

\* A sandbox leaves the registry once no process of it lives.
LEMMA DeletedCalm ==
  ASSUME TypeOK, ShapeInv, CalmInv, TypeOK', ShapeInv', NEW n \in Ops, Cleaned(n),
         op[n].kind = "delete", ~disturbed, ~disturbed'
  PROVE  CalmInv'
<1> DEFINE id == op[n].id
<1>1. /\ op[n].stage = "cleaning" /\ Stage(n, "settling") /\ PersistSandboxes(n)
      /\ registry' = [registry EXCEPT ![id] = None]
      /\ object' = object /\ process' = process
  BY DEF Cleaned
<1>2. /\ op'[n].stage = "settling" /\ op'[n].kind = op[n].kind
      /\ op'[n].id = op[n].id
      /\ \A m \in Ops : m # n => op'[m] = op[m]
      /\ \A m \in Ops : /\ op'[m].id = op[m].id /\ op'[m].port = op[m].port
                        /\ op'[m].object = op[m].object
  BY <1>1, StageFacts
<1>3. id \in Ops
  BY <1>1 DEF ShapeInv, RequestInv
<1>4. registry'[id] = None /\ \A i \in Ops : i # id => registry'[i] = registry[i]
  BY <1>1, <1>3 DEF TypeOK
<1>5. /\ \A i \in Registered' : i \in Registered /\ registry'[i] = registry[i]
      /\ UsedPorts' \subseteq UsedPorts
  <2>1. \A i \in Registered' : i \in Registered /\ registry'[i] = registry[i]
    BY <1>4 DEF Registered
  <2>2. QED
    BY <1>1, <2>1 DEF UsedPorts
<1>6. Cardinality(Registered') <= Cardinality(Registered)
      /\ Cardinality(Registered') \in Nat /\ Cardinality(Registered) \in Nat
  <2>1. Registered' \in SUBSET Registered
    BY <1>5
  <2>2. /\ IsFiniteSet(Registered')
        /\ Cardinality(Registered') <= Cardinality(Registered)
    BY <2>1, RegisteredFinite, FS_Subset
  <2>3. QED
    BY <2>2, RegisteredFinite, FS_CardinalityType
<1>7. SlotsKept'
  <2>1. Cardinality(Registered') <= MaxSandboxes
    BY <1>6, ConstantsOK DEF CalmInv, SlotsKept
  <2>2. QED
    BY <1>1, <1>5, <2>1 DEF CalmInv, SlotsKept
<1>8. ApartInv'
  <2>1. \A m \in Ops : Onward(m)
    BY <1>1, <1>2, StageOnward DEF Busy, Stopping
  <2>2. QED
    BY <1>5, <2>1, ApartKept DEF CalmInv
<1>9. \A p \in Ops : (Living(p)' <=> Living(p)) /\ process'[p] = process[p]
  BY <1>1 DEF Living
<1>10. ASSUME NEW m \in Ops, m # n PROVE ProgressInv(m)'
  <2>1. ProgressInv(m) /\ RequestInv(m) /\ op'[m] = op[m]
    BY <1>2, <1>10 DEF CalmInv, ShapeInv
  <2>2. Busy(m) => op[m].id \in Ops /\ registry'[op[m].id] = registry[op[m].id]
    BY <1>1, <1>4, <1>10, <2>1 DEF CalmInv, ApartInv, Busy, RequestInv
  <2>3. op[m].stage \in Stopping =>
          /\ registry'[op[m].id] = op[m].object
          /\ object'[op[m].object].port = op[m].port
    BY <1>1, <2>1, <2>2 DEF ProgressInv, Busy, Stopping
  <2>4. op[m].stage \in Starting =>
          /\ registry'[op[m].id] = m /\ object'[m].port = op[m].port
          /\ object'[m].status # "running"
    BY <1>1, <2>1, <2>2 DEF ProgressInv, Busy, Starting
  <2>5. op[m].kind = "delete" /\ op[m].stage \in {"settling", "done"} =>
          registry'[op[m].id] = None
    BY <1>4, <2>1 DEF ProgressInv, RequestInv
  <2>6. op[m].stage = "probing" => /\ Cardinality(Registered') < MaxSandboxes
                                   /\ op[m].probe \cap UsedPorts' = {}
    BY <1>5, <1>6, <2>1, ConstantsOK DEF ProgressInv
  <2>7. QED
    BY <1>2, <1>9, <2>1, <2>3, <2>4, <2>5, <2>6 DEF ProgressInv
<1>11. ProgressInv(n)'
  BY <1>2, <1>4 DEF ProgressInv, Stopping, Starting
<1>12. ASSUME NEW p \in Ops PROVE OwnerInv(p)'
  <2>1. OwnerInv(p) /\ (Living(p) => op[p].id \in Ops /\ op[p].id # id)
    BY <1>1 DEF CalmInv, ProgressInv, ShapeInv, RequestInv, Living
  <2>2. QED
    BY <1>1, <1>2, <1>4, <1>9, <2>1 DEF OwnerInv
<1>13. FileInv'
  <2>1. \A i \in Ops : registry'[i] # None => object'[registry'[i]].port \in Ports
    BY DEF ShapeInv, Registered
  <2>2. QED
    BY <1>1, <2>1, FilePersisted DEF TypeOK
<1>14. QED
  BY <1>7, <1>8, <1>10, <1>11, <1>12, <1>13 DEF CalmInv

LEMMA CleanedCalm ==
  ASSUME TypeOK, ShapeInv, CalmInv, TypeOK', ShapeInv', NEW n \in Ops, Cleaned(n),
         ~disturbed, ~disturbed'
  PROVE  CalmInv'
<1>1. CASE op[n].kind = "delete"
  BY <1>1, DeletedCalm
<1>2. CASE op[n].kind # "delete"
  <2>1. /\ op[n].stage = "cleaning" /\ Stage(n, "waiting")
        /\ UNCHANGED <<registry, object, process, file, writes>>
    BY <1>2 DEF Cleaned
  <2>2. /\ op'[n].stage = "waiting" /\ op'[n].kind = op[n].kind
        /\ op'[n].id = op[n].id /\ op'[n].object = op[n].object
        /\ op'[n].port = op[n].port
        /\ \A p \in Ops : op'[p].id = op[p].id
    BY <2>1, StageFacts
  <2>3. ProgressInv(n)'
    BY <1>2, <2>1, <2>2 DEF CalmInv, ProgressInv, Stopping, Starting, Living
  <2>4. SameRegistry /\ FileInv' /\ \A p \in Ops : StaysOrEnds(p)
    BY <2>1, FileKept DEF SameRegistry, CalmInv, StaysOrEnds
  <2>5. QED
    BY <2>1, <2>3, <2>4, StageCalm DEF Busy, Stopping
<1>3. QED
  BY <1>1, <1>2

\* A reset registers a new object with the port of the old one.
LEMMA ReinstallCalm ==
  ASSUME TypeOK, ShapeInv, CalmInv, TypeOK', ShapeInv', NEW n \in Ops, Reinstall(n),
         ~disturbed, ~disturbed'
  PROVE  CalmInv'
<1> DEFINE id == op[n].id
<1>1. /\ op[n].stage = "waiting" /\ Stage(n, "saving") /\ PersistSandboxes(n)
      /\ object' = [object EXCEPT ![n] = NewObject(op[n].port)]
      /\ registry' = [registry EXCEPT ![id] = n]
      /\ process' = process
  BY DEF Reinstall
<1>2. /\ op'[n].stage = "saving" /\ op'[n].kind = op[n].kind
      /\ op'[n].id = op[n].id /\ op'[n].port = op[n].port
      /\ \A m \in Ops : m # n => op'[m] = op[m]
      /\ \A m \in Ops : /\ op'[m].id = op[m].id /\ op'[m].port = op[m].port
                        /\ op'[m].object = op[m].object
  BY <1>1, StageFacts
<1>3. /\ id \in Ops /\ op[n].kind = "reset" /\ op[n].port \in Ports
      /\ op[n].object \in Ops /\ op[n].object # None /\ n # None
      /\ process[n] = "none"
  BY <1>1, Nothing DEF ShapeInv, RequestInv, Stopping, TypeOK
<1>4. /\ registry[id] = op[n].object /\ object[op[n].object].port = op[n].port
      /\ id \in Registered /\ id # n
      /\ \A p \in Ops : Living(p) => op[p].id # id
      /\ \A i \in Registered : i \in Ops /\ registry[i] \in Ops /\ registry[i] # n
  <2>1. /\ registry[id] = op[n].object /\ object[op[n].object].port = op[n].port
        /\ \A p \in Ops : Living(p) => op[p].id # id
    BY <1>1 DEF CalmInv, ProgressInv, Stopping
  <2>2. id \in Registered
    BY <1>3, <2>1 DEF Registered
  <2>3. \A i \in Registered : i \in Ops /\ registry[i] \in Ops /\ registry[i] # n
    BY <1>1 DEF CalmInv, ApartInv, Stopping, Registered, TypeOK
  <2>4. id # n
    BY <1>3, <2>2 DEF CalmInv, ApartInv
  <2>5. QED
    BY <2>1, <2>2, <2>3, <2>4
<1>5. /\ object'[n].port = op[n].port /\ object'[n].status = "provisioning"
      /\ \A o \in Ops : o # n => object'[o] = object[o]
  BY <1>1, <1>3, NewObjectType DEF TypeOK
<1>6. registry'[id] = n /\ \A i \in Ops : i # id => registry'[i] = registry[i]
  BY <1>1, <1>3 DEF TypeOK
<1>7. /\ Registered' = Registered /\ UsedPorts' = UsedPorts
      /\ \A i \in Registered :
           object'[registry'[i]].port = object[registry[i]].port
  <2>1. Registered' = Registered
    BY <1>3, <1>4, <1>6 DEF Registered
  <2>2. \A i \in Registered :
          object'[registry'[i]].port = object[registry[i]].port
    BY <1>4, <1>5, <1>6
  <2>3. QED
    BY <2>1, <2>2 DEF UsedPorts
<1>8. SlotsKept'
  BY <1>7 DEF CalmInv, SlotsKept
<1>9. ApartInv'
  <2>1. \A m \in Ops : Onward(m)
    BY <1>1, <1>2, StageOnward DEF Busy, Stopping
  <2>2. /\ \A m, k \in Ops :
             op'[m].stage = "probing" /\ op'[k].stage = "probing" => m = k
        /\ \A m, k \in Ops : Busy(m)' /\ Busy(k)' /\ op'[m].id = op'[k].id => m = k
    BY <2>1 DEF CalmInv, ApartInv, Onward
  <2>3. ASSUME NEW i \in Registered'
        PROVE  /\ op'[i].kind = "create" /\ op'[i].stage \notin {"none", "probing"}
               /\ op'[registry'[i]].id = i
               /\ op'[registry'[i]].stage \notin {"none", "probing"} \cup Stopping
    <3>1. /\ i \in Registered /\ i \in Ops /\ registry[i] \in Ops
          /\ registry[i] # n
      BY <1>4, <1>7
    <3>2. /\ op'[i].kind = "create" /\ op'[i].stage \notin {"none", "probing"}
      BY <2>1, <3>1 DEF CalmInv, ApartInv, Onward
    <3>3. CASE i = id
      BY <1>2, <1>6, <3>2, <3>3 DEF Stopping
    <3>4. CASE i # id
      BY <1>2, <1>6, <3>1, <3>2, <3>4 DEF CalmInv, ApartInv
    <3>5. QED
      BY <3>3, <3>4
  <2>4. ASSUME NEW m \in Ops, op'[m].stage # "none", op'[m].id # m
        PROVE  op'[op'[m].id].stage \notin {"none", "probing"}
    <3>1. op'[m].id = op[m].id /\ op[m].stage # "none" /\ op[m].id \in Ops
      BY <2>1, <2>4 DEF Onward, ShapeInv, RequestInv
    <3>2. op[op[m].id].stage \notin {"none", "probing"}
      BY <2>4, <3>1 DEF CalmInv, ApartInv
    <3>3. QED
      BY <2>1, <3>1, <3>2 DEF Onward
  <2>5. QED
    BY <2>2, <2>3, <2>4 DEF ApartInv
<1>10. \A p \in Ops : (Living(p)' <=> Living(p)) /\ process'[p] = process[p]
  BY <1>1 DEF Living
<1>11. ASSUME NEW m \in Ops, m # n PROVE ProgressInv(m)'
  <2>1. ProgressInv(m) /\ RequestInv(m) /\ op'[m] = op[m]
    BY <1>2, <1>11 DEF CalmInv, ShapeInv
  <2>2. Busy(m) => op[m].id \in Ops /\ registry'[op[m].id] = registry[op[m].id]
    BY <1>1, <1>6, <1>11, <2>1 DEF CalmInv, ApartInv, Busy, RequestInv
  <2>3. op[m].stage \in Stopping =>
          /\ registry'[op[m].id] = op[m].object
          /\ object'[op[m].object].port = op[m].port
    <3> SUFFICES ASSUME op[m].stage \in Stopping
                 PROVE  /\ registry'[op[m].id] = op[m].object
                        /\ object'[op[m].object].port = op[m].port
      OBVIOUS
    <3>1. /\ op[m].id \in Ops /\ registry[op[m].id] = op[m].object
          /\ registry'[op[m].id] = registry[op[m].id]
          /\ op[m].object \in Ops /\ op[m].object # None
      BY <2>1, <2>2, Nothing DEF ProgressInv, RequestInv, Busy, Stopping
    <3>2. op[m].object # n
      BY <1>4, <3>1 DEF Registered
    <3>3. QED
      BY <1>5, <2>1, <3>1, <3>2 DEF ProgressInv
  <2>4. op[m].stage \in Starting =>
          /\ registry'[op[m].id] = m /\ object'[m].port = op[m].port
          /\ object'[m].status # "running"
    BY <1>5, <1>11, <2>1, <2>2 DEF ProgressInv, Busy, Starting
  <2>5. op[m].kind = "delete" /\ op[m].stage \in {"settling", "done"} =>
          registry'[op[m].id] = None
    <3>1. op[m].kind = "delete" /\ op[m].stage \in {"settling", "done"} =>
            op[m].id \in Ops /\ registry[op[m].id] = None
      BY <2>1 DEF ProgressInv, RequestInv
    <3>2. QED
      BY <1>3, <1>4, <1>6, <3>1
  <2>6. QED
    BY <1>2, <1>7, <1>10, <2>1, <2>3, <2>4, <2>5 DEF ProgressInv
<1>12. ProgressInv(n)'
  BY <1>2, <1>3, <1>4, <1>5, <1>6, <1>10 DEF ProgressInv, Stopping, Starting
<1>13. ASSUME NEW p \in Ops PROVE OwnerInv(p)'
  <2>1. CASE p = n
    BY <1>1, <1>3, <2>1 DEF OwnerInv, Living
  <2>2. CASE p # n
    <3>1. OwnerInv(p) /\ object'[p] = object[p]
      BY <1>5, <2>2 DEF CalmInv
    <3>2. Living(p) => op[p].id \in Registered /\ op[p].id # id
      BY <1>4, <3>1 DEF OwnerInv, Registered, ShapeInv, RequestInv, Living
    <3>3. Living(p) => /\ registry'[op[p].id] = registry[op[p].id]
                       /\ object'[registry'[op[p].id]] = object[registry[op[p].id]]
      BY <1>4, <1>5, <1>6, <3>2
    <3>4. QED
      BY <1>2, <1>10, <3>1, <3>3 DEF OwnerInv
  <2>3. QED
    BY <2>1, <2>2
<1>14. FileInv'
  <2>1. \A i \in Ops : registry'[i] # None => object'[registry'[i]].port \in Ports
    BY DEF ShapeInv, Registered
  <2>2. QED
    BY <1>1, <2>1, FilePersisted DEF TypeOK
<1>15. QED
  BY <1>8, <1>9, <1>11, <1>12, <1>13, <1>14 DEF CalmInv

\* A process binds its ports, or ends.
LEMMA BindCalm ==
  ASSUME TypeOK, ShapeInv, CalmInv, NEW p \in Ops, Bind(p), ~disturbed
  PROVE  CalmInv'
<1> DEFINE b == IF Bound(op[p].port) THEN Ended(p) ELSE "serving"
<1>1. /\ process[p] = "starting" /\ process' = [process EXCEPT ![p] = b]
      /\ UNCHANGED <<registry, object, op, file, writes, disturbed>>
  BY DEF Bind
<1>2. b \in {"serving", "exited", "gone"} /\ SameRegistry
  BY <1>1 DEF Ended, SameRegistry
<1> HIDE DEF b
<1>3. process'[p] = b /\ \A m \in Ops : m # p => process'[m] = process[m]
  BY <1>1 DEF TypeOK
<1>4. \A m \in Ops : Onward(m)
  BY <1>1 DEF Onward, Busy
<1>5. ASSUME NEW q \in Ops
      PROVE  Living(q)' => Living(q) /\ (process[q] = "serving" => process'[q] = "serving")
  BY <1>1, <1>2, <1>3 DEF Living
<1>6. ASSUME NEW m \in Ops PROVE ProgressInv(m)' /\ OwnerInv(m)'
  <2>1. ProgressInv(m) /\ OwnerInv(m) /\ op'[m] = op[m]
    BY <1>1 DEF CalmInv
  <2>2. ProgressInv(m)'
    BY <1>1, <1>2, <1>5, <2>1, ProgressKept DEF ProgressInv
  <2>3. process'[m] = "exited" => process[m] \in {"starting", "serving", "exited"}
    BY <1>1, <1>3
  <2>4. QED
    BY <1>1, <1>2, <1>5, <2>1, <2>2, <2>3, OwnerKept
<1>7. Registered' = Registered
  BY <1>2, RegistrySame
<1>8. QED
  BY <1>1, <1>2, <1>4, <1>6, <1>7, SlotsSame, FileKept, ApartKept DEF CalmInv

\* A process exits, or its exit is handled: the handler marks the object of the
\* process.
LEMMA ExitCalm ==
  ASSUME TypeOK, ShapeInv, CalmInv, NEW p \in Ops, Exit(p) \/ ExitEvent(p),
         ~disturbed
  PROVE  CalmInv'
<1> DEFINE b == IF Living(p) THEN Ended(p) ELSE "gone"
<1>1. /\ process[p] \in {"starting", "serving", "exited"}
      /\ process' = [process EXCEPT ![p] = b]
      /\ UNCHANGED <<registry, op, file, writes, disturbed>>
  BY DEF Exit, ExitEvent, Living, bounds
<1>2. b \in {"exited", "gone"}
  BY DEF Ended
<1>3. \A o \in Ops : /\ object'[o].port = object[o].port
                     /\ object'[o].handle = object[o].handle
                     /\ object'[o].status = "running" => object[o].status = "running"
  <2>1. CASE UNCHANGED object
    BY <2>1
  <2>2. CASE ~UNCHANGED object
    <3>1. op[p].object \in Ops
      BY <2>2 DEF Exit, ExitEvent, ShapeInv, RequestInv
    <3>2. object' = [object EXCEPT ![op[p].object] =
                       [object[op[p].object] EXCEPT !.status = "error"]]
      BY <2>2, <3>1 DEF Exit, ExitEvent, Blame, TypeOK
    <3>3. QED
      BY <3>1, <3>2 DEF TypeOK, Object
  <2>3. QED
    BY <2>1, <2>2
<1>4. SameRegistry
  BY <1>1, <1>3 DEF SameRegistry
<1> HIDE DEF b
<1>5. process'[p] = b /\ \A m \in Ops : m # p => process'[m] = process[m]
  BY <1>1 DEF TypeOK
<1>6. \A m \in Ops : Onward(m)
  BY <1>1 DEF Onward, Busy
<1>7. ASSUME NEW q \in Ops
      PROVE  Living(q)' => Living(q) /\ process'[q] = process[q]
  BY <1>2, <1>5 DEF Living
<1>8. ASSUME NEW m \in Ops PROVE ProgressInv(m)' /\ OwnerInv(m)'
  <2>1. ProgressInv(m) /\ OwnerInv(m) /\ op'[m] = op[m]
    BY <1>1 DEF CalmInv
  <2>2. op[m].stage \in Starting => object'[m].status # "running"
    BY <1>3, <2>1 DEF ProgressInv
  <2>3. ProgressInv(m)'
    BY <1>1, <1>4, <1>7, <2>1, <2>2, ProgressKept
  <2>4. process'[m] = "exited" => process[m] \in {"starting", "serving", "exited"}
    BY <1>1, <1>5
  <2>5. QED
    BY <1>1, <1>3, <1>4, <1>7, <2>1, <2>3, <2>4, OwnerKept
<1>9. Registered' = Registered
  BY <1>4, RegistrySame
<1>10. QED
  BY <1>1, <1>4, <1>6, <1>8, <1>9, SlotsSame, FileKept, ApartKept DEF CalmInv

\* A restart while nothing is under way finds in the file what the registry
\* held, and knows no process of it.
LEMMA RestartCalm ==
  ASSUME TypeOK, ShapeInv, CalmInv, TypeOK', Restart, ~disturbed, ~disturbed'
  PROVE  CalmInv'
<1>1. /\ \A n \in Ops : ~Busy(n) /\ process[n] # "starting"
      /\ writes' = [n \in Ops |-> NoWrite]
      /\ process' = [p \in Ops |-> IF process[p] = "exited" THEN "gone"
                                   ELSE process[p]]
  BY DEF Restart
<1>2. \A n \in Ops : writes[n] = NoWrite
  BY <1>1 DEF ShapeInv, RequestInv, Busy
<1>3. file = Snapshot(registry, object)
  BY <1>2 DEF CalmInv, FileInv
<1>4. /\ file' = file
      /\ registry' = [n \in Ops |-> IF \E port \in Ports : <<n, port>> \in file
                                    THEN n ELSE None]
      /\ \A n \in Ops : /\ object'[n] \in Object
                        /\ object'[n].handle = None
                        /\ registry'[n] # None =>
                             /\ object'[n].port \in Ports
                             /\ <<n, object'[n].port>> \in file
      /\ \A n \in Ops :
           /\ op'[n] \in Op /\ op'[n].kind = op[n].kind
           /\ op'[n].id = op[n].id /\ op'[n].port = op[n].port
           /\ op'[n].object = None /\ op'[n].stage = op[n].stage
  <2>1. PICK f \in {file, {}} :
          /\ file' = f
          /\ f = file \/ \E n \in Ops : writes[n] # NoWrite
          /\ registry' = [n \in Ops |-> IF \E port \in Ports : <<n, port>> \in f
                                        THEN n ELSE None]
          /\ \A n \in Ops : /\ object'[n] \in Object
                            /\ object'[n].handle = None
                            /\ registry'[n] # None =>
                                 /\ object'[n].port \in Ports
                                 /\ <<n, object'[n].port>> \in f
          /\ \A n \in Ops :
               /\ op'[n] \in Op /\ op'[n].kind = op[n].kind
               /\ op'[n].id = op[n].id /\ op'[n].port = op[n].port
               /\ op'[n].object = None
               /\ op'[n].stage = IF Busy(n) THEN "lost" ELSE op[n].stage
    BY RestartFacts
  <2>2. f = file
    BY <1>2, <2>1
  <2>3. QED
    BY <1>1, <2>1, <2>2
<1>5. \A id \in Ops, port \in Ports : <<id, port>> \in file <=>
        id \in Registered /\ object[registry[id]].port = port
  BY <1>3 DEF Snapshot, Registered
<1>6. \A id \in Registered : id \in Ops /\ id # None
                             /\ object[registry[id]].port \in Ports
  BY Nothing DEF ShapeInv, Registered
<1>7. Registered' = Registered
  <2>1. \A id \in Ops : registry'[id] # None <=>
          \E port \in Ports : <<id, port>> \in file
    BY <1>4, Nothing
  <2>2. QED
    BY <1>5, <1>6, <2>1 DEF Registered
<1>8. \A id \in Registered : /\ registry'[id] = id
                             /\ object'[id].port = object[registry[id]].port
  <2> TAKE id \in Registered
  <2>1. registry'[id] = id
    BY <1>4, <1>5, <1>6
  <2>2. <<id, object'[id].port>> \in file /\ object'[id].port \in Ports
    BY <1>4, <1>6, <2>1
  <2>3. QED
    BY <1>5, <1>6, <2>1, <2>2
<1>9. SlotsKept'
  BY <1>7, <1>8 DEF CalmInv, SlotsKept
<1>10. ApartInv'
  <2>1. ASSUME NEW id \in Registered'
        PROVE  /\ op'[id].kind = "create" /\ op'[id].stage \notin {"none", "probing"}
               /\ op'[registry'[id]].id = id
               /\ op'[registry'[id]].stage \notin {"none", "probing"} \cup Stopping
    <3>1. id \in Registered /\ id \in Ops /\ registry'[id] = id
      BY <1>6, <1>7, <1>8
    <3>2. op[id].kind = "create" /\ op[id].stage \notin {"none", "probing"}
          /\ op[id].id = id
      BY <3>1 DEF CalmInv, ApartInv, ShapeInv, RequestInv
    <3>3. op[id].stage \notin Stopping
      BY <1>1, <3>1 DEF Busy, Stopping
    <3>4. QED
      BY <1>4, <3>1, <3>2, <3>3
  <2>2. \A n \in Ops : op[n].stage # "none" => op[n].id \in Ops
    BY DEF ShapeInv, RequestInv
  <2>3. \A m, n \in Ops : ~Busy(m)' /\ op'[m].stage # "probing"
    BY <1>1, <1>4 DEF Busy
  <2>4. ASSUME NEW m \in Ops, op'[m].stage # "none", op'[m].id # m
        PROVE  op'[op'[m].id].stage \notin {"none", "probing"}
    <3>1. op[m].id \in Ops /\ op[op[m].id].stage \notin {"none", "probing"}
      BY <1>4, <2>2, <2>4 DEF CalmInv, ApartInv
    <3>2. QED
      BY <1>4, <3>1
  <2>5. QED
    BY <2>1, <2>3, <2>4 DEF ApartInv
<1>11. ASSUME NEW n \in Ops PROVE ProgressInv(n)'
  <2>1. op'[n].stage = op[n].stage /\ op[n].stage \in {"none", "done", "lost"}
    BY <1>1, <1>4 DEF Busy
  <2>2. op'[n].kind = "delete" /\ op'[n].stage = "done" => registry'[op'[n].id] = None
    <3>1. op[n].kind = "delete" /\ op[n].stage = "done" =>
            op[n].id \in Ops /\ op[n].id \notin Registered
      BY DEF CalmInv, ProgressInv, ShapeInv, RequestInv, Registered
    <3>2. QED
      BY <1>4, <1>7, <3>1 DEF Registered
  <2>3. QED
    BY <2>1, <2>2 DEF ProgressInv, Stopping, Starting
<1>12. ASSUME NEW p \in Ops PROVE OwnerInv(p)'
  <2>1. Living(p)' => /\ Living(p) /\ process'[p] = "serving"
                      /\ process[p] = "serving"
    BY <1>1 DEF Living
  <2>2. Living(p) => op[p].id \in Registered
                     /\ object[registry[op[p].id]].port = op[p].port
    BY DEF CalmInv, OwnerInv, Registered, ShapeInv, RequestInv, Living
  <2>3. ASSUME Living(p)'
        PROVE  LET o == registry'[op'[p].id] IN
               o # None /\ object'[o].port = op'[p].port /\ object'[o].handle = None
    <3>1. /\ op'[p].id \in Registered /\ op'[p].id \in Ops /\ op'[p].id # None
          /\ object[registry[op'[p].id]].port = op'[p].port
      BY <1>4, <1>6, <2>1, <2>2, <2>3
    <3>2. QED
      BY <1>4, <1>8, <3>1
  <2>4. QED
    BY <1>4, <2>1, <2>3 DEF OwnerInv
<1>13. FileInv'
  <2>1. \A id \in Registered : registry'[id] = id
          /\ object'[registry'[id]].port = object[registry[id]].port
    BY <1>8
  <2>2. Snapshot(registry, object)' = Snapshot(registry, object)
    BY <1>7, <2>1 DEF Snapshot, Registered
  <2>3. QED
    BY <1>1, <1>3, <1>4, <2>2 DEF FileInv
<1>14. QED
  BY <1>9, <1>10, <1>11, <1>12, <1>13 DEF CalmInv

LEMMA CalmInit == Init => CalmInv
<1> SUFFICES ASSUME Init PROVE CalmInv
  OBVIOUS
<1>1. /\ Registered = {} /\ \A n \in Ops : op[n].stage = "none" /\ ~Living(n)
      /\ \A n \in Ops : /\ op[n].kind = "none" /\ process[n] = "none"
                        /\ writes[n] = NoWrite
  BY DEF Init, NoOp, Registered, Living
<1>2. SlotsKept
  BY <1>1, FS_EmptySet, ConstantsOK DEF SlotsKept
<1>3. ApartInv
  BY <1>1 DEF ApartInv, Busy
<1>4. \A n \in Ops : ProgressInv(n) /\ OwnerInv(n)
  BY <1>1 DEF ProgressInv, OwnerInv, Stopping, Starting
<1>5. FileInv
  <2>1. Snapshot(registry, object) = {}
    BY <1>1 DEF Snapshot, Registered
  <2>2. QED
    BY <1>1, <2>1 DEF FileInv, Init
<1>6. QED
  BY <1>2, <1>3, <1>4, <1>5 DEF CalmInv

\* What has overlapped stays in the history.
LEMMA DisturbedForGood ==
  ASSUME TypeOK, [Next]_vars, disturbed
  PROVE  disturbed'
BY DEF Next, vars, CreateRequest, Probe, Persisted, Spawn, Ready, StartFails,
       StopRequest, KillHandle, Sweep, Cleaned, Reinstall, Bind, Exit, ExitEvent,
       Restart, PersistSandboxes

LEMMA CalmStep ==
  ASSUME TypeOK, ShapeInv, CalmInv, ~disturbed, ~disturbed', [Next]_vars
  PROVE  CalmInv'
<1>1. TypeOK' /\ ShapeInv'
  BY ShapeStep
<1>2. CASE UNCHANGED vars
  <2>1. /\ UNCHANGED <<registry, object, op, process, file, writes, disturbed>>
        /\ SameRegistry /\ \A n \in Ops : Onward(n)
        /\ \A p \in Ops : Living(p)' <=> Living(p)
    BY <1>2 DEF vars, SameRegistry, Onward, Busy, Living
  <2>2. ASSUME NEW n \in Ops PROVE ProgressInv(n)' /\ OwnerInv(n)'
    BY <2>1 DEF CalmInv, ProgressInv, OwnerInv, Registered, UsedPorts
  <2>3. ApartInv'
    BY <2>1, ApartKept DEF CalmInv, Registered
  <2>4. QED
    BY <2>1, <2>2, <2>3, SlotsSame, FileKept DEF CalmInv
<1>3. ASSUME NEW p \in Ops, Exit(p) \/ ExitEvent(p) PROVE CalmInv'
  BY <1>3, ExitCalm
<1>4. QED
  BY <1>1, <1>2, <1>3, CreateRequestCalm, ProbeCalm, PersistedCalm, SpawnCalm,
     ReadyCalm, StartFailsCalm, StopRequestCalm, KillHandleCalm, SweepCalm,
     CleanedCalm, ReinstallCalm, BindCalm, RestartCalm DEF Next

\* The inductive invariant: shapes, and how far each request has come with its
\* sandbox, its file and its process as long as nothing has overlapped.
THEOREM Invariant == Spec => []SandboxInv
<1>1. Init => TypeOK /\ SandboxInv
  BY ShapeInit, CalmInit DEF SandboxInv
<1>2. TypeOK /\ SandboxInv /\ [Next]_vars => TypeOK' /\ SandboxInv'
  <2> SUFFICES ASSUME TypeOK, SandboxInv, [Next]_vars PROVE TypeOK' /\ SandboxInv'
    OBVIOUS
  <2>1. TypeOK' /\ ShapeInv'
    BY ShapeStep DEF SandboxInv
  <2>2. ~disturbed' => CalmInv'
    BY CalmStep, DisturbedForGood DEF SandboxInv
  <2>3. QED
    BY <2>1, <2>2 DEF SandboxInv
<1>3. QED
  BY <1>1, <1>2, PTL DEF Spec

-----------------------------------------------------------------------------
(***************************************************************************)
(* The properties.                                                         *)
(***************************************************************************)

\* Sandboxes keep the limit and to their own ports, as long as requests do not
\* overlap, however many there are of either.
THEOREM SlotsTheorem == Spec => []SlotsKept
<1>1. SandboxInv => SlotsKept
  BY DEF SandboxInv, CalmInv, SlotsKept
<1>2. QED
  BY <1>1, Invariant, PTL

\* A deleted sandbox does not come back, and between requests the file holds
\* what the registry holds.
THEOREM DurableTheorem == Spec => []RegistryDurable
<1>1. SandboxInv => RegistryDurable
  <2> SUFFICES ASSUME ShapeInv, CalmInv
               PROVE  /\ \A n \in Ops : op[n].kind = "delete" /\ op[n].stage = "done" =>
                           registry[op[n].id] = None
                      /\ (\A n \in Ops : ~Busy(n)) => file = Snapshot(registry, object)
    BY DEF SandboxInv, RegistryDurable
  <2>1. \A n \in Ops : op[n].kind = "delete" /\ op[n].stage = "done" =>
          registry[op[n].id] = None
    BY DEF CalmInv, ProgressInv
  <2>2. ASSUME \A n \in Ops : ~Busy(n)
        PROVE  file = Snapshot(registry, object)
    <3>1. \A n \in Ops : writes[n] = NoWrite
      BY <2>2 DEF ShapeInv, RequestInv, Busy
    <3>2. QED
      BY <3>1 DEF CalmInv, FileInv
  <2>3. QED
    BY <2>1, <2>2
<1>2. QED
  BY <1>1, Invariant, PTL

\* A living process belongs to a registered sandbox and is its only one: the
\* registered object knows at most one of them, and two that listen without its
\* knowledge would share a port.
THEOREM OwnedTheorem == Spec => []ProcessesOwned
<1>1. SandboxInv => ProcessesOwned
  <2> SUFFICES ASSUME ShapeInv, CalmInv, NEW p \in Ops, Living(p)
               PROVE  /\ op[p].id \in Registered
                      /\ \A q \in Ops : Living(q) /\ op[q].id = op[p].id => q = p
    BY DEF SandboxInv, ProcessesOwned
  <2> DEFINE o == registry[op[p].id]
  <2>1. /\ op[p].id \in Ops /\ o # None /\ object[o].port = op[p].port
        /\ \/ object[o].handle = p
           \/ object[o].handle = None /\ process[p] = "serving"
    BY DEF CalmInv, OwnerInv, ShapeInv, RequestInv, Living
  <2>2. ASSUME NEW q \in Ops, Living(q), op[q].id = op[p].id PROVE q = p
    <3>1. /\ object[o].port = op[q].port
          /\ \/ object[o].handle = q
             \/ object[o].handle = None /\ process[q] = "serving"
      BY <2>2 DEF CalmInv, OwnerInv
    <3>2. CASE object[o].handle = None
      <4>1. process[p] = "serving" /\ process[q] = "serving"
        BY <2>1, <3>1, <3>2, Nothing
      <4>2. QED
        BY <2>1, <3>1, <4>1 DEF ShapeInv
    <3>3. CASE object[o].handle # None
      BY <2>1, <3>1, <3>3
    <3>4. QED
      BY <3>2, <3>3
  <2>3. QED
    BY <2>1, <2>2 DEF Registered
<1>2. QED
  BY <1>1, Invariant, PTL

\* The body of FailsOnItsOwn.
BlamedRightly ==
  ~disturbed' => \A id \in Registered :
    LET o == registry[id] IN
    registry'[id] = o /\ object[o].status = "running"
      /\ object'[o].status = "error"
    => process[object[o].handle] = "exited"

\* The steps that declare an object failed: the start that fails works on one
\* that does not run, and the exit handler on that of its own process.
LEMMA StartFailsBlames ==
  ASSUME TypeOK, ShapeInv, CalmInv, NEW n \in Ops, StartFails(n),
         NEW o \in Ops, object[o].status = "running"
  PROVE  object'[o].status # "error"
<1>1. /\ op[n].object = n /\ registry[op[n].id] = n /\ object[n].status # "running"
  BY StartingFacts DEF StartFails
<1>2. object'[o] = object[o]
  BY <1>1 DEF StartFails
<1>3. QED
  BY <1>2

LEMMA ExitEventBlames ==
  ASSUME TypeOK, ShapeInv, CalmInv, NEW p \in Ops, ExitEvent(p),
         NEW o \in Ops, object[o].status = "running", object'[o].status = "error"
  PROVE  process[object[o].handle] = "exited"
<1>1. process[p] = "exited" /\ object' = Blame(p)
  BY DEF ExitEvent
<1>2. op[p].object = p /\ object[p].handle = p
  BY <1>1, Nothing DEF CalmInv, OwnerInv, ShapeInv, RequestInv
<1>3. o = p
  BY <1>1, <1>2 DEF Blame, TypeOK
<1>4. QED
  BY <1>1, <1>2, <1>3

LEMMA OthersBlameNobody ==
  ASSUME TypeOK, TypeOK', NEW n \in Ops, NEW o \in Ops,
         object[o].status = "running",
         \/ Probe(n) \/ Ready(n) \/ Reinstall(n) \/ Spawn(n)
         \/ \E id \in Ops, kind \in {"delete", "reset"} : StopRequest(n, kind, id)
  PROVE  object'[o].status # "error"
<1>1. CASE Probe(n)
  <2>1. PICK port \in op[n].probe :
          \/ UNCHANGED object
          \/ object' = [object EXCEPT ![n] = NewObject(port)]
    BY <1>1 DEF Probe
  <2>2. object'[o] = object[o] \/ object'[o] = NewObject(port)
    BY <2>1 DEF TypeOK
  <2>3. NewObject(port).status = "provisioning"
    BY DEF NewObject
  <2>4. QED
    BY <2>2, <2>3
<1>2. CASE Reinstall(n)
  <2>1. object'[o] = object[o] \/ object'[o] = NewObject(op[n].port)
    BY <1>2 DEF Reinstall, TypeOK
  <2>2. NewObject(op[n].port).status = "provisioning"
    BY DEF NewObject
  <2>3. QED
    BY <2>1, <2>2
<1>3. CASE Ready(n)
  <2>1. object' = [object EXCEPT ![op[n].object].status = "running"]
    BY <1>3 DEF Ready
  <2>2. object'[o].status \in {object[o].status, "running"}
    BY <2>1 DEF TypeOK, Object
  <2>3. QED
    BY <2>2
<1>4. CASE Spawn(n)
  <2>1. object' = [object EXCEPT ![op[n].object].handle = n]
    BY <1>4 DEF Spawn
  <2>2. object'[o].status = object[o].status
    BY <2>1 DEF TypeOK, Object
  <2>3. QED
    BY <2>2
<1>5. CASE \E id \in Ops, kind \in {"delete", "reset"} : StopRequest(n, kind, id)
  <2>1. PICK id \in Ops : \/ object' = object
                          \/ object' = [object EXCEPT ![registry[id]].status = "stopped"]
    BY <1>5 DEF StopRequest
  <2>2. object'[o].status \in {object[o].status, "stopped"}
    BY <2>1 DEF TypeOK, Object
  <2>3. QED
    BY <2>2
<1>6. QED
  BY <1>1, <1>2, <1>3, <1>4, <1>5

LEMMA RestartBlamesNobody ==
  ASSUME TypeOK, Restart, NEW o \in Ops
  PROVE  object'[o].status # "error"
<1>1. PICK f : object' = Restored(f)
  BY DEF Restart
<1> DEFINE port == CHOOSE q \in Ports : <<o, q>> \in f
           st == IF Bound(port) THEN "running" ELSE "stopped"
<1>2. \/ object'[o] = NewObject(None)
      \/ object'[o] = [port |-> port, handle |-> None, status |-> st]
  BY <1>1 DEF Restored
<1>3. st # "error"
  OBVIOUS
<1> HIDE DEF port, st
<1>4. QED
  BY <1>2, <1>3, NewObjectType DEF NewObject

\* A running sandbox is declared failed only because its own process exited.
THEOREM FailsTheorem == Spec => FailsOnItsOwn
<1>1. TypeOK /\ TypeOK' /\ SandboxInv /\ [Next]_vars => BlamedRightly
  <2> SUFFICES ASSUME TypeOK, TypeOK', SandboxInv, [Next]_vars, ~disturbed',
                      NEW id \in Registered,
                      object[registry[id]].status = "running",
                      object'[registry[id]].status = "error"
               PROVE  process[object[registry[id]].handle] = "exited"
    BY DEF BlamedRightly
  <2>1. ShapeInv /\ CalmInv
    BY DisturbedForGood DEF SandboxInv
  <2>2. registry[id] \in Ops
    BY DEF Registered, TypeOK
  <2>3. ~UNCHANGED object
    OBVIOUS
  <2>4. \A n \in Ops : ~StartFails(n)
    BY <2>1, <2>2, StartFailsBlames
  <2>5. \A n \in Ops : /\ ~Probe(n) /\ ~Ready(n) /\ ~Reinstall(n) /\ ~Spawn(n)
                       /\ ~\E i \in Ops, kind \in {"delete", "reset"} :
                             StopRequest(n, kind, i)
    BY <2>2, OthersBlameNobody
  <2>6. ~Restart
    BY <2>2, RestartBlamesNobody
  <2>7. \E p \in Ops : ExitEvent(p)
    <3>1. ~UNCHANGED vars
      BY <2>3 DEF vars
    <3>2. /\ \A n \in Ops : ~CreateRequest(n) /\ ~Persisted(n) /\ ~KillHandle(n)
                            /\ ~Sweep(n) /\ ~Bind(n) /\ ~Exit(n)
      BY <2>3 DEF CreateRequest, Persisted, KillHandle, Sweep, Bind, Exit
    <3>3. \A n \in Ops : ~Cleaned(n)
      BY <2>3 DEF Cleaned
    <3>4. QED
      BY <2>4, <2>5, <2>6, <3>1, <3>2, <3>3 DEF Next
  <2>8. QED
    BY <2>1, <2>2, <2>7, ExitEventBlames
<1>2. [][BlamedRightly]_vars <=> FailsOnItsOwn
  BY DEF BlamedRightly, FailsOnItsOwn
<1>3. QED
  BY <1>1, <1>2, TypeCorrect, Invariant, PTL DEF Spec
=============================================================================
