------------------------------- MODULE Instances -------------------------------
(****************************************************************************)
(* The life of an instance: handlers/instances.go on top of the             *)
(* orchestrator, with the boot-time sweep of reconcile.go.                  *)
(*                                                                          *)
(* An operation is a request handler or a task. It reads the row, runs an   *)
(* orchestrator plan and writes the row; nothing keeps two operations on    *)
(* one instance apart, and the process may crash between any two steps.     *)
(* Rows are keyed by id and ids are not reused; an instance's name is its   *)
(* id. Provider rows, gateway keys and shared-folder memberships, which no  *)
(* step here reads, are left out, and so is the browser pod (see Browser).  *)
(****************************************************************************)
EXTENDS Orchestrator, FiniteSets

CONSTANTS
  Running,     \* an instance that is running at the start
  MaxCalls,    \* bound on operations
  MaxAtOnce,   \* bound on operations in progress at once
  MaxFaults    \* bound on failed requests and writes and crashes of the control plane

ASSUME InstancesAssumption ==
  /\ Running \in Workloads
  /\ MaxCalls \in Nat \ {0} /\ MaxAtOnce \in 1..MaxCalls /\ MaxFaults \in Nat

Ids == Workloads
Ops == 1..MaxCalls

VARIABLES
  row,         \* status column; absent: no row yet, gone: deleted
  op,          \* each operation: Idle (not called yet), in progress, or Done
  faults,
  tainted,     \* history: instances whose removal failed or was overlapped
  unsettled    \* history: instances left creating by a failed write or sweep

instVars == <<row, op, faults, tainted, unsettled>>
instAll == <<orchVars, instVars>>

Idle == [kind |-> "idle"]
Done == [kind |-> "done"]

Builders == {"create", "clone", "restart", "async", "image", "migrate"}
Removers == {"delete", "cancel"}
Kinds == Builders \cup Removers \cup {"start", "stop", "list"}

Statuses == {"absent", "creating", "running", "stopping", "stopped", "restarting", "error", "gone"}

\* An operation: what it works on, the requests it has still to make, the
\* status it read (a listing), and whether a request of it failed. ctx is the state of a
\* clone's context; landing: cancelled while a request was on its way.
Operation(k, i, s, plan) ==
  [kind |-> k, inst |-> i, src |-> s, todo |-> plan,
   seen |-> IF k = "list" THEN row[i] ELSE "absent", failed |-> FALSE, ctx |-> "live"]

Active(o) == op[o] \notin {Idle, Done}

\* Operations are numbered in the order in which they are called.
NextCall(o) ==
  /\ op[o] = Idle /\ \A q \in 1..(o - 1) : op[q] # Idle
  /\ Cardinality({q \in Ops : Active(q)}) < MaxAtOnce

Operations ==
  [kind : Kinds, inst : Ids, src : Ids, todo : Seq(Requests \cup {"mark"}),
   seen : Statuses, failed : BOOLEAN, ctx : {"live", "cancelled", "landing"}]

InstTypeOK ==
  /\ OrchTypeOK
  /\ row \in [Ids -> Statuses]
  /\ op \in [Ops -> Operations \cup {Idle, Done}]
  /\ faults \in 0..MaxFaults
  /\ tainted \subseteq Ids /\ unsettled \subseteq Ids

InstInit ==
  /\ InitOrchestrator
  /\ workload = [i \in Ids |-> IF i = Running THEN "up" ELSE "none"]
  /\ volumes = {Running}
  /\ row = [i \in Ids |-> IF i = Running THEN "running" ELSE "absent"]
  /\ op = [o \in Ops |-> Idle]
  /\ faults = 0 /\ tainted = {} /\ unsettled = {}

Exists(i) == row[i] \notin {"absent", "gone"}

Busy(i, kinds) == \E o \in Ops : Active(o) /\ op[o].inst = i /\ op[o].kind \in kinds

\* UPDATE ... WHERE id: matches nothing once the row is deleted.
Updated(i, s) == IF Exists(i) THEN [row EXCEPT ![i] = s] ELSE row

--------------------------------------------------------------------------------
(* Handlers: the part up to the first request to the orchestrator.           *)

Begin(o, k, i, s, plan) ==
  /\ NextCall(o)
  /\ op' = [op EXCEPT ![o] = Operation(k, i, s, plan)]
  /\ tainted' = IF \/ k \in Removers /\ Busy(i, Builders)
                   \/ k \in Builders /\ Busy(i, Removers)
                THEN tainted \cup {i} ELSE tainted
  /\ UNCHANGED <<orchVars, faults, unsettled>>

\* Insert the row, then start the task that creates the container.
CreateInstance(o, i) ==
  /\ row[i] = "absent"
  /\ row' = [row EXCEPT ![i] = "creating"]
  /\ Begin(o, "create", i, i, CreatePlan)

CloneInstance(o, i, s) ==
  /\ row[i] = "absent" /\ Exists(s)
  /\ row' = [row EXCEPT ![i] = "creating"]
  /\ Begin(o, "clone", i, s, ClonePlan)

StartInstance(o, i) ==
  Exists(i) /\ Begin(o, "start", i, i, <<"start">>) /\ UNCHANGED row

StopInstance(o, i) ==
  Exists(i) /\ Begin(o, "stop", i, i, <<"stop">>) /\ UNCHANGED row

RestartInstance(o, i) ==
  Exists(i) /\ Begin(o, "restart", i, i, RestartPlan) /\ UNCHANGED row

\* Restart as a side effect (environment or mounts changed): only an instance
\* whose row says running.
restartInstanceAsync(o, i) ==
  /\ row[i] = "running"
  /\ Begin(o, "async", i, i, <<"mark">> \o RestartPlan)
  /\ UNCHANGED row

\* Only an instance whose container runs.
UpdateInstanceImage(o, i) ==
  /\ Exists(i) /\ GetInstanceStatus(i) = "running"
  /\ Begin(o, "image", i, i, <<"mark">> \o UpdateImagePlan)
  /\ UNCHANGED row

\* Migration of a legacy instance: the image changes, the status does not.
Migrate(o, i) ==
  Exists(i) /\ Begin(o, "migrate", i, i, UpdateImagePlan) /\ UNCHANGED row

\* Seeded error: the row goes first.
DeleteInstance_RowFirst(o, i) ==
  /\ Exists(i)
  /\ Begin(o, "delete", i, i, DeletePlan)
  /\ row' = [row EXCEPT ![i] = "gone"]

DeleteInstance(o, i) ==
  Exists(i) /\ Begin(o, "delete", i, i, DeletePlan) /\ UNCHANGED row

ListInstances(o, i) ==
  Exists(i) /\ Begin(o, "list", i, i, <<>>) /\ UNCHANGED row

\* Cancel of a clone task: cancel the context of the running clone and call
\* OnCancel without waiting for it. A request on its way may still arrive.
CancelClone(o, p) ==
  /\ Active(o) /\ op[o].kind = "clone" /\ op[o].ctx = "live"
  /\ NextCall(p)
  /\ \E c \in {"cancelled", "landing"} :
       /\ c = "landing" => op[o].todo # <<>>
       /\ op' = [op EXCEPT ![o].ctx = c,
                           ![p] = Operation("cancel", op[o].inst, op[o].inst, DeletePlan)]
       /\ tainted' = IF c = "landing" \/ Busy(op[o].inst, (Builders \ {"clone"}) \cup Removers)
                     THEN tainted \cup {op[o].inst} ELSE tainted
  /\ UNCHANGED <<orchVars, row, faults, unsettled>>

--------------------------------------------------------------------------------
(* An operation makes its requests, then writes the outcome.                 *)

Target(o) == IF Head(op[o].todo) \in {"haltSource", "startSource"} THEN op[o].src ELSE op[o].inst

HasRequest(o) == Active(o) /\ op[o].todo # <<>> /\ Head(op[o].todo) # "mark"

MarkRestarting(o) ==
  /\ Active(o) /\ op[o].todo # <<>> /\ Head(op[o].todo) = "mark"
  /\ row' = Updated(op[o].inst, "restarting")
  /\ op' = [op EXCEPT ![o].todo = Tail(@)]
  /\ UNCHANGED <<orchVars, faults, tainted, unsettled>>

Request(o) ==
  /\ HasRequest(o) /\ op[o].ctx = "live"
  /\ Perform(Head(op[o].todo), Target(o))
  /\ op' = [op EXCEPT ![o].todo = Tail(@)]
  /\ UNCHANGED <<row, faults, tainted, unsettled>>

\* The operation sees an error and stops, unless the plan ignores it.
SeesError(o) ==
  op' = [op EXCEPT ![o] = IF ErrorIgnored(Head(op[o].todo))
                          THEN [op[o] EXCEPT !.todo = Tail(op[o].todo)]
                          ELSE [op[o] EXCEPT !.todo = <<>>, !.failed = TRUE]]

\* The request arrives although its context is cancelled: it takes effect, and
\* the operation sees an error.
RequestLands(o) ==
  /\ HasRequest(o) /\ op[o].ctx = "landing"
  /\ Perform(Head(op[o].todo), Target(o))
  /\ op' = [op EXCEPT ![o] = IF ErrorIgnored(Head(op[o].todo))
                             THEN [op[o] EXCEPT !.todo = Tail(op[o].todo), !.ctx = "cancelled"]
                             ELSE [op[o] EXCEPT !.todo = <<>>, !.failed = TRUE, !.ctx = "cancelled"]]
  /\ UNCHANGED <<row, faults, tainted, unsettled>>

\* The backend refuses the request, or the context is cancelled.
RequestRefused(o) ==
  /\ HasRequest(o)
  /\ \/ op[o].ctx = "cancelled"
     \/ Refused(Head(op[o].todo), Target(o))
  /\ SeesError(o)
  /\ UNCHANGED <<orchVars, row, faults, tainted, unsettled>>

\* The network, the backend or the caller's connection fails.
RequestFails(o) ==
  /\ HasRequest(o) /\ op[o].ctx = "live"
  /\ faults < MaxFaults /\ faults' = faults + 1
  /\ Fail(Head(op[o].todo), Target(o))
  /\ SeesError(o)
  /\ tainted' = IF op[o].kind \in Removers THEN tainted \cup {op[o].inst} ELSE tainted
  /\ UNCHANGED <<row, unsettled>>

\* resolveStatus: the row as it was read, and the orchestrator's answer now.
\* The 15 s a restart must have lasted are left to the scheduler.
resolveStatus(i, seen) ==
  CASE seen = "stopping" /\ GetInstanceStatus(i) = "stopped" -> "stopped"
    [] seen = "restarting" /\ GetInstanceStatus(i) = "running" -> "running"
    [] OTHER -> row[i]

\* The status each kind of operation writes at its end.

CreateOutcome(o) == IF op[o].failed THEN "error" ELSE "running"

RestartOutcome(o) == IF op[o].failed THEN row[op[o].inst] ELSE "restarting"

AsyncOutcome(o) == IF op[o].failed THEN "error" ELSE row[op[o].inst]

ImageOutcome(o) ==
  IF op[o].failed /\ GetInstanceStatus(op[o].inst) # "running" THEN "error" ELSE "running"

Outcome(o) ==
  LET keep == row[op[o].inst] IN
  CASE op[o].kind \in {"create", "clone"} -> CreateOutcome(o)
    [] op[o].kind = "restart" -> RestartOutcome(o)
    [] op[o].kind = "async" -> AsyncOutcome(o)
    [] op[o].kind = "image" -> ImageOutcome(o)
    [] op[o].kind = "start" -> IF op[o].failed THEN keep ELSE "running"
    [] op[o].kind = "stop" -> IF op[o].failed THEN keep ELSE "stopping"
    [] op[o].kind = "list" -> resolveStatus(op[o].inst, op[o].seen)
    [] op[o].kind = "migrate" -> keep
    [] op[o].kind \in Removers -> "gone"

\* Operation o has ended. Only the order of those in progress matters, so the
\* ended ones are kept in front.
Ending(o) ==
  op' = [q \in Ops |-> IF q = 1 THEN Done ELSE IF q <= o THEN op[q - 1] ELSE op[q]]

\* A failed removal is only logged: the row is deleted all the same.
Settle(o) ==
  /\ Active(o) /\ op[o].todo = <<>>
  /\ row' = Updated(op[o].inst, Outcome(o))
  /\ Ending(o)
  /\ UNCHANGED <<orchVars, faults, tainted, unsettled>>

\* The row cannot be written, or deleted: no caller looks at the error.
SettleFails(o) ==
  /\ Active(o) /\ op[o].todo = <<>>
  /\ faults < MaxFaults /\ faults' = faults + 1
  /\ unsettled' = IF op[o].kind \in {"create", "clone"} THEN unsettled \cup {op[o].inst} ELSE unsettled
  /\ Ending(o)
  /\ UNCHANGED <<orchVars, row, tainted>>

\* reconcileStuckTasks: no operation of the last process is left.
\* Seeded error: the sweep forgets rows that are being created.
reconcileStuckTasks_Partial ==
  row' = [i \in Ids |-> IF row[i] \in {"restarting", "stopping"} THEN "error" ELSE row[i]]

reconcileStuckTasks ==
  row' = [i \in Ids |-> IF row[i] \in {"creating", "restarting", "stopping"} THEN "error" ELSE row[i]]

\* The control plane crashes and boots again. A sweep that fails is only logged.
Crash ==
  /\ faults < MaxFaults /\ faults' = faults + 1
  /\ op' = [o \in Ops |-> IF Active(o) THEN Done ELSE op[o]]
  /\ \/ reconcileStuckTasks /\ unsettled' = {}
     \/ UNCHANGED row /\ unsettled' = unsettled \cup {i \in Ids : row[i] = "creating"}
  /\ UNCHANGED <<orchVars, tainted>>

--------------------------------------------------------------------------------
OpStep(o) ==
  \/ MarkRestarting(o)
  \/ Request(o)
  \/ RequestLands(o)
  \/ RequestRefused(o)
  \/ RequestFails(o)
  \/ Settle(o)
  \/ SettleFails(o)

Handler(o) == \E i \in Ids :
  \/ CreateInstance(o, i)
  \/ \E s \in Ids : CloneInstance(o, i, s)
  \/ StartInstance(o, i)
  \/ StopInstance(o, i)
  \/ RestartInstance(o, i)
  \/ restartInstanceAsync(o, i)
  \/ UpdateInstanceImage(o, i)
  \/ Migrate(o, i)
  \/ DeleteInstance(o, i)
  \/ ListInstances(o, i)

Environment == \E i \in Ids :
  WorkloadReady(i) /\ UNCHANGED instVars

InstNext ==
  \/ \E o \in Ops : Handler(o) \/ OpStep(o)
  \/ \E o, p \in Ops : CancelClone(o, p)
  \/ Environment
  \/ Crash

InstSpec == InstInit /\ [][InstNext]_instAll

--------------------------------------------------------------------------------
(* Properties.                                                               *)

\* A row says creating only while its create or clone task is at work: every
\* failure path writes an outcome, and the boot-time sweep settles the rows a
\* crash left (handlers/instances.go, reconcile.go), unless the write of the
\* outcome or the sweep failed, which lasts until the next sweep.
CreatingHasTask ==
  \A i \in Ids : row[i] = "creating" /\ i \notin unsettled => Busy(i, {"create", "clone"})

\* A container or a volume never outlives the row of its instance, across
\* failures, cancelled clones and crashes in the middle of a removal, unless
\* the removal failed or overlapped an operation that builds the container
\* (DeleteInstance and cloneOnCancel delete the row last).
NoOrphanWorkload ==
  \A i \in Ids :
    row[i] = "gone" /\ i \notin tainted => workload[i] = "none" /\ i \notin volumes

\* Only a deletion or the cleanup of a cancelled clone removes an instance's
\* volumes: a restart, an image update and a clone keep every byte, although
\* Docker removes and recreates the container for them.
KeepsData ==
  [][\A i \in Ids : Exists(i) /\ i \in volumes /\ i \notin volumes' => Busy(i, Removers)]_instAll
================================================================================
