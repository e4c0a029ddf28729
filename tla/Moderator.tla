-------------------------------- MODULE Moderator --------------------------------
(****************************************************************************)
(* The kanban moderator and one task of one board: internal/moderator, its  *)
(* adapters in internal/modwiring and handlers/kanban.go.                   *)
(*                                                                          *)
(* EnqueueTask starts a goroutine (a run) that dispatches the task to an    *)
(* instance, talks to the agent there, collects its files and writes the    *)
(* outcome. Nothing keeps a second run of the same task from starting, and  *)
(* the handlers that stop, reopen and delete the task work beside them. The *)
(* module is one lifetime of the process. Comments, prompts and the souls   *)
(* used to rank candidates are left out: no step depends on them.           *)
(*                                                                          *)
(* Store calls take the run's context and fail when it is cancelled. The    *)
(* workspace calls take it too, but over an SSH connection that is already  *)
(* there they do not look at it.                                            *)
(****************************************************************************)
EXTENDS Naturals, FiniteSets

CONSTANTS
  Runs,        \* goroutines EnqueueTask can start, reused when they end
  Instances,
  Files,       \* relative paths of output files
  None,
  MaxFaults    \* bound on failures of the database, the network and the agent, and
               \* on changes by hand of boards, instances and statuses

Statuses == {"draft", "todo", "dispatching", "in_progress", "done", "failed", "archived"}

ASSUME ModeratorAssumption ==
  /\ None \notin Runs \cup Instances \cup Files \cup Statuses
  /\ MaxFaults \in Nat

VARIABLES
  status,      \* the task row's status; None: no row
  assigned,    \* its assigned_instance_id
  board,       \* the board row's eligible_instances; None: no row
  live,        \* instances that have a row
  running,     \* the entry of s.running: the run whose cancel it holds, or None
  cancelled,   \* runs whose context is cancelled
  rpc,         \* where each run is
  inst,        \* the instance a run chose, then the one it talks to
  pending,     \* files a run has still to collect
  wrote,       \* the file a run has written and not yet recorded
  rows,        \* artifact rows of the task, by path
  disk,        \* artifact files of the task on the control plane
  outbox,      \* files in ~/tasks/<id>/ of each instance
  deleting,    \* where DeleteKanbanTask is
  astray,      \* history: the status is not the runs' own: it was set by hand, or
               \* the write of a last status failed
  faults

rowVars == <<status, assigned, board, astray>>
runVars == <<running, cancelled>>
localVars == <<inst, pending, wrote>>
fileVars == <<rows, disk, outbox>>
modVars == <<status, assigned, board, live, running, cancelled, rpc, inst, pending, wrote,
             rows, disk, outbox, deleting, astray, faults>>

ModDataOK ==
  /\ status \in Statuses \cup {None} /\ assigned \in Instances \cup {None}
  /\ board \in (SUBSET Instances) \cup {None} /\ live \subseteq Instances
  /\ running \in Runs \cup {None} /\ cancelled \subseteq Runs
  /\ rpc \in [Runs -> {"idle", "dispatch", "assign", "load", "begin", "dial", "stream",
                       "collect", "record", "clean", "finish", "failDispatch", "fail", "stop", "leave"}]
  /\ inst \in [Runs -> Instances \cup {None}]
  /\ pending \in [Runs -> SUBSET Files] /\ wrote \in [Runs -> Files \cup {None}]
  /\ rows \subseteq Files /\ disk \subseteq Files /\ outbox \in [Instances -> SUBSET Files]
  /\ deleting \in {"no", "files", "rows", "kept", "gone"} /\ faults \in 0..MaxFaults

ModTypeOK == ModDataOK /\ astray \in BOOLEAN

\* A board with instances, and no task yet.
ModInit ==
  /\ status = None /\ assigned = None
  /\ board = Instances /\ live = Instances
  /\ running = None /\ cancelled = {}
  /\ rpc = [r \in Runs |-> "idle"] /\ inst = [r \in Runs |-> None]
  /\ pending = [r \in Runs |-> {}] /\ wrote = [r \in Runs |-> None]
  /\ rows = {} /\ disk = {} /\ outbox = [i \in Instances |-> {}]
  /\ deleting = "no" /\ astray = FALSE /\ faults = 0

Fault == faults < MaxFaults /\ faults' = faults + 1

RunGoto(r, from, to) == rpc[r] = from /\ rpc' = [rpc EXCEPT ![r] = to]

\* The statuses of a task somebody works on.
Transient == {"dispatching", "in_progress"}

WriteStatus(s) == status' = s /\ astray' = FALSE

\* Store.UpdateTask of the status: no row, no effect.
SetStatus(s) == WriteStatus(IF status = None THEN None ELSE s)

\* It fails. If it was the last of a run the row stays as it is.
KeepStatus == UNCHANGED <<status, astray>>
LoseStatus == Fault /\ UNCHANGED status /\ astray' = (astray \/ status \in Transient)

--------------------------------------------------------------------------------
(* EnqueueTask and the handlers.                                             *)

\* Register the cancel function, over an entry that may be there, and start.
EnqueueTask(r) ==
  /\ RunGoto(r, "idle", "dispatch")
  /\ running' = r
  /\ UNCHANGED cancelled

\* CreateKanbanTask: a draft, or a task that is enqueued at once. The task
\* that was deleted had another id.
CreateDraft ==
  /\ status = None /\ deleting = "no" /\ board # None
  /\ WriteStatus("draft")
  /\ UNCHANGED <<assigned, board, live, runVars, rpc, localVars, fileVars, deleting, faults>>

CreateKanbanTask(r) ==
  /\ status = None /\ deleting = "no" /\ board # None
  /\ WriteStatus("todo")
  /\ EnqueueTask(r)
  /\ UNCHANGED <<assigned, board, live, localVars, fileVars, deleting, faults>>

\* StartKanbanTask: only a draft.
StartKanbanTask(r) ==
  /\ status = "draft"
  /\ WriteStatus("todo")
  /\ EnqueueTask(r)
  /\ UNCHANGED <<assigned, board, live, localVars, fileVars, deleting, faults>>

\* ReopenKanbanTask: whatever the status is, and even if it cannot be written.
ReopenKanbanTask(r) ==
  /\ status # None
  /\ (SetStatus("todo") /\ UNCHANGED faults) \/ (KeepStatus /\ Fault)
  /\ EnqueueTask(r)
  /\ UNCHANGED <<assigned, board, live, localVars, fileVars, deleting>>

\* StopKanbanTask: cancel the run whose cancel function is in the map.
StopKanbanTask ==
  /\ running # None
  /\ cancelled' = cancelled \cup {running}
  /\ UNCHANGED <<rowVars, live, running, rpc, localVars, fileVars, deleting, faults>>

\* PatchKanbanTask: any status, whoever works on the task.
PatchKanbanTask(s) ==
  /\ status # None /\ Fault
  /\ status' = s /\ astray' = (s \in Transient)
  /\ UNCHANGED <<assigned, board, live, runVars, rpc, localVars, fileVars, deleting>>

\* DeleteKanbanTask: the files, then the rows of comments and artifacts, then
\* the task. A run of it is not stopped. Errors are ignored: a step that fails
\* leaves what it should delete, and the next one follows.
DeleteFiles ==
  /\ status # None /\ deleting \in {"no", "kept"} /\ deleting' = "files"
  /\ (disk' = {} /\ UNCHANGED faults) \/ (UNCHANGED disk /\ Fault)
  /\ UNCHANGED <<rowVars, live, runVars, rpc, localVars, rows, outbox>>

DeleteRows ==
  /\ deleting = "files" /\ deleting' = "rows"
  /\ (rows' = {} /\ UNCHANGED faults) \/ (UNCHANGED rows /\ Fault)
  /\ UNCHANGED <<rowVars, live, runVars, rpc, localVars, disk, outbox>>

DeleteTaskRow ==
  /\ deleting = "rows"
  /\ \/ deleting' = "gone" /\ WriteStatus(None) /\ UNCHANGED faults
     \/ deleting' = "kept" /\ KeepStatus /\ Fault
  /\ UNCHANGED <<assigned, board, live, runVars, rpc, localVars, fileVars>>

\* UpdateKanbanBoard, DeleteKanbanBoard (with its tasks, not their artifacts)
\* and the deletion of an instance.
UpdateKanbanBoard ==
  /\ board # None /\ Fault
  /\ board' \in SUBSET Instances
  /\ UNCHANGED <<status, assigned, astray, live, runVars, rpc, localVars, fileVars, deleting>>

DeleteKanbanBoard ==
  /\ board # None /\ deleting = "no" /\ Fault
  /\ board' = None /\ WriteStatus(None)
  /\ deleting' = IF status = None THEN "no" ELSE "gone"
  /\ UNCHANGED <<assigned, live, runVars, rpc, localVars, fileVars>>

DeleteInstance(i) ==
  /\ i \in live /\ Fault
  /\ live' = live \ {i}
  /\ UNCHANGED <<rowVars, runVars, rpc, localVars, fileVars, deleting>>

--------------------------------------------------------------------------------
(* Dispatch.                                                                 *)

Candidates == IF board = None THEN {} ELSE board \cap live

\* Load the task and the board, drop instances that are gone, rank: whatever
\* the model answers, or fails to answer, a candidate is chosen.
Dispatch(r) ==
  /\ RunGoto(r, "dispatch", "assign")
  /\ r \notin cancelled /\ status # None
  /\ \E i \in Candidates : inst' = [inst EXCEPT ![r] = i]
  /\ UNCHANGED <<rowVars, live, runVars, pending, wrote, fileVars, deleting, faults>>

\* A cancelled context, no row, no candidate, or a failure.
DispatchFails(r) ==
  /\ RunGoto(r, "dispatch", IF r \in cancelled THEN "stop" ELSE "failDispatch")
  /\ \/ (r \in cancelled \/ status = None \/ Candidates = {}) /\ UNCHANGED faults
     \/ Fault
  /\ UNCHANGED <<rowVars, live, runVars, localVars, fileVars, deleting>>

\* The routing comment and the update of the row.
Assign(r) ==
  /\ RunGoto(r, "assign", "load")
  /\ r \notin cancelled
  /\ SetStatus("dispatching")
  /\ assigned' = IF status = None THEN assigned ELSE inst[r]
  /\ UNCHANGED <<board, live, runVars, localVars, fileVars, deleting, faults>>

AssignFails(r) ==
  /\ RunGoto(r, "assign", IF r \in cancelled THEN "stop" ELSE "failDispatch")
  /\ (r \in cancelled /\ UNCHANGED faults) \/ Fault
  /\ UNCHANGED <<rowVars, live, runVars, localVars, fileVars, deleting>>

--------------------------------------------------------------------------------
(* Run.                                                                      *)

\* The error Run returns is ErrStopped or Canceled if the context is done.
RunFails(r) == IF r \in cancelled THEN "stop" ELSE "fail"

\* GetTask: the row's assigned instance, which another run may have set.
\* injectPriorArtifacts uploads to it the files of earlier runs that are on
\* disk; one that is too big or fails is skipped, and all if the list fails.
LoadTask(r) ==
  /\ RunGoto(r, "load", "begin")
  /\ r \notin cancelled /\ status # None /\ assigned # None
  /\ inst' = [inst EXCEPT ![r] = assigned]
  /\ \E F \in SUBSET (rows \cap disk) : outbox' = [outbox EXCEPT ![assigned] = @ \cup F]
  /\ UNCHANGED <<rowVars, live, runVars, pending, wrote, rows, disk, deleting, faults>>

LoadFails(r) ==
  /\ RunGoto(r, "load", RunFails(r))
  /\ \/ (r \in cancelled \/ status = None \/ assigned = None) /\ UNCHANGED faults
     \/ Fault
  /\ UNCHANGED <<rowVars, live, runVars, localVars, fileVars, deleting>>

\* The row becomes in_progress.
Begin(r) ==
  /\ RunGoto(r, "begin", "dial")
  /\ r \notin cancelled
  /\ SetStatus("in_progress")
  /\ UNCHANGED <<assigned, board, live, runVars, localVars, fileVars, deleting, faults>>

BeginFails(r) ==
  /\ RunGoto(r, "begin", RunFails(r))
  /\ (r \in cancelled /\ UNCHANGED faults) \/ Fault
  /\ UNCHANGED <<rowVars, live, runVars, localVars, fileVars, deleting>>

\* The gateway connection, chat.send and the rolling comment.
DialGateway(r) ==
  /\ RunGoto(r, "dial", "stream")
  /\ r \notin cancelled /\ inst[r] \in live
  /\ UNCHANGED <<rowVars, live, runVars, localVars, fileVars, deleting, faults>>

DialFails(r) ==
  /\ RunGoto(r, "dial", RunFails(r))
  /\ \/ (r \in cancelled \/ inst[r] \notin live) /\ UNCHANGED faults
     \/ Fault
  /\ UNCHANGED <<rowVars, live, runVars, localVars, fileVars, deleting>>

\* The agent writes an output file, and goes on.
AgentWrites(r) ==
  /\ rpc[r] = "stream"
  /\ \E f \in Files \ outbox[inst[r]] : outbox' = [outbox EXCEPT ![inst[r]] = @ \cup {f}]
  /\ UNCHANGED <<rowVars, live, runVars, rpc, localVars, rows, disk, deleting, faults>>

\* ExtractMentionedPaths: a transcript may mention any files of the workspace.
Mentioned == SUBSET Files

\* Lifecycle end: collectOutcomes lists the directory, or, if it is empty,
\* takes the workspace files the transcript mentions.
LifecycleEnd(r) ==
  /\ RunGoto(r, "stream", "collect")
  /\ \E F \in IF outbox[inst[r]] # {} THEN {outbox[inst[r]]} ELSE Mentioned :
       pending' = [pending EXCEPT ![r] = F]
  /\ UNCHANGED <<rowVars, live, runVars, inst, wrote, fileVars, deleting, faults>>


\* Recv fails, or returns because the context is done.
RecvFails(r) ==
  /\ RunGoto(r, "stream", RunFails(r))
  /\ (r \in cancelled /\ UNCHANGED faults) \/ Fault
  /\ UNCHANGED <<rowVars, live, runVars, localVars, fileVars, deleting>>

\* Seeded error: the row is inserted before the file is written.
CollectFile_RowFirst(r) ==
  /\ RunGoto(r, "collect", "record")
  /\ \E f \in pending[r] :
       /\ rows' = IF r \in cancelled THEN rows ELSE rows \cup {f}
       /\ wrote' = [wrote EXCEPT ![r] = f]
       /\ pending' = [pending EXCEPT ![r] = @ \ {f}]
  /\ UNCHANGED <<rowVars, live, runVars, inst, disk, outbox, deleting, faults>>

\* Read a file and write it to the control plane's disk.
CollectFile(r) ==
  /\ RunGoto(r, "collect", "record")
  /\ \E f \in pending[r] :
       /\ disk' = disk \cup {f}
       /\ wrote' = [wrote EXCEPT ![r] = f]
       /\ pending' = [pending EXCEPT ![r] = @ \ {f}]
  /\ UNCHANGED <<rowVars, live, runVars, inst, rows, outbox, deleting, faults>>

\* A file that is too big, or cannot be read or written, is skipped.
SkipFile(r) ==
  /\ rpc[r] = "collect"
  /\ \E f \in pending[r] :
       pending' = [pending EXCEPT ![r] = @ \ {f}]
  /\ UNCHANGED <<rowVars, live, runVars, rpc, inst, wrote, fileVars, deleting, faults>>

\* InsertArtifact; its error is ignored.
InsertArtifact(r) ==
  /\ RunGoto(r, "record", "collect")
  /\ rows' = IF r \in cancelled THEN rows ELSE rows \cup {wrote[r]}
  /\ wrote' = [wrote EXCEPT ![r] = None]
  /\ UNCHANGED <<rowVars, live, runVars, inst, pending, disk, outbox, deleting, faults>>

\* The directory on the instance is removed, whatever was skipped. It stays
\* if that fails.
RemoveOutcomeDir(r) ==
  /\ RunGoto(r, "collect", "finish") /\ pending[r] = {}
  /\ \/ outbox' = [outbox EXCEPT ![inst[r]] = {}] /\ UNCHANGED faults
     \/ Fault /\ UNCHANGED outbox
  /\ UNCHANGED <<rowVars, live, runVars, localVars, rows, disk, deleting>>

\* Seeded error: the error of the last update is dropped.
Finish_ErrorIgnored(r) ==
  /\ RunGoto(r, "finish", "leave")
  /\ IF r \in cancelled THEN KeepStatus ELSE SetStatus("done")
  /\ UNCHANGED <<assigned, board, live, runVars, localVars, fileVars, deleting, faults>>

\* evaluate, whose failure is only noted; then the row becomes done.
Finish(r) ==
  /\ RunGoto(r, "finish", "leave")
  /\ r \notin cancelled
  /\ SetStatus("done")
  /\ UNCHANGED <<assigned, board, live, runVars, localVars, fileVars, deleting, faults>>

\* The update fails: Run returns its error.
FinishFails(r) ==
  /\ RunGoto(r, "finish", RunFails(r))
  /\ (r \in cancelled /\ UNCHANGED faults) \/ Fault
  /\ UNCHANGED <<rowVars, live, runVars, localVars, fileVars, deleting>>

--------------------------------------------------------------------------------
(* The end of a run.                                                         *)

\* markStopped, under a context of its own; the error of the update is ignored.
markStopped(r) ==
  /\ RunGoto(r, "stop", "leave")
  /\ (SetStatus("todo") /\ UNCHANGED faults) \/ LoseStatus
  /\ UNCHANGED <<assigned, board, live, runVars, localVars, fileVars, deleting>>

\* markFailed after Run has a context of its own; after Dispatch it has the
\* run's, which Stop may have cancelled meanwhile. The error of the update is
\* ignored.
markFailed(r) ==
  /\ \/ RunGoto(r, "fail", "leave") /\ SetStatus("failed") /\ UNCHANGED faults
     \/ RunGoto(r, "fail", "leave") /\ LoseStatus
     \/ /\ RunGoto(r, "failDispatch", "leave")
        /\ \/ r \in cancelled /\ KeepStatus /\ UNCHANGED faults
           \/ r \notin cancelled /\ SetStatus("failed") /\ UNCHANGED faults
           \/ r \notin cancelled /\ LoseStatus
  /\ UNCHANGED <<assigned, board, live, runVars, localVars, fileVars, deleting>>

\* The deferred function deletes the entry of the task, whoever made it.
LeaveRun(r) ==
  /\ RunGoto(r, "leave", "idle")
  /\ running' = None
  /\ cancelled' = cancelled \ {r}
  /\ inst' = [inst EXCEPT ![r] = None]
  /\ UNCHANGED <<rowVars, live, pending, wrote, fileVars, deleting, faults>>

--------------------------------------------------------------------------------

\* What a run does by itself; the agent's frames come when they come.
Proceed(r) ==
  \/ Dispatch(r) \/ DispatchFails(r) \/ Assign(r) \/ AssignFails(r)
  \/ LoadTask(r) \/ LoadFails(r) \/ Begin(r) \/ BeginFails(r)
  \/ DialGateway(r) \/ DialFails(r) \/ RecvFails(r)
  \/ CollectFile(r) \/ SkipFile(r) \/ InsertArtifact(r) \/ RemoveOutcomeDir(r)
  \/ Finish(r) \/ FinishFails(r)
  \/ markStopped(r) \/ markFailed(r) \/ LeaveRun(r)

ModNext ==
  \/ \E r \in Runs : Proceed(r) \/ AgentWrites(r) \/ LifecycleEnd(r)
  \/ \E r \in Runs : CreateKanbanTask(r) \/ StartKanbanTask(r) \/ ReopenKanbanTask(r)
  \/ CreateDraft \/ StopKanbanTask \/ \E s \in Statuses : PatchKanbanTask(s)
  \/ DeleteFiles \/ DeleteRows \/ DeleteTaskRow
  \/ UpdateKanbanBoard \/ DeleteKanbanBoard \/ \E i \in Instances : DeleteInstance(i)

\* A goroutine that can go on does; users, agents and failures are free.
ModFairness == \A r \in Runs : WF_modVars(Proceed(r))

ModSpec == ModInit /\ [][ModNext]_modVars /\ ModFairness

--------------------------------------------------------------------------------

Active(r) == rpc[r] # "idle"

\* The board never shows work that nobody does: a task that is dispatching or
\* in progress has a run. Every way out of a run, stopped, failed or done,
\* writes a last status, whatever other runs of the task wrote in between. Not so
\* if a user set the status by hand, or if the write of a last status failed,
\* which nobody notices; both last until the next status is written.
NoStuckTask ==
  status \in Transient => astray \/ \E r \in Runs : Active(r)

\* While the task exists and nobody has begun to delete it, the download handler
\* finds the file of every artifact row: runs write the file before the row.
ArtifactHasFile ==
  status # None /\ deleting = "no" => rows \subseteq disk

\* Runs are interchangeable: what holds of this one holds of all.
SomeRun == CHOOSE r \in Runs : TRUE


================================================================================
