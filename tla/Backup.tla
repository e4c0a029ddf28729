--------------------------------- MODULE Backup ---------------------------------
(****************************************************************************)
(* Backup archives (internal/backup, handlers/backups.go) and the boot-time *)
(* sweep of stuck rows (reconcile.go), on top of the task contract.         *)
(*                                                                          *)
(* A backup is a database row, an archive file and a task; three actors     *)
(* write them without a common lock: the task's goroutine (worker), the     *)
(* OnCancel callback and DeleteBackup, called by a user or by retention.    *)
(* The process may crash between any two steps. Task and backup share an id *)
(* (the task's ResourceID).                                                 *)
(****************************************************************************)
EXTENDS TaskLifecycle, Naturals

CONSTANT MaxCrashes     \* bound on process crashes

ASSUME CrashAssumption == MaxCrashes \in Nat

Backups == Tasks

VARIABLES
  row,        \* status column of each backup
  hasPath,    \* backups whose file_path column is set
  file,       \* the archive on disk
  creator,    \* where CreateFullBackup is
  worker,     \* where the task's goroutine is
  unlinked,   \* backups whose OnCancel callback has removed the file
  del,        \* where DeleteBackup is, and whether it read a path
  scheduled,  \* backups with note = "scheduled"
  due,        \* the schedule's next_run_at has passed
  sched,      \* where the schedule executor is
  up,         \* the process runs and has reconciled its rows
  crashes,
  faulty,     \* history: backups a database write failed for
  disturbed,  \* history: backups a cleanup or a deletion was entered for
  early,      \* history: backups deleted before their archive was created
  cut,        \* history: backups whose archive is incomplete and nobody noticed
  fired       \* history: what became of the current due time

backupVars == <<row, hasPath, file, creator, worker, unlinked, del, scheduled, due, sched, up,
                crashes, faulty, disturbed, early, cut, fired>>
allVars == <<lifecycleVars, backupVars>>

\* Variables grouped by the actor that writes them, for UNCHANGED.
storeVars == <<row, hasPath, file>>
schedVars == <<scheduled, due, sched, fired>>
sysVars == <<up, crashes>>
histVars == <<faulty, disturbed, early, cut>>

BackupTypeOK ==
  /\ LifecycleTypeOK
  /\ row \in [Backups -> {"absent", "running", "completed", "failed", "canceled", "deleted"}]
  /\ hasPath \subseteq Backups
  /\ file \in [Backups -> {"none", "partial", "full"}]
  /\ creator \in [Backups -> {"none", "inserted", "named"}]
  /\ worker \in [Backups -> {"none", "started", "streaming", "streamed", "erring", "failing",
                             "returnedOk", "returnedErr", "exiting", "exited"}]
  /\ unlinked \subseteq Backups
  /\ del \in [Backups -> {"none", "path", "noPath", "removed"}]
  /\ scheduled \subseteq Backups
  /\ due \in BOOLEAN
  /\ sched \in {"idle", "firing", "advancing"}
  /\ up \in BOOLEAN
  /\ crashes \in 0..MaxCrashes
  /\ faulty \subseteq Backups /\ disturbed \subseteq Backups
  /\ early \subseteq Backups /\ cut \subseteq Backups
  /\ fired \in {"no", "inserted", "refused"}

BackupInit ==
  /\ LifecycleInit
  /\ row = [b \in Backups |-> "absent"]
  /\ hasPath = {}
  /\ file = [b \in Backups |-> "none"]
  /\ creator = [b \in Backups |-> "none"]
  /\ worker = [b \in Backups |-> "none"]
  /\ unlinked = {}
  /\ del = [b \in Backups |-> "none"]
  /\ scheduled = {}
  /\ due = FALSE
  /\ sched = "idle"
  /\ up = TRUE
  /\ crashes = 0
  /\ faulty = {} /\ disturbed = {} /\ early = {} /\ cut = {}
  /\ fired = "no"

\* UpdateBackup: an UPDATE ... WHERE id, which matches nothing once the record
\* is deleted.
Updated(b, status) ==
  IF row[b] = "deleted" THEN row ELSE [row EXCEPT ![b] = status]

--------------------------------------------------------------------------------
(* CreateFullBackup: insert the row, name the file, start the task. The      *)
(* caller is an HTTP handler or the schedule executor.                       *)

InsertRow(b) ==
  /\ row[b] = "absent"
  /\ row' = [row EXCEPT ![b] = "running"]
  /\ creator' = [creator EXCEPT ![b] = "inserted"]

CreateManual(b) ==
  /\ up
  /\ InsertRow(b)
  /\ UNCHANGED <<lifecycleVars, hasPath, file, worker, unlinked, del, schedVars, sysVars, histVars>>

NameFile(b) ==
  /\ creator[b] = "inserted"
  /\ hasPath' = IF row[b] = "deleted" THEN hasPath ELSE hasPath \cup {b}
  /\ creator' = [creator EXCEPT ![b] = "named"]
  /\ UNCHANGED <<lifecycleVars, row, file, worker, unlinked, del, schedVars, sysVars, histVars>>

\* The update fails: CreateFullBackup returns and leaves the row running.
NameFileFails(b) ==
  /\ creator[b] = "inserted"
  /\ creator' = [creator EXCEPT ![b] = "none"]
  /\ faulty' = faulty \cup {b}
  /\ UNCHANGED <<lifecycleVars, storeVars, worker, unlinked, del, schedVars, sysVars, disturbed, early, cut>>

StartTask(b) ==
  /\ creator[b] = "named"
  /\ Begin(b, TRUE)
  /\ creator' = [creator EXCEPT ![b] = "none"]
  /\ worker' = [worker EXCEPT ![b] = "started"]
  /\ UNCHANGED <<storeVars, unlinked, del, schedVars, sysVars, histVars>>

--------------------------------------------------------------------------------
(* The task's goroutine: runFullBackup inside the Run closure.               *)

WorkerGoes(b, from, to) ==
  /\ worker[b] = from
  /\ worker' = [worker EXCEPT ![b] = to]
  /\ UNCHANGED <<creator, unlinked, del, schedVars, sysVars>>

CreateFile(b) ==
  /\ WorkerGoes(b, "started", "streaming")
  /\ file' = [file EXCEPT ![b] = "partial"]
  /\ UNCHANGED <<lifecycleVars, row, hasPath, histVars>>

CreateFileFails(b) ==
  /\ WorkerGoes(b, "started", "erring")
  /\ UNCHANGED <<lifecycleVars, storeVars, histVars>>

\* The stream brought the whole archive and the file was closed. It may have
\* been unlinked meanwhile: the writes go to a nameless inode.
StreamEnds(b) ==
  /\ WorkerGoes(b, "streaming", "streamed")
  /\ file' = IF file[b] = "partial" THEN [file EXCEPT ![b] = "full"] ELSE file
  /\ UNCHANGED <<lifecycleVars, row, hasPath, histVars>>

\* An incomplete archive passes for a whole one: the command ends in "exit 0"
\* whatever tar said, and nobody looks at what closing gzip and file returns.
StreamCutShort(b) ==
  /\ WorkerGoes(b, "streaming", "streamed")
  /\ cut' = cut \cup {b}
  /\ UNCHANGED <<lifecycleVars, storeVars, faulty, disturbed, early>>

StreamFails_Ignored(b) ==
  /\ WorkerGoes(b, "streaming", "streamed")
  /\ UNCHANGED <<lifecycleVars, storeVars, histVars>>

StreamFails(b) ==
  /\ WorkerGoes(b, "streaming", "erring")
  /\ UNCHANGED <<lifecycleVars, storeVars, histVars>>

MarkCompleted(b) ==
  /\ WorkerGoes(b, "streamed", "returnedOk")
  /\ row' = Updated(b, "completed")
  /\ UNCHANGED <<lifecycleVars, hasPath, file, histVars>>

MarkCompletedFails(b) ==
  /\ WorkerGoes(b, "streamed", "erring")
  /\ faulty' = faulty \cup {b}
  /\ UNCHANGED <<lifecycleVars, storeVars, disturbed, early, cut>>

\* runFullBackup returned an error: a canceled task leaves the row to OnCancel.
CheckCtx(b) ==
  /\ WorkerGoes(b, "erring", IF b \in ctxDone THEN "returnedErr" ELSE "failing")
  /\ UNCHANGED <<lifecycleVars, storeVars, histVars>>

finishBackup(b) ==
  /\ WorkerGoes(b, "failing", "returnedErr")
  /\ row' = Updated(b, "failed")
  /\ UNCHANGED <<lifecycleVars, hasPath, file, histVars>>

\* The error of the status write is only logged.
finishBackupFails(b) ==
  /\ WorkerGoes(b, "failing", "returnedErr")
  /\ faulty' = faulty \cup {b}
  /\ UNCHANGED <<lifecycleVars, storeVars, disturbed, early, cut>>

TaskEnds(b) ==
  /\ \E result \in {"returnedOk", "returnedErr"} :
       /\ WorkerGoes(b, result, "exiting")
       /\ End(b, result = "returnedErr")
  /\ UNCHANGED <<storeVars, histVars>>

WorkerExits(b) ==
  /\ WorkerGoes(b, "exiting", "exited")
  /\ ReleaseCtx(b)
  /\ UNCHANGED <<storeVars, histVars>>

WorkerStep(b) ==
  \/ CreateFile(b) \/ CreateFileFails(b)
  \/ StreamEnds(b) \/ StreamCutShort(b) \/ StreamFails(b)
  \/ MarkCompleted(b) \/ MarkCompletedFails(b)
  \/ CheckCtx(b)
  \/ finishBackup(b) \/ finishBackupFails(b)
  \/ TaskEnds(b)
  \/ WorkerExits(b)

--------------------------------------------------------------------------------
(* Cancellation, by CancelBackupHandler or by CancelTask: neither holds      *)
(* anything between reading the row or the task and calling Cancel.          *)

CancelBackup(b) ==
  /\ AcceptCancel(b)
  /\ UNCHANGED backupVars

EnterOnCancel(b) ==
  /\ EnterCleanup(b)
  /\ disturbed' = disturbed \cup {b}
  /\ UNCHANGED <<storeVars, creator, worker, unlinked, del, schedVars, sysVars, faulty, early, cut>>

OnCancelRemoves(b) ==
  /\ cleanup[b] = "running"
  /\ b \notin unlinked
  /\ unlinked' = unlinked \cup {b}
  /\ file' = [file EXCEPT ![b] = "none"]
  /\ UNCHANGED <<lifecycleVars, row, hasPath, creator, worker, del, schedVars, sysVars, histVars>>

OnCancelMarks_Omitted(b) ==
  /\ b \in unlinked
  /\ LeaveCleanup(b)
  /\ UNCHANGED backupVars

OnCancelMarks(b) ==
  /\ b \in unlinked
  /\ LeaveCleanup(b)
  /\ row' = Updated(b, "canceled")
  /\ UNCHANGED <<hasPath, file, creator, worker, unlinked, del, schedVars, sysVars, histVars>>

\* A failed update is only logged: the row stays as it is.
OnCancelMarksFails(b) ==
  /\ b \in unlinked
  /\ LeaveCleanup(b)
  /\ faulty' = faulty \cup {b}
  /\ UNCHANGED <<storeVars, creator, worker, unlinked, del, schedVars, sysVars, disturbed, early, cut>>

CancelStep(b) == CancelBackup(b) \/ EnterOnCancel(b) \/ OnCancelRemoves(b)
                   \/ OnCancelMarks(b) \/ OnCancelMarksFails(b)

--------------------------------------------------------------------------------
(* DeleteBackup: read the row, remove the file, delete the record. The       *)
(* handler deletes backups in any state.                                     *)

BeginDelete(b) ==
  /\ del[b] = "none"
  /\ row[b] \notin {"absent", "deleted"}
  /\ del' = [del EXCEPT ![b] = IF b \in hasPath THEN "path" ELSE "noPath"]
  /\ disturbed' = disturbed \cup {b}
  /\ early' = IF creator[b] = "none" /\ worker[b] # "started" THEN early ELSE early \cup {b}
  /\ UNCHANGED <<lifecycleVars, storeVars, creator, worker, unlinked, schedVars, sysVars, faulty, cut>>

DeleteBackup(b) ==
  /\ up
  /\ BeginDelete(b)

\* cleanupExpiredForSchedule: completed scheduled backups past retention. How
\* old a backup is, the model leaves open.
RetentionDeletes(b) ==
  /\ up
  /\ sched = "idle"
  /\ b \in scheduled
  /\ row[b] = "completed"
  /\ BeginDelete(b)

RemoveFile_Skipped(b) ==
  /\ del[b] \in {"path", "noPath"}
  /\ del' = [del EXCEPT ![b] = "removed"]
  /\ UNCHANGED <<lifecycleVars, storeVars, creator, worker, unlinked, schedVars, sysVars, histVars>>

RemoveFile(b) ==
  /\ del[b] \in {"path", "noPath"}
  /\ file' = IF del[b] = "path" THEN [file EXCEPT ![b] = "none"] ELSE file
  /\ del' = [del EXCEPT ![b] = "removed"]
  /\ UNCHANGED <<lifecycleVars, row, hasPath, creator, worker, unlinked, schedVars, sysVars, histVars>>

DeleteRecord(b) ==
  /\ del[b] = "removed"
  /\ row' = [row EXCEPT ![b] = "deleted"]
  /\ del' = [del EXCEPT ![b] = "none"]
  /\ UNCHANGED <<lifecycleVars, hasPath, file, creator, worker, unlinked, schedVars, sysVars, histVars>>

DeleteStep(b) == DeleteBackup(b) \/ RetentionDeletes(b) \/ RemoveFile(b) \/ DeleteRecord(b)

--------------------------------------------------------------------------------
(* The schedule executor (one schedule that covers one instance), a single   *)
(* goroutine woken every minute.                                             *)

ScheduleDue ==
  /\ ~due
  /\ due' = TRUE
  /\ fired' = "no"
  /\ UNCHANGED <<lifecycleVars, storeVars, creator, worker, unlinked, del, scheduled, sched, sysVars, histVars>>

\* executeSchedule creates the backup first ...
ScheduleFires(b) ==
  /\ up
  /\ sched = "idle"
  /\ due
  /\ InsertRow(b)
  /\ scheduled' = scheduled \cup {b}
  /\ sched' = "firing"
  /\ fired' = "inserted"
  /\ UNCHANGED <<lifecycleVars, hasPath, file, worker, unlinked, del, due, sysVars, histVars>>

\* (or cannot: the instance, the directory or the new row fails, which is only
\* logged) ...
ScheduleRefused ==
  /\ up
  /\ sched = "idle"
  /\ due
  /\ sched' = "advancing"
  /\ fired' = IF fired = "no" THEN "refused" ELSE fired
  /\ UNCHANGED <<lifecycleVars, storeVars, creator, worker, unlinked, del, scheduled, due, sysVars, histVars>>

\* ... waits for CreateFullBackup to return ...
ScheduleCreated ==
  /\ sched = "firing"
  /\ \A b \in scheduled : creator[b] = "none"
  /\ sched' = "advancing"
  /\ UNCHANGED <<lifecycleVars, storeVars, creator, worker, unlinked, del, scheduled, due, fired, sysVars, histVars>>

ScheduleAdvances_First ==
  /\ up
  /\ sched = "idle"
  /\ due
  /\ due' = FALSE
  /\ UNCHANGED <<lifecycleVars, storeVars, creator, worker, unlinked, del, scheduled, sched, fired, sysVars, histVars>>

\* ... and moves next_run_at forward. A failed update is ignored: the schedule
\* stays due and fires again.
ScheduleAdvances ==
  /\ sched = "advancing"
  /\ sched' = "idle"
  /\ due' \in {FALSE, due}
  /\ UNCHANGED <<lifecycleVars, storeVars, creator, worker, unlinked, del, scheduled, fired, sysVars, histVars>>

ScheduleStep ==
  (\E b \in Backups : ScheduleFires(b)) \/ ScheduleRefused \/ ScheduleCreated \/ ScheduleAdvances

--------------------------------------------------------------------------------
(* Crash and restart: memory is gone, the database and the files stay.       *)

Crash ==
  /\ up
  /\ crashes < MaxCrashes
  /\ crashes' = crashes + 1
  /\ up' = FALSE
  /\ phase' = [b \in Backups |-> "none"]
  /\ cancellable' = {} /\ cancelReq' = {} /\ ctxDone' = {}
  /\ cleanup' = [b \in Backups |-> "none"]
  /\ creator' = [b \in Backups |-> "none"]
  /\ worker' = [b \in Backups |-> "none"]
  /\ unlinked' = {}
  /\ del' = [b \in Backups |-> "none"]
  /\ sched' = "idle"
  /\ fired' = IF fired = "refused" THEN "no" ELSE fired
  /\ UNCHANGED <<storeVars, scheduled, due, histVars>>

reconcileStuckTasks_Skipped ==
  /\ ~up
  /\ up' = TRUE
  /\ UNCHANGED <<lifecycleVars, storeVars, creator, worker, unlinked, del, schedVars, crashes, histVars>>

\* main runs the sweep before it starts the executor and the server.
reconcileStuckTasks ==
  /\ ~up
  /\ up' = TRUE
  /\ row' = [b \in Backups |-> IF row[b] = "running" THEN "failed" ELSE row[b]]
  /\ faulty' = {b \in faulty : row'[b] = "running"}
  /\ UNCHANGED <<lifecycleVars, hasPath, file, creator, worker, unlinked, del, schedVars, crashes, disturbed, early, cut>>

\* A sweep that fails is only logged, and the process comes up all the same.
reconcileStuckTasksFails ==
  /\ ~up
  /\ up' = TRUE
  /\ faulty' = faulty \cup {b \in Backups : row[b] = "running"}
  /\ UNCHANGED <<lifecycleVars, storeVars, creator, worker, unlinked, del, schedVars, crashes, disturbed, early, cut>>

--------------------------------------------------------------------------------
BackupNext ==
  \/ \E b \in Backups :
       CreateManual(b) \/ NameFile(b) \/ NameFileFails(b) \/ StartTask(b)
         \/ WorkerStep(b) \/ CancelStep(b) \/ DeleteStep(b)
  \/ ScheduleDue
  \/ ScheduleStep
  \/ Crash
  \/ reconcileStuckTasks \/ reconcileStuckTasksFails

\* Goroutines that can go on do; a stream ends (the agent answers or the
\* context is canceled); an operator restarts a crashed process. Creating,
\* canceling, deleting and crashing are nobody's duty.
BackupFairness ==
  /\ WF_allVars(reconcileStuckTasks)
  /\ \A b \in Backups :
       /\ WF_allVars(NameFile(b) \/ StartTask(b))
       /\ WF_allVars(WorkerStep(b))
       /\ WF_allVars(EnterOnCancel(b) \/ OnCancelRemoves(b) \/ OnCancelMarks(b))

BackupSpec == BackupInit /\ [][BackupNext]_allVars /\ BackupFairness

--------------------------------------------------------------------------------
(* Properties.                                                               *)

\* A row that says completed has its whole archive on disk, unless a
\* cancellation or a deletion got hold of the backup: a stream that failed, a
\* crash in the middle of it and a late status write never make a truncated
\* archive pass for a backup. What runFullBackup does not notice, it cannot
\* report: see CompleteSnapshot.
CompletedHasArchive ==
  \A b \in Backups : row[b] = "completed" =>
    \/ file[b] = "full"
    \/ file[b] = "none" /\ b \in disturbed
    \/ file[b] = "partial" /\ b \in cut

\* "Every backup is a complete snapshot of the selected directories"
\* (docs/backups.md): an archive offered for download or restore is whole.
CompleteSnapshot ==
  \A b \in Backups : row[b] = "completed" /\ file[b] # "none" => file[b] = "full"

\* Somebody will settle b's row: its creator, its worker before the status
\* write, or an OnCancel callback that was accepted.
Owned(b) ==
  \/ creator[b] # "none"
  \/ worker[b] \in {"started", "streaming", "streamed", "erring", "failing"}
  \/ cleanup[b] \in {"accepted", "running"}

\* While the process runs, a row that says running has an owner: no exit of the
\* worker, no cancellation and no crash leaves it stuck. Only a failed database
\* write can, until the next restart.
RunningHasOwner ==
  up => \A b \in Backups : row[b] = "running" => Owned(b) \/ b \in faulty

\* A deleted backup leaves no archive behind, unless the deletion began before
\* the archive was created.
NoOrphanArchive ==
  \A b \in Backups : row[b] = "deleted" /\ file[b] # "none" => b \in early

\* A due schedule is marked as run only after the backup it asked for was
\* inserted, whatever crashes in between: a crash never costs a backup. One that
\* CreateFullBackup refused is not tried again before the next due time.
TickNotLost ==
  [][due /\ ~due' => fired # "no"]_allVars

\* A running row does not stay running: every backup is settled, by its worker,
\* by its cancellation, or by the sweep after a crash.
BackupSettles ==
  \A b \in Backups : []<>(row[b] # "running" \/ b \in faulty)

\* What backupOnCancel says of itself ("removes the partial archive file (if
\* any) and marks the backup row as canceled. The running goroutine sees
\* ctx.Done() and exits before this runs"): once the worker and the callback of
\* a canceled backup are done, the row says canceled and no archive is left,
\* with no database error to excuse it.
CanceledStaysCanceled ==
  \A b \in Backups \ faulty :
    worker[b] = "exited" /\ cleanup[b] = "done" =>
      row[b] \in {"canceled", "deleted"} /\ file[b] = "none"
================================================================================
