----------------------------- MODULE BackupProofs ------------------------------
(****************************************************************************)
(* Theorems about Backup, for every set of backups and every bound on       *)
(* crashes.                                                                 *)
(****************************************************************************)
EXTENDS Backup, TLAPS

\* Where the worker has not written its last status yet.
Settling == {"started", "streaming", "streamed", "erring", "failing"}

\* A backup has its row before it has a creator, a task or a deletion; a
\* creator that named the file in vain found the row deleted.
BeforeInv(b) ==
  /\ row[b] = "absent" =>
       /\ creator[b] = "none" /\ worker[b] = "none" /\ del[b] = "none"
       /\ phase[b] = "none" /\ cleanup[b] = "none"
  /\ creator[b] = "named" /\ b \notin hasPath => row[b] = "deleted"

\* What CompletedHasArchive rests on: the file while the worker writes it, which
\* only a cleanup or a deletion takes away, and a row that is not completed
\* before the archive is.
WorkInv(b) ==
  /\ creator[b] # "none" => worker[b] = "none"
  /\ creator[b] # "none" \/ worker[b] \in Settling => row[b] # "completed"
  /\ worker[b] = "streaming" => file[b] = "partial" \/ (file[b] = "none" /\ b \in disturbed)
  /\ worker[b] = "streamed" => \/ file[b] = "full"
                               \/ file[b] = "none" /\ b \in disturbed
                               \/ file[b] = "partial" /\ b \in cut

\* What RunningHasOwner rests on: a worker that finds its context canceled
\* leaves the row to a callback that is still running or has marked it.
CancelInv(b) ==
  /\ b \in ctxDone =>
       cleanup[b] \in {"running", "done"} \/ (worker[b] = "exited" /\ phase[b] # "none")
  /\ cleanup[b] # "none" => b \in cancelReq
  /\ cleanup[b] \in {"running", "done"} => b \in disturbed
  /\ cleanup[b] = "done" => row[b] # "running" \/ b \in faulty

\* What NoOrphanArchive rests on: a deletion that reads no path, or runs while
\* the archive is still to be created, began too early; any other one takes the
\* file away for good.
DeleteInv(b) ==
  /\ del[b] # "none" => b \in disturbed
  /\ /\ creator[b] # "none" \/ worker[b] = "started"
     /\ del[b] # "none" \/ row[b] = "deleted"
     => b \in early
  /\ b \notin hasPath /\ (worker[b] # "none" \/ file[b] # "none") => b \in early
  /\ del[b] = "noPath" =>
       b \in early \/ (file[b] = "none" /\ worker[b] = "none" /\ creator[b] = "none")
  /\ del[b] = "removed" => b \in early \/ file[b] = "none"

\* The three properties, for one backup.
KeptInv(b) ==
  /\ row[b] = "completed" => \/ file[b] = "full"
                             \/ file[b] = "none" /\ b \in disturbed
                             \/ file[b] = "partial" /\ b \in cut
  /\ up /\ row[b] = "running" => Owned(b) \/ b \in faulty
  /\ row[b] = "deleted" /\ file[b] # "none" => b \in early

Sound(b) == BeforeInv(b) /\ WorkInv(b) /\ CancelInv(b) /\ DeleteInv(b) /\ KeptInv(b)

\* What TickNotLost rests on: while the executor is at work its tick is due, and
\* the backup is inserted.
TickInv == sched # "idle" => due /\ fired # "no"

BackupInv == BackupTypeOK /\ TickInv /\ \A b \in Backups : Sound(b)

--------------------------------------------------------------------------------
(* Type correctness.                                                         *)

\* Every step keeps the types.
LEMMA BackupTypeStep == BackupTypeOK /\ [BackupNext]_allVars => BackupTypeOK'
<1> SUFFICES ASSUME BackupTypeOK, [BackupNext]_allVars PROVE BackupTypeOK'
  OBVIOUS
<1>0. /\ LifecycleTypeOK
      /\ row \in [Backups -> {"absent", "running", "completed", "failed", "canceled", "deleted"}]
      /\ BackupTypeOK
  BY DEF BackupTypeOK
<1> USE DEF BackupTypeOK, LifecycleTypeOK, Phases, Terminal, CleanupSteps, Backups
<1> USE DEF lifecycleVars, storeVars, schedVars, sysVars, histVars
<1>1. ASSUME NEW b \in Backups, CreateManual(b) PROVE BackupTypeOK'
  BY <1>0, <1>1 DEF CreateManual, InsertRow
<1>2. ASSUME NEW b \in Backups, NameFile(b) PROVE BackupTypeOK'
  BY <1>0, <1>2 DEF NameFile
<1>3. ASSUME NEW b \in Backups, NameFileFails(b) PROVE BackupTypeOK'
  BY <1>0, <1>3 DEF NameFileFails
<1>4. ASSUME NEW b \in Backups, StartTask(b) PROVE BackupTypeOK'
  BY <1>0, <1>4 DEF StartTask, Begin
<1>5. ASSUME NEW b \in Backups, CreateFile(b) PROVE BackupTypeOK'
  BY <1>0, <1>5 DEF CreateFile, WorkerGoes
<1>6. ASSUME NEW b \in Backups, CreateFileFails(b) PROVE BackupTypeOK'
  BY <1>0, <1>6 DEF CreateFileFails, WorkerGoes
<1>7. ASSUME NEW b \in Backups, StreamEnds(b) PROVE BackupTypeOK'
  BY <1>0, <1>7 DEF StreamEnds, WorkerGoes
<1>8. ASSUME NEW b \in Backups, StreamFails(b) PROVE BackupTypeOK'
  BY <1>0, <1>8 DEF StreamFails, WorkerGoes
<1>9. ASSUME NEW b \in Backups, MarkCompleted(b) PROVE BackupTypeOK'
  BY <1>0, <1>9 DEF MarkCompleted, WorkerGoes, Updated
<1>10. ASSUME NEW b \in Backups, MarkCompletedFails(b) PROVE BackupTypeOK'
  BY <1>0, <1>10 DEF MarkCompletedFails, WorkerGoes
<1>11. ASSUME NEW b \in Backups, CheckCtx(b) PROVE BackupTypeOK'
  BY <1>0, <1>11 DEF CheckCtx, WorkerGoes
<1>12. ASSUME NEW b \in Backups, finishBackup(b) PROVE BackupTypeOK'
  BY <1>0, <1>12 DEF finishBackup, WorkerGoes, Updated
<1>13. ASSUME NEW b \in Backups, finishBackupFails(b) PROVE BackupTypeOK'
  BY <1>0, <1>13 DEF finishBackupFails, WorkerGoes
<1>14. ASSUME NEW b \in Backups, TaskEnds(b) PROVE BackupTypeOK'
  BY <1>0, <1>14 DEF TaskEnds, WorkerGoes, End, Outcome
<1>15. ASSUME NEW b \in Backups, WorkerExits(b) PROVE BackupTypeOK'
  BY <1>0, <1>15 DEF WorkerExits, WorkerGoes, ReleaseCtx
<1>16. ASSUME NEW b \in Backups, CancelBackup(b) PROVE BackupTypeOK'
  BY <1>0, <1>16 DEF CancelBackup, AcceptCancel, backupVars
<1>17. ASSUME NEW b \in Backups, EnterOnCancel(b) PROVE BackupTypeOK'
  BY <1>0, <1>17 DEF EnterOnCancel, EnterCleanup
<1>18. ASSUME NEW b \in Backups, OnCancelRemoves(b) PROVE BackupTypeOK'
  BY <1>0, <1>18 DEF OnCancelRemoves
<1>19. ASSUME NEW b \in Backups, OnCancelMarks(b) PROVE BackupTypeOK'
  BY <1>0, <1>19 DEF OnCancelMarks, LeaveCleanup, Updated
<1>20. ASSUME NEW b \in Backups, DeleteBackup(b) PROVE BackupTypeOK'
  BY <1>0, <1>20 DEF DeleteBackup, BeginDelete
<1>21. ASSUME NEW b \in Backups, RetentionDeletes(b) PROVE BackupTypeOK'
  BY <1>0, <1>21 DEF RetentionDeletes, BeginDelete
<1>22. ASSUME NEW b \in Backups, RemoveFile(b) PROVE BackupTypeOK'
  BY <1>0, <1>22 DEF RemoveFile
<1>23. ASSUME NEW b \in Backups, DeleteRecord(b) PROVE BackupTypeOK'
  BY <1>0, <1>23 DEF DeleteRecord
<1>24. ASSUME NEW b \in Backups, ScheduleFires(b) PROVE BackupTypeOK'
  BY <1>0, <1>24 DEF ScheduleFires, InsertRow
<1>25. CASE ScheduleDue
  BY <1>0, <1>25 DEF ScheduleDue
<1>26. CASE ScheduleCreated
  BY <1>0, <1>26 DEF ScheduleCreated
<1>27. CASE ScheduleAdvances
  BY <1>0, <1>27 DEF ScheduleAdvances
<1>28. CASE Crash
  <2>1. crashes' \in 0..MaxCrashes
    BY <1>28, CrashAssumption DEF Crash
  <2> QED
    BY <1>0, <1>28, <2>1 DEF Crash
<1>29. CASE reconcileStuckTasks
  BY <1>0, <1>29 DEF reconcileStuckTasks
<1>30. CASE UNCHANGED allVars
  BY <1>0, <1>30 DEF allVars, backupVars
<1>31. ASSUME NEW b \in Backups, StreamCutShort(b) PROVE BackupTypeOK'
  BY <1>0, <1>31 DEF StreamCutShort, WorkerGoes
<1>32. ASSUME NEW b \in Backups, OnCancelMarksFails(b) PROVE BackupTypeOK'
  BY <1>0, <1>32 DEF OnCancelMarksFails, LeaveCleanup
<1>33. CASE ScheduleRefused
  BY <1>0, <1>33 DEF ScheduleRefused
<1>34. CASE reconcileStuckTasksFails
  BY <1>0, <1>34 DEF reconcileStuckTasksFails
<1> QED
  BY <1>1, <1>2, <1>3, <1>4, <1>5, <1>6, <1>7, <1>8, <1>9, <1>10, <1>11, <1>12,
     <1>13, <1>14, <1>15, <1>16, <1>17, <1>18, <1>19, <1>20, <1>21, <1>22,
     <1>23, <1>24, <1>25, <1>26, <1>27, <1>28, <1>29, <1>30, <1>31, <1>32,
     <1>33, <1>34
  DEF BackupNext, WorkerStep, CancelStep, DeleteStep, ScheduleStep

--------------------------------------------------------------------------------
(* The backups.                                                              *)

\* Every step keeps what is known of each backup, whoever takes it.
LEMMA SoundStep ==
  ASSUME BackupInv, [BackupNext]_allVars, NEW c \in Backups
  PROVE  Sound(c)'
<1>0. /\ LifecycleTypeOK /\ BackupTypeOK /\ Sound(c)
  BY DEF BackupInv, BackupTypeOK
<1> USE DEF BackupTypeOK, LifecycleTypeOK, Phases, Terminal, CleanupSteps, Backups
<1> USE DEF lifecycleVars, storeVars, schedVars, sysVars, histVars
<1> USE DEF Sound, BeforeInv, WorkInv, CancelInv, DeleteInv, KeptInv, Owned, Settling
<1>1. ASSUME NEW b \in Backups, CreateManual(b) PROVE Sound(c)'
  BY <1>0, <1>1 DEF CreateManual, InsertRow
<1>2. ASSUME NEW b \in Backups, NameFile(b) PROVE Sound(c)'
  BY <1>0, <1>2 DEF NameFile
<1>3. ASSUME NEW b \in Backups, NameFileFails(b) PROVE Sound(c)'
  BY <1>0, <1>3 DEF NameFileFails
<1>4. ASSUME NEW b \in Backups, StartTask(b) PROVE Sound(c)'
  BY <1>0, <1>4 DEF StartTask, Begin
<1>5. ASSUME NEW b \in Backups, CreateFile(b) PROVE Sound(c)'
  BY <1>0, <1>5 DEF CreateFile, WorkerGoes
<1>6. ASSUME NEW b \in Backups, CreateFileFails(b) PROVE Sound(c)'
  BY <1>0, <1>6 DEF CreateFileFails, WorkerGoes
<1>7. ASSUME NEW b \in Backups, StreamEnds(b) PROVE Sound(c)'
  BY <1>0, <1>7 DEF StreamEnds, WorkerGoes
<1>8. ASSUME NEW b \in Backups, StreamFails(b) PROVE Sound(c)'
  BY <1>0, <1>8 DEF StreamFails, WorkerGoes
<1>9. ASSUME NEW b \in Backups, MarkCompleted(b) PROVE Sound(c)'
  BY <1>0, <1>9 DEF MarkCompleted, WorkerGoes, Updated
<1>10. ASSUME NEW b \in Backups, MarkCompletedFails(b) PROVE Sound(c)'
  BY <1>0, <1>10 DEF MarkCompletedFails, WorkerGoes
<1>11. ASSUME NEW b \in Backups, CheckCtx(b) PROVE Sound(c)'
  BY <1>0, <1>11 DEF CheckCtx, WorkerGoes
<1>12. ASSUME NEW b \in Backups, finishBackup(b) PROVE Sound(c)'
  BY <1>0, <1>12 DEF finishBackup, WorkerGoes, Updated
<1>13. ASSUME NEW b \in Backups, finishBackupFails(b) PROVE Sound(c)'
  BY <1>0, <1>13 DEF finishBackupFails, WorkerGoes
<1>14. ASSUME NEW b \in Backups, TaskEnds(b) PROVE Sound(c)'
  BY <1>0, <1>14 DEF TaskEnds, WorkerGoes, End, Outcome
<1>15. ASSUME NEW b \in Backups, WorkerExits(b) PROVE Sound(c)'
  BY <1>0, <1>15 DEF WorkerExits, WorkerGoes, ReleaseCtx
<1>16. ASSUME NEW b \in Backups, CancelBackup(b) PROVE Sound(c)'
  BY <1>0, <1>16 DEF CancelBackup, AcceptCancel, backupVars
<1>17. ASSUME NEW b \in Backups, EnterOnCancel(b) PROVE Sound(c)'
  BY <1>0, <1>17 DEF EnterOnCancel, EnterCleanup
<1>18. ASSUME NEW b \in Backups, OnCancelRemoves(b) PROVE Sound(c)'
  BY <1>0, <1>18 DEF OnCancelRemoves
<1>19. ASSUME NEW b \in Backups, OnCancelMarks(b) PROVE Sound(c)'
  BY <1>0, <1>19 DEF OnCancelMarks, LeaveCleanup, Updated
<1>20. ASSUME NEW b \in Backups, DeleteBackup(b) PROVE Sound(c)'
  BY <1>0, <1>20 DEF DeleteBackup, BeginDelete
<1>21. ASSUME NEW b \in Backups, RetentionDeletes(b) PROVE Sound(c)'
  BY <1>0, <1>21 DEF RetentionDeletes, BeginDelete
<1>22. ASSUME NEW b \in Backups, RemoveFile(b) PROVE Sound(c)'
  BY <1>0, <1>22 DEF RemoveFile
<1>23. ASSUME NEW b \in Backups, DeleteRecord(b) PROVE Sound(c)'
  BY <1>0, <1>23 DEF DeleteRecord
<1>24. ASSUME NEW b \in Backups, ScheduleFires(b) PROVE Sound(c)'
  BY <1>0, <1>24 DEF ScheduleFires, InsertRow
<1>25. CASE ScheduleDue
  BY <1>0, <1>25 DEF ScheduleDue
<1>26. CASE ScheduleCreated
  BY <1>0, <1>26 DEF ScheduleCreated
<1>27. CASE ScheduleAdvances
  BY <1>0, <1>27 DEF ScheduleAdvances
<1>28. CASE Crash
  BY <1>0, <1>28 DEF Crash
<1>29. CASE reconcileStuckTasks
  BY <1>0, <1>29 DEF reconcileStuckTasks
<1>30. CASE UNCHANGED allVars
  BY <1>0, <1>30 DEF allVars, backupVars
<1>31. ASSUME NEW b \in Backups, StreamCutShort(b) PROVE Sound(c)'
  BY <1>0, <1>31 DEF StreamCutShort, WorkerGoes
<1>32. ASSUME NEW b \in Backups, OnCancelMarksFails(b) PROVE Sound(c)'
  BY <1>0, <1>32 DEF OnCancelMarksFails, LeaveCleanup
<1>33. CASE ScheduleRefused
  BY <1>0, <1>33 DEF ScheduleRefused
<1>34. CASE reconcileStuckTasksFails
  BY <1>0, <1>34 DEF reconcileStuckTasksFails
<1> QED
  BY <1>1, <1>2, <1>3, <1>4, <1>5, <1>6, <1>7, <1>8, <1>9, <1>10, <1>11, <1>12,
     <1>13, <1>14, <1>15, <1>16, <1>17, <1>18, <1>19, <1>20, <1>21, <1>22,
     <1>23, <1>24, <1>25, <1>26, <1>27, <1>28, <1>29, <1>30, <1>31, <1>32,
     <1>33, <1>34
  DEF BackupNext, WorkerStep, CancelStep, DeleteStep, ScheduleStep

\* Every step keeps the tick.
LEMMA TickStep ==
  ASSUME BackupInv, [BackupNext]_allVars
  PROVE  TickInv' /\ (due /\ ~due' => fired # "no")
<1>0. BackupTypeOK /\ TickInv
  BY DEF BackupInv
<1> USE DEF schedVars, TickInv
<1>1. ASSUME NEW b \in Backups, CreateManual(b) PROVE TickInv' /\ (due /\ ~due' => fired # "no")
  BY <1>0, <1>1 DEF CreateManual
<1>2. ASSUME NEW b \in Backups, NameFile(b) PROVE TickInv' /\ (due /\ ~due' => fired # "no")
  BY <1>0, <1>2 DEF NameFile
<1>3. ASSUME NEW b \in Backups, NameFileFails(b) PROVE TickInv' /\ (due /\ ~due' => fired # "no")
  BY <1>0, <1>3 DEF NameFileFails
<1>4. ASSUME NEW b \in Backups, StartTask(b) PROVE TickInv' /\ (due /\ ~due' => fired # "no")
  BY <1>0, <1>4 DEF StartTask
<1>5. ASSUME NEW b \in Backups, CreateFile(b) PROVE TickInv' /\ (due /\ ~due' => fired # "no")
  BY <1>0, <1>5 DEF CreateFile, WorkerGoes
<1>6. ASSUME NEW b \in Backups, CreateFileFails(b) PROVE TickInv' /\ (due /\ ~due' => fired # "no")
  BY <1>0, <1>6 DEF CreateFileFails, WorkerGoes
<1>7. ASSUME NEW b \in Backups, StreamEnds(b) PROVE TickInv' /\ (due /\ ~due' => fired # "no")
  BY <1>0, <1>7 DEF StreamEnds, WorkerGoes
<1>8. ASSUME NEW b \in Backups, StreamFails(b) PROVE TickInv' /\ (due /\ ~due' => fired # "no")
  BY <1>0, <1>8 DEF StreamFails, WorkerGoes
<1>9. ASSUME NEW b \in Backups, MarkCompleted(b) PROVE TickInv' /\ (due /\ ~due' => fired # "no")
  BY <1>0, <1>9 DEF MarkCompleted, WorkerGoes
<1>10. ASSUME NEW b \in Backups, MarkCompletedFails(b) PROVE TickInv' /\ (due /\ ~due' => fired # "no")
  BY <1>0, <1>10 DEF MarkCompletedFails, WorkerGoes
<1>11. ASSUME NEW b \in Backups, CheckCtx(b) PROVE TickInv' /\ (due /\ ~due' => fired # "no")
  BY <1>0, <1>11 DEF CheckCtx, WorkerGoes
<1>12. ASSUME NEW b \in Backups, finishBackup(b) PROVE TickInv' /\ (due /\ ~due' => fired # "no")
  BY <1>0, <1>12 DEF finishBackup, WorkerGoes
<1>13. ASSUME NEW b \in Backups, finishBackupFails(b) PROVE TickInv' /\ (due /\ ~due' => fired # "no")
  BY <1>0, <1>13 DEF finishBackupFails, WorkerGoes
<1>14. ASSUME NEW b \in Backups, TaskEnds(b) PROVE TickInv' /\ (due /\ ~due' => fired # "no")
  BY <1>0, <1>14 DEF TaskEnds, WorkerGoes
<1>15. ASSUME NEW b \in Backups, WorkerExits(b) PROVE TickInv' /\ (due /\ ~due' => fired # "no")
  BY <1>0, <1>15 DEF WorkerExits, WorkerGoes
<1>16. ASSUME NEW b \in Backups, CancelBackup(b) PROVE TickInv' /\ (due /\ ~due' => fired # "no")
  BY <1>0, <1>16 DEF CancelBackup, backupVars
<1>17. ASSUME NEW b \in Backups, EnterOnCancel(b) PROVE TickInv' /\ (due /\ ~due' => fired # "no")
  BY <1>0, <1>17 DEF EnterOnCancel
<1>18. ASSUME NEW b \in Backups, OnCancelRemoves(b) PROVE TickInv' /\ (due /\ ~due' => fired # "no")
  BY <1>0, <1>18 DEF OnCancelRemoves
<1>19. ASSUME NEW b \in Backups, OnCancelMarks(b) PROVE TickInv' /\ (due /\ ~due' => fired # "no")
  BY <1>0, <1>19 DEF OnCancelMarks
<1>20. ASSUME NEW b \in Backups, DeleteBackup(b) PROVE TickInv' /\ (due /\ ~due' => fired # "no")
  BY <1>0, <1>20 DEF DeleteBackup, BeginDelete
<1>21. ASSUME NEW b \in Backups, RetentionDeletes(b) PROVE TickInv' /\ (due /\ ~due' => fired # "no")
  BY <1>0, <1>21 DEF RetentionDeletes, BeginDelete
<1>22. ASSUME NEW b \in Backups, RemoveFile(b) PROVE TickInv' /\ (due /\ ~due' => fired # "no")
  BY <1>0, <1>22 DEF RemoveFile
<1>23. ASSUME NEW b \in Backups, DeleteRecord(b) PROVE TickInv' /\ (due /\ ~due' => fired # "no")
  BY <1>0, <1>23 DEF DeleteRecord
<1>24. ASSUME NEW b \in Backups, ScheduleFires(b) PROVE TickInv' /\ (due /\ ~due' => fired # "no")
  BY <1>0, <1>24 DEF ScheduleFires, InsertRow
<1>25. CASE ScheduleDue
  BY <1>0, <1>25 DEF ScheduleDue
<1>26. CASE ScheduleCreated
  BY <1>0, <1>26 DEF ScheduleCreated
<1>27. CASE ScheduleAdvances
  BY <1>0, <1>27 DEF ScheduleAdvances
<1>28. CASE Crash
  BY <1>0, <1>28 DEF Crash
<1>29. CASE reconcileStuckTasks
  BY <1>0, <1>29 DEF reconcileStuckTasks
<1>30. CASE UNCHANGED allVars
  BY <1>0, <1>30 DEF allVars, backupVars
<1>31. ASSUME NEW b \in Backups, StreamCutShort(b) PROVE TickInv' /\ (due /\ ~due' => fired # "no")
  BY <1>0, <1>31 DEF StreamCutShort, WorkerGoes
<1>32. ASSUME NEW b \in Backups, OnCancelMarksFails(b) PROVE TickInv' /\ (due /\ ~due' => fired # "no")
  BY <1>0, <1>32 DEF OnCancelMarksFails, LeaveCleanup
<1>33. CASE ScheduleRefused
  BY <1>0, <1>33 DEF ScheduleRefused
<1>34. CASE reconcileStuckTasksFails
  BY <1>0, <1>34 DEF reconcileStuckTasksFails
<1> QED
  BY <1>1, <1>2, <1>3, <1>4, <1>5, <1>6, <1>7, <1>8, <1>9, <1>10, <1>11, <1>12,
     <1>13, <1>14, <1>15, <1>16, <1>17, <1>18, <1>19, <1>20, <1>21, <1>22,
     <1>23, <1>24, <1>25, <1>26, <1>27, <1>28, <1>29, <1>30, <1>31, <1>32,
     <1>33, <1>34
  DEF BackupNext, WorkerStep, CancelStep, DeleteStep, ScheduleStep

--------------------------------------------------------------------------------
(* The theorems.                                                             *)

\* The invariant holds at the start.
LEMMA BackupInitInv == BackupInit => BackupInv
<1> SUFFICES ASSUME BackupInit PROVE BackupInv
  OBVIOUS
<1> USE DEF BackupInit, LifecycleInit, Backups
<1>1. BackupTypeOK
  <2>1. crashes \in 0..MaxCrashes
    BY CrashAssumption
  <2> QED
    BY <2>1 DEF BackupTypeOK, LifecycleTypeOK, Phases, CleanupSteps
<1>2. TickInv
  BY DEF TickInv
<1>3. ASSUME NEW b \in Backups PROVE Sound(b)
  BY <1>3 DEF Sound, BeforeInv, WorkInv, CancelInv, DeleteInv, KeptInv, Settling
<1> QED
  BY <1>1, <1>2, <1>3 DEF BackupInv

\* And always.
LEMMA BackupInvariant == BackupSpec => []BackupInv
<1>1. BackupInv /\ [BackupNext]_allVars => BackupInv'
  <2> SUFFICES ASSUME BackupInv, [BackupNext]_allVars PROVE BackupInv'
    OBVIOUS
  <2>1. BackupTypeOK'
    BY BackupTypeStep DEF BackupInv
  <2>2. TickInv'
    BY TickStep
  <2>3. \A c \in Backups : Sound(c)'
    BY SoundStep
  <2> QED
    BY <2>1, <2>2, <2>3 DEF BackupInv, Backups
<1> QED
  BY <1>1, BackupInitInv, PTL DEF BackupSpec

\* A backup offered for download or restore is a whole archive: no order of the
\* worker's steps, the OnCancel callback, DeleteBackup and a crash leaves a
\* completed row with a truncated file, unless runFullBackup took it for a whole
\* one, or without a file that nobody took away.
THEOREM CompletedIsWhole == BackupSpec => []CompletedHasArchive
<1>1. BackupInv => CompletedHasArchive
  BY DEF BackupInv, Sound, KeptInv, CompletedHasArchive
<1> QED
  BY <1>1, BackupInvariant, PTL

\* While the process runs, a running row has somebody who will settle it: its
\* creator, its worker, a callback that was accepted; the sweep at boot takes
\* the rows a crash left.
THEOREM NoStuckBackup == BackupSpec => []RunningHasOwner
<1>1. BackupInv => RunningHasOwner
  BY DEF BackupInv, Sound, KeptInv, RunningHasOwner
<1> QED
  BY <1>1, BackupInvariant, PTL

\* DeleteBackup leaves no archive behind, whatever the worker and the callback
\* do meanwhile, unless it began before the archive was created.
THEOREM DeletionLeavesNothing == BackupSpec => []NoOrphanArchive
<1>1. BackupInv => NoOrphanArchive
  BY DEF BackupInv, Sound, KeptInv, NoOrphanArchive
<1> QED
  BY <1>1, BackupInvariant, PTL

\* next_run_at moves only after the backup it asked for was inserted or refused
\* (executeSchedule), whatever crashes in between.
THEOREM TickIsKept == BackupSpec => TickNotLost
<1>1. BackupInv /\ [BackupNext]_allVars => [due /\ ~due' => fired # "no"]_allVars
  BY TickStep
<1> QED
  BY <1>1, BackupInvariant, PTL DEF BackupSpec, TickNotLost
================================================================================
