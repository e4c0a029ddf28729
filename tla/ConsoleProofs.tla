----------------------------- MODULE ConsoleProofs -----------------------------
(****************************************************************************)
(* Theorems about the components that serve the console: the kanban         *)
(* moderator, accounts, teams and providers, for every number of runs,      *)
(* users, teams, providers and requests and every bound on failures.        *)
(****************************************************************************)
EXTENDS Moderator, Accounts, Teams, Providers, TLAPS

--------------------------------------------------------------------------------
(****************************************************************************)
(* The kanban moderator.                                                    *)
(****************************************************************************)

\* Where a run still has a last status to write, once it has written one of its
\* own. A run whose dispatch failed is not among them: if it was stopped
\* meanwhile its last update fails and leaves the row as another run set it.
Owing == {"load", "begin", "dial", "stream", "collect", "record", "finish", "fail", "stop"}

\* What NoStuckTask rests on: the run that owes the row a last status, unless
\* the one that is there was set by hand or a last one was lost.
StatusInv ==
  status \in Transient => astray \/ \E r \in Runs : rpc[r] \in Owing

\* What ArtifactHasFile rests on: the file a run is about to record is on disk.
ArtifactInv ==
  deleting = "no" => /\ rows \subseteq disk
                     /\ \A r \in Runs : rpc[r] = "record" => wrote[r] \in disk

\* What a run has in its hands where it uses it: the instance it was given, the
\* file it wrote.
LocalInv ==
  \A r \in Runs :
    /\ rpc[r] \in {"begin", "dial", "stream", "collect", "record"} => inst[r] \in Instances
    /\ rpc[r] = "record" => wrote[r] \in Files

ModInv == ModTypeOK /\ LocalInv /\ StatusInv /\ ArtifactInv

--------------------------------------------------------------------------------
(* Type correctness.                                                         *)

\* The empty board satisfies the invariant.
LEMMA ModInitInv == ModInit => ModInv
<1> SUFFICES ASSUME ModInit PROVE ModInv
  OBVIOUS
<1> USE ModeratorAssumption DEF ModInit
<1>0. astray \in BOOLEAN
  OBVIOUS
<1>1. ModTypeOK
  BY <1>0 DEF ModTypeOK, ModDataOK
<1>2. LocalInv /\ ArtifactInv
  BY DEF LocalInv, ArtifactInv
<1>3. StatusInv
  BY DEF StatusInv, Statuses, Transient
<1> QED
  BY <1>1, <1>2, <1>3 DEF ModInv

\* Every step keeps the types.
LEMMA ModDataStep == ModTypeOK /\ LocalInv /\ [ModNext]_modVars => ModDataOK'
<1> SUFFICES ASSUME ModTypeOK, LocalInv, [ModNext]_modVars PROVE ModDataOK'
  OBVIOUS
<1> USE ModeratorAssumption DEF ModTypeOK, ModDataOK, Statuses, rowVars, runVars, localVars, fileVars, Fault,
          RunGoto, WriteStatus, SetStatus, KeepStatus, LoseStatus, RunFails
<1>1. ASSUME NEW r \in Runs, Dispatch(r) \/ DispatchFails(r) \/ Assign(r) \/ AssignFails(r)
      PROVE  ModDataOK'
  BY <1>1 DEF Dispatch, DispatchFails, Assign, AssignFails, Candidates
<1>2. ASSUME NEW r \in Runs, LoadTask(r) \/ LoadFails(r) \/ Begin(r) \/ BeginFails(r)
      PROVE  ModDataOK'
  BY <1>2 DEF LoadTask, LoadFails, Begin, BeginFails
<1>3. ASSUME NEW r \in Runs, DialGateway(r) \/ DialFails(r) \/ RecvFails(r)
      PROVE  ModDataOK'
  BY <1>3 DEF DialGateway, DialFails, RecvFails
<1>4. ASSUME NEW r \in Runs, CollectFile(r) \/ SkipFile(r)
      PROVE  ModDataOK'
  BY <1>4 DEF CollectFile, SkipFile
<1>5. ASSUME NEW r \in Runs, InsertArtifact(r)
      PROVE  ModDataOK'
  BY <1>5 DEF InsertArtifact, LocalInv
<1>6. ASSUME NEW r \in Runs, RemoveOutcomeDir(r) \/ Finish(r) \/ FinishFails(r)
      PROVE  ModDataOK'
  BY <1>6 DEF RemoveOutcomeDir, Finish, FinishFails
<1>7. ASSUME NEW r \in Runs, markStopped(r) \/ markFailed(r) \/ LeaveRun(r)
      PROVE  ModDataOK'
  BY <1>7 DEF markStopped, markFailed, LeaveRun
<1>8. ASSUME NEW r \in Runs, AgentWrites(r) \/ LifecycleEnd(r)
      PROVE  ModDataOK'
  <2>1. inst[r] \in Instances
    BY <1>8 DEF AgentWrites, LifecycleEnd, LocalInv
  <2>2. CASE AgentWrites(r)
    BY <2>1, <2>2 DEF AgentWrites
  <2>3. CASE LifecycleEnd(r)
    <3>1. outbox[inst[r]] \in SUBSET Files
      BY <2>1
    <3> QED
      BY <3>1, <2>3 DEF LifecycleEnd, Mentioned
  <2> QED
    BY <1>8, <2>2, <2>3
<1>9. ASSUME NEW r \in Runs, CreateKanbanTask(r) \/ StartKanbanTask(r) \/ ReopenKanbanTask(r)
      PROVE  ModDataOK'
  BY <1>9 DEF CreateKanbanTask, StartKanbanTask, ReopenKanbanTask, EnqueueTask
<1>10. CASE CreateDraft \/ StopKanbanTask \/ \E s \in Statuses : PatchKanbanTask(s)
  BY <1>10 DEF CreateDraft, StopKanbanTask, PatchKanbanTask
<1>11. CASE DeleteFiles \/ DeleteRows \/ DeleteTaskRow
  BY <1>11 DEF DeleteFiles, DeleteRows, DeleteTaskRow
<1>12. CASE UpdateKanbanBoard \/ DeleteKanbanBoard \/ \E i \in Instances : DeleteInstance(i)
  <2>1. CASE UpdateKanbanBoard
    BY <2>1 DEF UpdateKanbanBoard
  <2>2. CASE DeleteKanbanBoard
    BY <2>2 DEF DeleteKanbanBoard
  <2>3. CASE \E i \in Instances : DeleteInstance(i)
    BY <2>3 DEF DeleteInstance
  <2> QED
    BY <1>12, <2>1, <2>2, <2>3
<1>13. CASE UNCHANGED modVars
  BY <1>13 DEF modVars
<1> QED
  BY <1>1, <1>2, <1>3, <1>4, <1>5, <1>6, <1>7, <1>8, <1>9, <1>10, <1>11, <1>12, <1>13
     DEF ModNext, Proceed

\* The history variable is a truth value.
LEMMA ModTypeStep == ModTypeOK /\ LocalInv /\ [ModNext]_modVars => ModTypeOK'
<1> SUFFICES ASSUME ModTypeOK, LocalInv, [ModNext]_modVars PROVE astray' \in BOOLEAN
  BY ModDataStep DEF ModTypeOK
<1> USE DEF rowVars, WriteStatus, SetStatus, KeepStatus, LoseStatus
<1>0. astray \in BOOLEAN
  BY DEF ModTypeOK
<1>1. ASSUME NEW r \in Runs, Proceed(r) \/ AgentWrites(r) \/ LifecycleEnd(r)
      PROVE  astray' \in BOOLEAN
  <2>1. CASE markStopped(r) \/ markFailed(r)
    BY <1>0, <2>1, Zenon DEF markStopped, markFailed
  <2>2. CASE Assign(r) \/ Begin(r) \/ Finish(r)
    BY <2>2, Zenon DEF Assign, Begin, Finish
  <2>3. CASE UNCHANGED astray
    BY <1>0, <2>3
  <2> QED
    BY <1>1, <2>1, <2>2, <2>3, Zenon DEF Proceed, Dispatch, DispatchFails, AssignFails, LoadTask, LoadFails,
         BeginFails, DialGateway, DialFails, RecvFails, CollectFile, SkipFile, InsertArtifact,
         RemoveOutcomeDir, FinishFails, LeaveRun, AgentWrites, LifecycleEnd
<1>2. ASSUME NEW r \in Runs, CreateKanbanTask(r) \/ StartKanbanTask(r) \/ ReopenKanbanTask(r)
      PROVE  astray' \in BOOLEAN
  BY <1>0, <1>2, Zenon DEF CreateKanbanTask, StartKanbanTask, ReopenKanbanTask
<1>3. CASE CreateDraft \/ StopKanbanTask \/ \E s \in Statuses : PatchKanbanTask(s)
  <2>1. CASE CreateDraft \/ StopKanbanTask
    BY <1>0, <2>1, Zenon DEF CreateDraft, StopKanbanTask
  <2>2. ASSUME NEW s \in Statuses, PatchKanbanTask(s)
        PROVE  astray' \in BOOLEAN
    <3>1. astray' = (s \in Transient)
      BY <2>2 DEF PatchKanbanTask
    <3>2. CASE s \in Transient
      BY <3>1, <3>2
    <3>3. CASE s \notin Transient
      BY <3>1, <3>3
    <3> QED
      BY <3>2, <3>3
  <2> QED
    BY <1>3, <2>1, <2>2
<1>4. CASE DeleteFiles \/ DeleteRows \/ DeleteTaskRow
  BY <1>0, <1>4, Zenon DEF DeleteFiles, DeleteRows, DeleteTaskRow
<1>5. CASE UpdateKanbanBoard \/ DeleteKanbanBoard \/ \E i \in Instances : DeleteInstance(i)
  BY <1>0, <1>5, Zenon DEF UpdateKanbanBoard, DeleteKanbanBoard, DeleteInstance
<1>6. CASE UNCHANGED modVars
  BY <1>0, <1>6 DEF modVars
<1> QED
  BY <1>1, <1>2, <1>3, <1>4, <1>5, <1>6 DEF ModNext

\* A run goes to the steps that use its instance or its file only with one.
LEMMA LocalStep == ModTypeOK /\ LocalInv /\ [ModNext]_modVars => LocalInv'
<1> SUFFICES ASSUME ModTypeOK, LocalInv, [ModNext]_modVars PROVE LocalInv'
  OBVIOUS
<1> USE ModeratorAssumption DEF LocalInv, runVars, localVars, RunGoto, RunFails
<1>0. /\ rpc \in [Runs -> {"idle", "dispatch", "assign", "load", "begin", "dial", "stream",
                       "collect", "record", "clean", "finish", "failDispatch", "fail", "stop", "leave"}]
      /\ wrote \in [Runs -> Files \cup {None}] /\ pending \in [Runs -> SUBSET Files]
      /\ inst \in [Runs -> Instances \cup {None}] /\ assigned \in Instances \cup {None}
  BY DEF ModTypeOK, ModDataOK
<1>1. ASSUME NEW r \in Runs,
             Dispatch(r) \/ DispatchFails(r) \/ Assign(r) \/ AssignFails(r)
               \/ LoadTask(r) \/ LoadFails(r) \/ Begin(r) \/ BeginFails(r)
      PROVE  LocalInv'
  BY <1>0, <1>1 DEF Dispatch, DispatchFails, Assign, AssignFails, LoadTask, LoadFails, Begin, BeginFails
<1>2. ASSUME NEW r \in Runs,
             DialGateway(r) \/ DialFails(r) \/ RecvFails(r) \/ RemoveOutcomeDir(r) \/ Finish(r)
               \/ FinishFails(r) \/ AgentWrites(r) \/ LifecycleEnd(r)
      PROVE  LocalInv'
  BY <1>0, <1>2 DEF DialGateway, DialFails, RecvFails, RemoveOutcomeDir, Finish, FinishFails, AgentWrites,
       LifecycleEnd
<1>3. ASSUME NEW r \in Runs, CollectFile(r) \/ SkipFile(r) \/ InsertArtifact(r)
      PROVE  LocalInv'
  BY <1>0, <1>3 DEF CollectFile, SkipFile, InsertArtifact
<1>4. ASSUME NEW r \in Runs, markStopped(r) \/ markFailed(r) \/ LeaveRun(r)
      PROVE  LocalInv'
  BY <1>0, <1>4 DEF markStopped, markFailed, LeaveRun
<1>5. ASSUME NEW r \in Runs, CreateKanbanTask(r) \/ StartKanbanTask(r) \/ ReopenKanbanTask(r)
      PROVE  LocalInv'
  BY <1>0, <1>5 DEF CreateKanbanTask, StartKanbanTask, ReopenKanbanTask, EnqueueTask
<1>6. CASE CreateDraft \/ StopKanbanTask \/ (\E s \in Statuses : PatchKanbanTask(s)) \/ DeleteFiles \/ DeleteRows
             \/ DeleteTaskRow \/ UpdateKanbanBoard \/ DeleteKanbanBoard
             \/ \E i \in Instances : DeleteInstance(i)
  BY <1>6 DEF CreateDraft, StopKanbanTask, PatchKanbanTask, DeleteFiles, DeleteRows,
       DeleteTaskRow, UpdateKanbanBoard, DeleteKanbanBoard, DeleteInstance
<1>7. CASE UNCHANGED modVars
  BY <1>7 DEF modVars
<1> QED
  BY <1>1, <1>2, <1>3, <1>4, <1>5, <1>6, <1>7 DEF ModNext, Proceed

--------------------------------------------------------------------------------
(* Statuses.                                                                 *)

\* A run that stops owing a status has just written one that is not transient.
LEMMA StatusStep == ModInv /\ [ModNext]_modVars => StatusInv'
<1> SUFFICES ASSUME ModInv, [ModNext]_modVars PROVE StatusInv'
  OBVIOUS
<1> USE ModeratorAssumption DEF ModInv, StatusInv, Transient, rowVars, runVars, RunGoto, WriteStatus,
          SetStatus, KeepStatus, LoseStatus, RunFails
<1>0. /\ rpc \in [Runs -> {"idle", "dispatch", "assign", "load", "begin", "dial", "stream",
                       "collect", "record", "clean", "finish", "failDispatch", "fail", "stop", "leave"}]
      /\ status \in Statuses \cup {None}
  BY DEF ModTypeOK, ModDataOK
<1>1. ASSUME NEW r \in Runs,
             Dispatch(r) \/ DispatchFails(r) \/ Assign(r) \/ AssignFails(r)
      PROVE  StatusInv'
  BY <1>0, <1>1 DEF Dispatch, DispatchFails, Assign, AssignFails, Owing
<1>2. ASSUME NEW r \in Runs,
             LoadTask(r) \/ LoadFails(r) \/ Begin(r) \/ BeginFails(r)
      PROVE  StatusInv'
  BY <1>0, <1>2 DEF LoadTask, LoadFails, Begin, BeginFails, Owing
<1>3. ASSUME NEW r \in Runs,
             DialGateway(r) \/ DialFails(r) \/ RecvFails(r)
      PROVE  StatusInv'
  BY <1>0, <1>3 DEF DialGateway, DialFails, RecvFails, Owing
<1>4. ASSUME NEW r \in Runs,
             CollectFile(r) \/ SkipFile(r) \/ InsertArtifact(r) \/ RemoveOutcomeDir(r)
               \/ AgentWrites(r) \/ LifecycleEnd(r)
      PROVE  StatusInv'
  BY <1>0, <1>4 DEF CollectFile, SkipFile, InsertArtifact, RemoveOutcomeDir, AgentWrites,
       LifecycleEnd, Owing
<1>5. ASSUME NEW r \in Runs,
             Finish(r) \/ FinishFails(r) \/ markStopped(r) \/ markFailed(r) \/ LeaveRun(r)
      PROVE  StatusInv'
  <2>1. CASE Finish(r) \/ FinishFails(r)
    BY <1>0, <2>1 DEF Finish, FinishFails, Owing, Statuses
  <2>2. CASE markStopped(r)
    BY <1>0, <2>2 DEF markStopped, Owing, Statuses
  <2>3. CASE markFailed(r)
    BY <1>0, <2>3 DEF markFailed, Owing, Statuses
  <2>4. CASE LeaveRun(r)
    BY <1>0, <2>4 DEF LeaveRun, Owing
  <2> QED
    BY <1>5, <2>1, <2>2, <2>3, <2>4
<1>6. ASSUME NEW r \in Runs, CreateKanbanTask(r) \/ StartKanbanTask(r) \/ ReopenKanbanTask(r)
      PROVE  StatusInv'
  <2>1. CASE status' \in {"todo", None}
    BY <2>1 DEF Statuses
  <2>2. CASE UNCHANGED <<status, astray>> /\ EnqueueTask(r)
    BY <1>0, <2>2 DEF EnqueueTask, Owing
  <2> QED
    BY <1>6, <2>1, <2>2 DEF CreateKanbanTask, StartKanbanTask, ReopenKanbanTask
<1>7. CASE CreateDraft \/ StopKanbanTask \/ (\E s \in Statuses : PatchKanbanTask(s)) \/ DeleteFiles \/ DeleteRows
             \/ DeleteTaskRow \/ UpdateKanbanBoard \/ DeleteKanbanBoard
             \/ \E i \in Instances : DeleteInstance(i)
  <2>1. CASE status' \in {"draft", None}
    BY <2>1 DEF Statuses
  <2>2. CASE UNCHANGED <<status, astray, rpc>>
    BY <2>2
  <2>3. CASE astray' = (status' \in Transient)
    BY <2>3
  <2> QED
    BY <1>7, <2>1, <2>2, <2>3 DEF CreateDraft, StopKanbanTask, PatchKanbanTask, DeleteFiles, DeleteRows,
         DeleteTaskRow, UpdateKanbanBoard, DeleteKanbanBoard, DeleteInstance
<1>8. CASE UNCHANGED modVars
  BY <1>8 DEF modVars
<1> QED
  BY <1>1, <1>2, <1>3, <1>4, <1>5, <1>6, <1>7, <1>8 DEF ModNext, Proceed

--------------------------------------------------------------------------------
(* Artifacts.                                                                *)

\* Files come before rows, and leave the disk only when the task is deleted.
LEMMA ArtifactStep == ModInv /\ [ModNext]_modVars => ArtifactInv'
<1> SUFFICES ASSUME ModInv, [ModNext]_modVars PROVE ArtifactInv'
  OBVIOUS
<1> USE DEF ModInv, ArtifactInv, fileVars, localVars, RunGoto, RunFails
<1>0. /\ rpc \in [Runs -> {"idle", "dispatch", "assign", "load", "begin", "dial", "stream",
                       "collect", "record", "clean", "finish", "failDispatch", "fail", "stop", "leave"}]
      /\ wrote \in [Runs -> Files \cup {None}]
  BY DEF ModTypeOK, ModDataOK
<1>1. ASSUME NEW r \in Runs,
             Dispatch(r) \/ DispatchFails(r) \/ Assign(r) \/ AssignFails(r)
               \/ LoadTask(r) \/ LoadFails(r) \/ Begin(r) \/ BeginFails(r)
      PROVE  ArtifactInv'
  BY <1>0, <1>1 DEF Dispatch, DispatchFails, Assign, AssignFails, LoadTask, LoadFails, Begin, BeginFails
<1>2. ASSUME NEW r \in Runs,
             DialGateway(r) \/ DialFails(r) \/ RecvFails(r) \/ RemoveOutcomeDir(r) \/ Finish(r)
               \/ FinishFails(r) \/ AgentWrites(r) \/ LifecycleEnd(r)
      PROVE  ArtifactInv'
  BY <1>0, <1>2 DEF DialGateway, DialFails, RecvFails, RemoveOutcomeDir, Finish, FinishFails, AgentWrites,
       LifecycleEnd
<1>3. ASSUME NEW r \in Runs, CollectFile(r)
      PROVE  ArtifactInv'
  BY <1>0, <1>3 DEF CollectFile
<1>4. ASSUME NEW r \in Runs, SkipFile(r) \/ InsertArtifact(r)
      PROVE  ArtifactInv'
  BY <1>0, <1>4 DEF SkipFile, InsertArtifact
<1>5. ASSUME NEW r \in Runs, markStopped(r) \/ markFailed(r) \/ LeaveRun(r)
      PROVE  ArtifactInv'
  BY <1>0, <1>5 DEF markStopped, markFailed, LeaveRun
<1>6. ASSUME NEW r \in Runs, CreateKanbanTask(r) \/ StartKanbanTask(r) \/ ReopenKanbanTask(r)
      PROVE  ArtifactInv'
  BY <1>0, <1>6 DEF CreateKanbanTask, StartKanbanTask, ReopenKanbanTask, EnqueueTask
<1>7. CASE DeleteFiles \/ DeleteRows \/ DeleteTaskRow
  BY <1>7 DEF DeleteFiles, DeleteRows, DeleteTaskRow
<1>8. CASE CreateDraft \/ StopKanbanTask \/ (\E s \in Statuses : PatchKanbanTask(s)) \/ UpdateKanbanBoard
             \/ DeleteKanbanBoard \/ \E i \in Instances : DeleteInstance(i)
  BY <1>8 DEF CreateDraft, StopKanbanTask, PatchKanbanTask, UpdateKanbanBoard, DeleteKanbanBoard,
       DeleteInstance
<1>9. CASE UNCHANGED modVars
  BY <1>9 DEF modVars
<1> QED
  BY <1>1, <1>2, <1>3, <1>4, <1>5, <1>6, <1>7, <1>8, <1>9 DEF ModNext, Proceed

--------------------------------------------------------------------------------

\* The invariant of the moderator.
LEMMA ModInvariant == ModSpec => []ModInv
<1>1. ModInv /\ [ModNext]_modVars => ModInv'
  BY ModTypeStep, LocalStep, StatusStep, ArtifactStep DEF ModInv
<1> QED
  BY <1>1, ModInitInv, PTL DEF ModSpec

\* A task row that says dispatching or in_progress always has a goroutine that
\* works on it, for any number of runs that overlap, are stopped or fail, unless
\* the status was set by hand or a run's last write of it failed.
THEOREM BoardTellsTruth == ModSpec => []NoStuckTask
<1>1. ModInv => NoStuckTask
  BY DEF ModInv, StatusInv, NoStuckTask, Active, Owing
<1> QED
  BY <1>1, ModInvariant, PTL

\* Every artifact row of a task nobody has begun to delete has its file on disk.
THEOREM ArtifactsComplete == ModSpec => []ArtifactHasFile
<1>1. ModInv => ArtifactHasFile
  BY DEF ModInv, ArtifactInv, ArtifactHasFile
<1> QED
  BY <1>1, ModInvariant, PTL

--------------------------------------------------------------------------------
(****************************************************************************)
(* Accounts.                                                                *)
(****************************************************************************)

AccTypes ==
  /\ role \in [Users -> {"absent", "user", "admin", "deleted"}]
  /\ password \in [Users -> 0..MaxPasswords]
  /\ store \in [Cookies -> Sessions \cup {NoSession}]
  /\ requests \subseteq UserRequests

\* Nothing stands for a password that has not been set yet.
StampInv ==
  /\ \A q \in InState("open") \cup InState("revokeOthers") : q.password <= password[q.user]
  /\ \A c \in Cookies : store[c] # NoSession => store[c].password <= password[store[c].user]

\* What SessionsRevoked rests on: a session that is neither late nor up to date
\* is one that a revocation still under way will remove or bring up to date. A
\* change of the password that has been overtaken by another does not count.
RevokeInv ==
  \A c \in Cookies :
    LET s == store[c] IN
    s # NoSession /\ ~s.late =>
      \/ Exists(s.user) /\ s.password = password[s.user]
      \/ \E q \in InState("revoke") : q.user = s.user
      \/ /\ Exists(s.user)
         /\ \E q \in InState("revokeOthers") : q.user = s.user /\ q.password = password[s.user]

AccInv == AccTypes /\ StampInv /\ RevokeInv /\ AdminRemains

--------------------------------------------------------------------------------
\* The fields of a request, by what it is about to do.
LEMMA RequestFields ==
  \A q \in UserRequests :
    /\ q.pc \in {"open", "revokeOthers"} => q.password \in 0..MaxPasswords
    /\ q.pc # "setup" => q.user \in Users
    /\ q.pc \in {"delete", "role", "reset"} => q.by \in Users
    /\ q.pc \in {"change", "revokeOthers"} => q.cookie \in Cookies
  BY DEF UserRequests

\* A request built by a handler is one.
LEMMA RequestBuilt ==
  /\ \A u \in Users : \A p \in 0..MaxPasswords : Opening(u, p) \in UserRequests
  /\ \A u, v \in Users : \A k \in {"delete", "role", "reset"} : Admin(k, u, v) \in UserRequests
  /\ \A u \in Users : Revoking(u) \in UserRequests
  /\ \A c \in Cookies : store[c].user \in Users => Changing(c) \in UserRequests
  /\ \A n \in 1..MaxRequests : Setup(n) \in UserRequests
  /\ \A q \in UserRequests : \A p \in 0..MaxPasswords :
       q.pc = "change" => RevokingOthers(q, p) \in UserRequests
<1>1. /\ \A u \in Users : \A p \in 0..MaxPasswords : Opening(u, p) \in UserRequests
      /\ \A u, v \in Users : \A k \in {"delete", "role", "reset"} : Admin(k, u, v) \in UserRequests
  BY DEF Opening, Admin, UserRequests
<1>2. /\ \A u \in Users : Revoking(u) \in UserRequests
      /\ \A c \in Cookies : store[c].user \in Users => Changing(c) \in UserRequests
  BY DEF Revoking, Changing, UserRequests
<1>3. \A n \in 1..MaxRequests : Setup(n) \in UserRequests
  BY DEF Setup, UserRequests
<1>4. \A q \in UserRequests : \A p \in 0..MaxPasswords :
       q.pc = "change" => RevokingOthers(q, p) \in UserRequests
  BY RequestFields DEF RevokingOthers, UserRequests
<1> QED
  BY <1>1, <1>2, <1>3, <1>4

\* ... and is found under its name.
LEMMA RequestNames ==
  /\ \A u, p : Opening(u, p).pc = "open" /\ Opening(u, p).user = u /\ Opening(u, p).password = p
  /\ \A k, u, v : Admin(k, u, v).pc = k
  /\ \A u : Revoking(u).pc = "revoke" /\ Revoking(u).user = u
  /\ \A c : Changing(c).pc = "change"
  /\ \A n : Setup(n).pc = "setup"
  /\ \A q, p : /\ RevokingOthers(q, p).pc = "revokeOthers" /\ RevokingOthers(q, p).user = q.user
               /\ RevokingOthers(q, p).password = p
  BY DEF Opening, Admin, Revoking, Changing, Setup, RevokingOthers

\* A session is that of a user; where there is none, it is nobody's.
LEMMA SessionUsers ==
  ASSUME AccTypes, NEW c \in Cookies
  PROVE  /\ store[c] # NoSession => store[c] \in Sessions /\ store[c].user \in Users
         /\ store[c] = NoSession => store[c].user = Nobody
         /\ store[c].user \in Users => store[c] # NoSession /\ store[c] \in Sessions
<1>1. store[c] \in Sessions \cup {NoSession}
  BY DEF AccTypes
<1>2. NoSession.user = Nobody
  BY DEF NoSession
<1>3. \A s \in Sessions : s.user \in Users
  BY DEF Sessions
<1> QED
  BY <1>1, <1>2, <1>3, AccountsAssumption

\* Sessions are not touched, no password is set and no user goes: what the
\* invariant says of them stays.
LEMMA Untouched ==
  ASSUME AccInv, store' = store, password' = password,
         \A u \in Users : Exists(u) => Exists(u)',
         requests' \subseteq UserRequests,
         \A q \in InState("revoke") \cup InState("revokeOthers") : q \in requests',
         \A q \in requests' \ requests : q.pc \in {"open", "revokeOthers"} => q.password <= password[q.user]
  PROVE  StampInv' /\ RevokeInv'
<1>0. AccTypes /\ StampInv /\ RevokeInv
  BY DEF AccInv
<1>1. StampInv'
  BY <1>0 DEF StampInv, InState
<1>2. RevokeInv'
  <2> SUFFICES ASSUME NEW c \in Cookies, store[c] # NoSession, ~store[c].late
               PROVE  \/ Exists(store[c].user)' /\ store[c].password = password[store[c].user]
                      \/ \E q \in InState("revoke")' : q.user = store[c].user
                      \/ /\ Exists(store[c].user)'
                         /\ \E q \in InState("revokeOthers")' :
                              q.user = store[c].user /\ q.password = password[store[c].user]
    BY DEF RevokeInv
  <2>1. store[c].user \in Users
    BY <1>0, SessionUsers
  <2>2. Exists(store[c].user) => Exists(store[c].user)'
    BY <2>1 DEF Exists
  <2>3. \A k \in {"revoke", "revokeOthers"} : InState(k) \subseteq InState(k)'
    BY DEF InState
  <2> QED
    BY <1>0, <2>2, <2>3 DEF RevokeInv
<1> QED
  BY <1>1, <1>2

--------------------------------------------------------------------------------
(* Types.                                                                    *)

\* A password stays in its range.
LEMMA PasswordType ==
  ASSUME AccTypes, NEW u \in Users, NewPassword(u)
  PROVE  /\ password' \in [Users -> 0..MaxPasswords]
         /\ \A v \in Users : password[v] <= password'[v]
         /\ \A v \in Users \ {u} : password'[v] = password[v]
         /\ ~Exists(u) => password' = password
<1>1. password \in [Users -> 0..MaxPasswords] /\ MaxPasswords \in Nat
  BY AccountsAssumption DEF AccTypes
<1>2. password[u] < MaxPasswords /\ password' = [password EXCEPT ![u] = IF Exists(u) THEN password[u] + 1 ELSE password[u]]
  BY DEF NewPassword
<1> QED
  BY <1>1, <1>2

\* The types are kept by every step.
LEMMA AccTypesStep ==
  ASSUME AccInv, [AccountsNext]_accountVars
  PROVE  AccTypes'
<1>0. AccTypes /\ StampInv
  BY DEF AccInv
<1>1. /\ role \in [Users -> {"absent", "user", "admin", "deleted"}]
      /\ password \in [Users -> 0..MaxPasswords]
      /\ store \in [Cookies -> Sessions \cup {NoSession}]
      /\ requests \subseteq UserRequests
  BY <1>0 DEF AccTypes
<1>2. CanCreate => NewUser \in Users /\ role[NewUser] = "absent"
  BY DEF CanCreate, NewUser
<1>3. NoSession \in Sessions \cup {NoSession}
  OBVIOUS
<1>4. CASE SetupCreateAdmin
  BY <1>1, <1>4, RequestBuilt DEF SetupCreateAdmin, Arrives, AccTypes
<1>5. CASE SetupInserts
  <2>1. 0 \in 0..MaxPasswords
    BY AccountsAssumption
  <2> QED
    BY <1>1, <1>2, <1>5, <2>1, RequestBuilt DEF SetupInserts, GoesOn, AccTypes, InState
<1>6. CASE OpenSession
  <2>1. PICK q \in InState("open") :
          /\ \E c \in Cookies : store[c] = NoSession
          /\ store' = [store EXCEPT ![CHOOSE c \in Cookies : store[c] = NoSession] =
               [user |-> q.user, password |-> q.password,
                late |-> q.password # password[q.user] \/ ~Exists(q.user)]]
          /\ Answer(q)
          /\ UNCHANGED <<role, password, crossed>>
    BY <1>6 DEF OpenSession
  <2>2. q.user \in Users /\ q.password \in 0..MaxPasswords
    BY <1>1, RequestFields DEF InState
  <2>3. [user |-> q.user, password |-> q.password,
         late |-> q.password # password[q.user] \/ ~Exists(q.user)] \in Sessions
    BY <2>2 DEF Sessions
  <2>4. store' \in [Cookies -> Sessions \cup {NoSession}]
    BY <1>1, <2>1, <2>3
  <2> QED
    BY <1>1, <2>1, <2>4 DEF AccTypes, Answer
<1>7. ASSUME NEW u \in Users, Login(u) PROVE AccTypes'
  BY <1>1, <1>7, RequestBuilt DEF Login, Arrives, AccTypes
<1>8. ASSUME NEW c \in Cookies, SessionEnds(c) \/ CreateUser(c) PROVE AccTypes'
  BY <1>1, <1>2, <1>8 DEF SessionEnds, CreateUser, AccTypes
<1>9. ASSUME NEW c \in Cookies, ChangePassword(c) PROVE AccTypes'
  BY <1>0, <1>1, <1>9, RequestBuilt, SessionUsers DEF ChangePassword, RequireAuth, Arrives, AccTypes
<1>10. ASSUME NEW c \in Cookies, NEW k \in {"delete", "role", "reset"}, NEW u \in Users, Authorized(c, k, u)
       PROVE  AccTypes'
  <2>1. store[c].user \in Users
    BY <1>0, <1>10, SessionUsers DEF Authorized, RequireAdmin, RequireAuth
  <2> QED
    BY <1>1, <1>10, <2>1, RequestBuilt DEF Authorized, Arrives, AccTypes
<1>11. CASE DeleteUser
  <2>1. PICK q \in InState("delete") :
          /\ \/ requests' = requests \ {q} /\ role' = role
             \/ role' = [role EXCEPT ![q.user] = "deleted"] /\ requests' = (requests \ {q}) \cup {Revoking(q.user)}
          /\ UNCHANGED <<password, store>>
    BY <1>11 DEF DeleteUser, Answer, GoesOn
  <2>2. Revoking(q.user) \in UserRequests
    BY <1>1, RequestFields, RequestBuilt DEF InState
  <2> QED
    BY <1>1, <2>1, <2>2 DEF AccTypes
<1>12. CASE UpdateUserRole
  BY <1>1, <1>12 DEF UpdateUserRole, Answer, AccTypes
<1>13. CASE ResetUserPassword
  <2>1. PICK q \in InState("reset") :
          NewPassword(q.user) /\ GoesOn(q, Revoking(q.user)) /\ UNCHANGED <<role, store, crossed>>
    BY <1>13 DEF ResetUserPassword
  <2>2. q.user \in Users
    BY <1>1, RequestFields DEF InState
  <2>3. password' \in [Users -> 0..MaxPasswords]
    BY <1>0, <2>1, <2>2, PasswordType
  <2> QED
    BY <1>1, <2>1, <2>2, <2>3, RequestBuilt DEF AccTypes, GoesOn
<1>14. CASE Revoke
  BY <1>1, <1>3, <1>14 DEF Revoke, WithoutSessionsOf, Answer, AccTypes
<1>15. CASE ChangeWritten
  <2>1. PICK q \in InState("change") :
          NewPassword(q.user) /\ GoesOn(q, RevokingOthers(q, password'[q.user])) /\ UNCHANGED <<role, store, crossed>>
    BY <1>15 DEF ChangeWritten
  <2>2. q.user \in Users /\ q \in UserRequests /\ q.pc = "change"
    BY <1>1, RequestFields DEF InState
  <2>3. password' \in [Users -> 0..MaxPasswords]
    BY <1>0, <2>1, <2>2, PasswordType
  <2>4. RevokingOthers(q, password'[q.user]) \in UserRequests
    BY <2>2, <2>3, RequestBuilt
  <2> QED
    BY <1>1, <2>1, <2>3, <2>4 DEF AccTypes, GoesOn
<1>16. CASE RevokeOthers
  <2>1. PICK q \in InState("revokeOthers") :
          /\ store' = [c \in Cookies |->
               IF c = q.cookie /\ store[c].user = q.user
               THEN [store[c] EXCEPT !.password = Later(store[c].password, q.password)]
               ELSE WithoutSessionsOf(q.user, q.cookie)[c]]
          /\ requests' = requests \ {q}
          /\ UNCHANGED <<role, password, crossed>>
    BY <1>16 DEF RevokeOthers, Answer
  <2>2. q.user \in Users /\ q.password \in 0..MaxPasswords
    BY <1>1, RequestFields DEF InState
  <2>3. \A s \in Sessions : [s EXCEPT !.password = Later(s.password, q.password)] \in Sessions
    BY <2>2, AccountsAssumption DEF Later, Sessions
  <2>4. ASSUME NEW c \in Cookies PROVE store'[c] \in Sessions \cup {NoSession}
    <3>1. CASE c = q.cookie /\ store[c].user = q.user
      <4>1. store[c] \in Sessions
        BY <1>0, <2>2, <3>1, SessionUsers
      <4> QED
        BY <2>1, <2>3, <3>1, <4>1
    <3>2. CASE ~(c = q.cookie /\ store[c].user = q.user)
      BY <1>1, <2>1, <3>2 DEF WithoutSessionsOf
    <3> QED
      BY <3>1, <3>2
  <2> QED
    BY <1>1, <2>1, <2>4 DEF AccTypes
<1>17. CASE SessionsLost
  BY <1>1, <1>3, <1>17 DEF SessionsLost, AccTypes
<1>18. CASE UNCHANGED accountVars
  BY <1>1, <1>18 DEF accountVars, AccTypes
<1> QED
  BY <1>4, <1>5, <1>6, <1>7, <1>8, <1>9, <1>10, <1>11, <1>12, <1>13, <1>14, <1>15, <1>16, <1>17, <1>18
     DEF AccountsNext

--------------------------------------------------------------------------------
(* Sessions.                                                                 *)

\* One session, and what RevokeInv says of it.
Settled(s) ==
  s # NoSession /\ ~s.late =>
    \/ Exists(s.user) /\ s.password = password[s.user]
    \/ \E q \in InState("revoke") : q.user = s.user
    \/ /\ Exists(s.user)
       /\ \E q \in InState("revokeOthers") : q.user = s.user /\ q.password = password[s.user]

\* A session stays settled as long as its user stays, keeps the password, and
\* no revocation of his sessions ends.
LEMMA StaysSettled ==
  ASSUME NEW s \in Sessions, Settled(s),
         Exists(s.user) => Exists(s.user)', password'[s.user] = password[s.user],
         \A q \in InState("revoke") \cup InState("revokeOthers") : q.user = s.user => q \in requests'
  PROVE  Settled(s)'
<1>1. \A q \in InState("revoke") : q.user = s.user => q \in InState("revoke")'
  BY DEF InState
<1>2. \A q \in InState("revokeOthers") : q.user = s.user => q \in InState("revokeOthers")'
  BY DEF InState
<1> QED
  BY <1>1, <1>2 DEF Settled

\* The sessions are as they are settled.
LEMMA AllSettled == RevokeInv <=> \A c \in Cookies : Settled(store[c])
  BY DEF RevokeInv, Settled

\* A deletion, a reset or a change is written; the sessions go next.
LEMMA WrittenStep ==
  ASSUME AccInv, DeleteUser \/ ResetUserPassword \/ ChangeWritten
  PROVE  StampInv' /\ RevokeInv'
<1>0. AccTypes /\ StampInv /\ RevokeInv
  BY DEF AccInv
<1>1. /\ role \in [Users -> {"absent", "user", "admin", "deleted"}]
      /\ password \in [Users -> 0..MaxPasswords] /\ requests \subseteq UserRequests
  BY <1>0 DEF AccTypes
<1>2. ASSUME NEW q \in requests, NEW p, q.pc \in {"delete", "reset", "change"}, requests' = (requests \ {q}) \cup {p},
             store' = store, p.user = q.user,
             \A u \in Users \ {q.user} : role'[u] = role[u] /\ password'[u] = password[u],
             \A u \in Users : password[u] <= password'[u],
             password' \in [Users -> 0..MaxPasswords],
             \/ p.pc = "revoke"
             \/ /\ p.pc = "revokeOthers" /\ p.password = password'[q.user] /\ role' = role
                /\ ~Exists(q.user) => password' = password
      PROVE  StampInv' /\ RevokeInv'
  <2>0. q.user \in Users
    BY <1>1, <1>2, RequestFields
  <2>1. \A k \in {"open", "revoke", "revokeOthers"} : InState(k) \subseteq InState(k)' /\ InState(k)' \subseteq InState(k) \cup {p}
    BY <1>2 DEF InState
  <2>2. StampInv'
    <3>1. ASSUME NEW r \in InState("open") \cup InState("revokeOthers")
          PROVE  r.password <= password'[r.user]
      <4>1. r.user \in Users /\ r.password \in 0..MaxPasswords /\ r.password <= password[r.user]
        BY <1>0, <1>1, RequestFields DEF InState, StampInv
      <4> QED
        BY <1>1, <1>2, <4>1, AccountsAssumption
    <3>2. p.pc = "revokeOthers" => p.password <= password'[p.user]
      BY <1>2, <2>0, AccountsAssumption
    <3>3. ASSUME NEW c \in Cookies, store[c] # NoSession PROVE store[c].password <= password'[store[c].user]
      <4>1. store[c].user \in Users /\ store[c].password \in 0..MaxPasswords
        BY <1>0, <3>3, SessionUsers DEF Sessions
      <4>2. store[c].password <= password[store[c].user]
        BY <1>0, <3>3 DEF StampInv
      <4> QED
        BY <1>1, <1>2, <4>1, <4>2, AccountsAssumption
    <3>4. \A r \in InState("open")' \cup InState("revokeOthers")' :
            r \in InState("open") \cup InState("revokeOthers") \/ (r = p /\ p.pc = "revokeOthers")
      BY <1>2, <2>1 DEF InState
    <3> QED
      BY <1>2, <3>1, <3>2, <3>3, <3>4 DEF StampInv
  <2>3. ASSUME NEW c \in Cookies PROVE Settled(store[c])'
    <3>1. CASE store[c] = NoSession
      BY <1>2, <3>1 DEF Settled
    <3>2. CASE store[c] # NoSession
      <4>0. store[c] \in Sessions /\ store[c].user \in Users /\ store'[c] = store[c] /\ Settled(store[c])
        BY <1>0, <1>2, <3>2, SessionUsers, AllSettled
      <4>1. CASE store[c].user # q.user
        <5>1. Exists(store[c].user) => Exists(store[c].user)'
          BY <1>2, <4>0, <4>1 DEF Exists
        <5>3. \A r \in InState("revoke") \cup InState("revokeOthers") : r \in requests'
          BY <1>2 DEF InState
        <5>4. ASSUME NEW s, s = store[c] PROVE Settled(s)'
          BY <1>2, <4>0, <4>1, <5>1, <5>3, <5>4, StaysSettled DEF Exists
        <5> QED
          BY <4>0, <5>4 DEF Settled
      <4>2. CASE store[c].user = q.user /\ p.pc = "revoke"
        <5>1. p \in InState("revoke")'
          BY <1>2, <4>2 DEF InState
        <5> QED
          BY <1>2, <4>0, <4>2, <5>1 DEF Settled
      <4>3. CASE store[c].user = q.user /\ p.pc = "revokeOthers" /\ Exists(q.user)
        <5>1. p \in InState("revokeOthers")' /\ p.password = password'[q.user] /\ role' = role
          BY <1>2, <4>3 DEF InState
        <5> QED
          BY <1>2, <4>0, <4>3, <5>1 DEF Settled, Exists
      <4>4. CASE store[c].user = q.user /\ p.pc = "revokeOthers" /\ ~Exists(q.user)
        BY <1>2, <2>1, <4>0, <4>4 DEF Settled, Exists
      <4> QED
        BY <1>2, <4>1, <4>2, <4>3, <4>4
    <3> QED
      BY <3>1, <3>2
  <2> QED
    BY <2>2, <2>3 DEF RevokeInv, Settled
<1>3. CASE DeleteUser
  <2>1. PICK q \in InState("delete") :
          /\ \/ requests' = requests \ {q} /\ role' = role
             \/ role' = [role EXCEPT ![q.user] = "deleted"] /\ requests' = (requests \ {q}) \cup {Revoking(q.user)}
          /\ UNCHANGED <<password, store>>
    BY <1>3 DEF DeleteUser, Answer, GoesOn
  <2>2. q \in requests /\ q.pc = "delete"
    BY DEF InState
  <2>3. CASE requests' = requests \ {q} /\ role' = role
    <3>1. \A r \in InState("revoke") \cup InState("revokeOthers") : r \in requests'
      BY <2>2, <2>3 DEF InState
    <3>2. \A u \in Users : Exists(u) => Exists(u)'
      BY <2>3 DEF Exists
    <3> QED
      BY <1>1, <2>1, <2>3, <3>1, <3>2, Untouched
  <2>4. CASE role' = [role EXCEPT ![q.user] = "deleted"] /\ requests' = (requests \ {q}) \cup {Revoking(q.user)}
    <3>1. /\ \A u \in Users \ {q.user} : role'[u] = role[u] /\ password'[u] = password[u]
          /\ \A u \in Users : password[u] <= password'[u]
      BY <1>1, <2>1, <2>4, AccountsAssumption
    <3>2. Revoking(q.user).pc = "revoke" /\ Revoking(q.user).user = q.user
      BY RequestNames
    <3> QED
      BY <1>1, <1>2, <2>1, <2>2, <2>4, <3>1, <3>2
  <2> QED
    BY <2>1, <2>3, <2>4
<1>4. CASE ResetUserPassword
  <2>1. PICK q \in InState("reset") :
          NewPassword(q.user) /\ GoesOn(q, Revoking(q.user)) /\ UNCHANGED <<role, store, crossed>>
    BY <1>4 DEF ResetUserPassword
  <2>2. q \in requests /\ q.pc = "reset" /\ q.user \in Users
    BY <1>1, RequestFields DEF InState
  <2>3. Revoking(q.user).pc = "revoke" /\ Revoking(q.user).user = q.user
    BY RequestNames
  <2>4. requests' = (requests \ {q}) \cup {Revoking(q.user)}
    BY <2>1 DEF GoesOn
  <2> QED
    BY <1>0, <1>2, <2>1, <2>2, <2>3, <2>4, PasswordType
<1>5. CASE ChangeWritten
  <2>1. PICK q \in InState("change") :
          NewPassword(q.user) /\ GoesOn(q, RevokingOthers(q, password'[q.user])) /\ UNCHANGED <<role, store, crossed>>
    BY <1>5 DEF ChangeWritten
  <2>2. q \in requests /\ q.pc = "change" /\ q.user \in Users
    BY <1>1, RequestFields DEF InState
  <2> DEFINE p == RevokingOthers(q, password'[q.user])
  <2>3. p.pc = "revokeOthers" /\ p.user = q.user /\ p.password = password'[q.user]
    BY RequestNames
  <2>4. requests' = (requests \ {q}) \cup {p}
    BY <2>1 DEF GoesOn
  <2> HIDE DEF p
  <2> QED
    BY <1>0, <1>2, <2>1, <2>2, <2>3, <2>4, PasswordType
<1> QED
  BY <1>3, <1>4, <1>5

\* Sessions open and end.
LEMMA SessionsStep ==
  ASSUME AccInv,
         \/ OpenSession \/ Revoke \/ RevokeOthers \/ SessionsLost
         \/ \E c \in Cookies : SessionEnds(c)
  PROVE  StampInv' /\ RevokeInv'
<1>0. AccTypes /\ StampInv /\ RevokeInv
  BY DEF AccInv
<1>1. /\ password \in [Users -> 0..MaxPasswords] /\ requests \subseteq UserRequests
      /\ store \in [Cookies -> Sessions \cup {NoSession}]
  BY <1>0 DEF AccTypes
<1>2. ASSUME requests' \subseteq requests, role' = role, password' = password
      PROVE  /\ \A q \in InState("open")' \cup InState("revokeOthers")' : q.password <= password'[q.user]
             /\ \A s \in Sessions : Exists(s.user)' <=> Exists(s.user)
  BY <1>0, <1>2 DEF StampInv, InState, Exists
\* A session that was there stays, and no revocation of it ends.
<1>3. ASSUME requests' \subseteq requests, role' = role, password' = password, NEW c \in Cookies,
             store[c] # NoSession, store'[c] = store[c],
             \A q \in InState("revoke") \cup InState("revokeOthers") : q.user = store[c].user => q \in requests'
      PROVE  Settled(store[c])' /\ store'[c].password <= password'[store'[c].user]
  <2>1. store[c] \in Sessions /\ Settled(store[c]) /\ store[c].password <= password[store[c].user]
    BY <1>0, <1>3, SessionUsers, AllSettled DEF StampInv
  <2>2. ASSUME NEW s, s = store[c] PROVE Settled(s)'
    BY <1>3, <2>1, <2>2, StaysSettled DEF Exists
  <2> QED
    BY <1>3, <2>1, <2>2 DEF Settled
<1>4. ASSUME NEW c \in Cookies, store'[c] = NoSession PROVE Settled(store[c])'
  BY <1>4 DEF Settled
<1>5. CASE OpenSession
  <2>1. PICK q \in InState("open") :
          /\ \E c \in Cookies : store[c] = NoSession
          /\ store' = [store EXCEPT ![CHOOSE c \in Cookies : store[c] = NoSession] =
               [user |-> q.user, password |-> q.password,
                late |-> q.password # password[q.user] \/ ~Exists(q.user)]]
          /\ requests' = requests \ {q}
          /\ UNCHANGED <<role, password, crossed>>
    BY <1>5 DEF OpenSession, Answer
  <2>2. PICK n \in Cookies : n = CHOOSE c \in Cookies : store[c] = NoSession
    BY <2>1
  <2>3. PICK new : new = [user |-> q.user, password |-> q.password,
                          late |-> q.password # password[q.user] \/ ~Exists(q.user)]
    OBVIOUS
  <2>4. new.user = q.user /\ new.password = q.password /\ (~new.late => q.password = password[q.user] /\ Exists(q.user))
    BY <2>3
  <2>5. q.password <= password[q.user]
    BY <1>0 DEF StampInv
  <2>6. store'[n] = new /\ \A c \in Cookies \ {n} : store'[c] = store[c]
    BY <1>1, <2>1, <2>2, <2>3
  <2>7. Settled(store[n])'
    <3>1. ~new.late => Exists(q.user)' /\ new.password = password'[q.user]
      BY <2>1, <2>4 DEF Exists
    <3> QED
      BY <2>4, <2>6, <3>1 DEF Settled, Exists
  <2>8. \A r \in InState("revoke") \cup InState("revokeOthers") : r \in requests'
    BY <2>1 DEF InState
  <2>9. \A c \in Cookies : Settled(store[c])'
    <3>1. ASSUME NEW c \in Cookies \ {n}, store[c] = NoSession PROVE Settled(store[c])'
      BY <1>4, <2>6, <3>1
    <3>2. ASSUME NEW c \in Cookies \ {n}, store[c] # NoSession PROVE Settled(store[c])'
      BY <1>3, <2>1, <2>6, <2>8, <3>2
    <3> QED
      BY <2>7, <3>1, <3>2
  <2>10. \A c \in Cookies : store'[c] # NoSession => store'[c].password <= password'[store'[c].user]
    BY <1>3, <2>1, <2>4, <2>5, <2>6, <2>8
  <2> QED
    BY <1>2, <2>1, <2>9, <2>10 DEF StampInv, RevokeInv, Settled
<1>6. ASSUME NEW d \in Cookies, SessionEnds(d) PROVE StampInv' /\ RevokeInv'
  <2>1. store'[d] = NoSession /\ \A c \in Cookies \ {d} : store'[c] = store[c]
    BY <1>1, <1>6 DEF SessionEnds
  <2>2. requests' = requests /\ role' = role /\ password' = password
    BY <1>6 DEF SessionEnds
  <2>3. \A r \in InState("revoke") \cup InState("revokeOthers") : r \in requests'
    BY <2>2 DEF InState
  <2>4. \A c \in Cookies : Settled(store[c])'
    BY <1>3, <1>4, <2>1, <2>2, <2>3
  <2>5. \A c \in Cookies : store'[c] # NoSession => store'[c].password <= password'[store'[c].user]
    BY <1>3, <2>1, <2>2, <2>3
  <2> QED
    BY <1>2, <2>2, <2>4, <2>5 DEF StampInv, RevokeInv, Settled
<1>7. CASE Revoke
  <2>1. PICK q \in InState("revoke") :
          /\ store' = [c \in Cookies |-> IF store[c].user = q.user /\ c # Nobody THEN NoSession ELSE store[c]]
          /\ requests' = requests \ {q} /\ role' = role /\ password' = password
    BY <1>7 DEF Revoke, WithoutSessionsOf, Answer
  <2>2. \A c \in Cookies : store'[c] = NoSession \/ (store'[c] = store[c] /\ store[c].user # q.user)
    BY <2>1, AccountsAssumption
  <2>3. \A r \in InState("revoke") \cup InState("revokeOthers") : r # q => r \in requests'
    BY <2>1 DEF InState
  <2>4. ASSUME NEW c \in Cookies, store'[c] # NoSession
        PROVE  Settled(store[c])' /\ store'[c].password <= password'[store'[c].user]
    <3>1. store'[c] = store[c] /\ store[c].user # q.user
      BY <2>2, <2>4
    <3>2. \A r \in InState("revoke") \cup InState("revokeOthers") : r.user = store[c].user => r \in requests'
      BY <2>3, <3>1
    <3> QED
      BY <1>3, <2>1, <2>4, <3>1, <3>2
  <2> QED
    BY <1>2, <1>4, <2>1, <2>4 DEF StampInv, RevokeInv, Settled
<1>8. CASE RevokeOthers
  <2>1. PICK q \in InState("revokeOthers") :
          /\ store' = [c \in Cookies |->
               IF c = q.cookie /\ store[c].user = q.user
               THEN [store[c] EXCEPT !.password = Later(store[c].password, q.password)]
               ELSE IF store[c].user = q.user /\ c # q.cookie THEN NoSession ELSE store[c]]
          /\ requests' = requests \ {q} /\ role' = role /\ password' = password
    <3>1. PICK q \in InState("revokeOthers") :
          /\ store' = [c \in Cookies |->
               IF c = q.cookie /\ store[c].user = q.user
               THEN [store[c] EXCEPT !.password = Later(store[c].password, q.password)]
               ELSE WithoutSessionsOf(q.user, q.cookie)[c]]
          /\ requests' = requests \ {q} /\ role' = role /\ password' = password
      BY <1>8 DEF RevokeOthers, Answer
    <3>2. \A c \in Cookies : WithoutSessionsOf(q.user, q.cookie)[c] =
                               IF store[c].user = q.user /\ c # q.cookie THEN NoSession ELSE store[c]
      BY DEF WithoutSessionsOf
    <3> QED
      BY <3>1, <3>2
  <2>2. q.user \in Users /\ q.password \in 0..MaxPasswords /\ q.password <= password[q.user]
    BY <1>0, <1>1, RequestFields DEF InState, StampInv
  <2>3. \A c \in Cookies :
          \/ store'[c] = NoSession
          \/ store'[c] = store[c] /\ store[c].user # q.user
          \/ store[c].user = q.user /\ store'[c] = [store[c] EXCEPT !.password = Later(store[c].password, q.password)]
    BY <2>1
  <2>4. \A r \in InState("revoke") \cup InState("revokeOthers") : r # q => r \in requests'
    BY <2>1 DEF InState
  <2>5. ASSUME NEW c \in Cookies, store'[c] # NoSession
        PROVE  Settled(store[c])' /\ store'[c].password <= password'[store'[c].user]
    <3>1. CASE store'[c] = store[c] /\ store[c].user # q.user
      <4>2. \A r \in InState("revoke") \cup InState("revokeOthers") : r.user = store[c].user => r \in requests'
        BY <2>4, <3>1
      <4> QED
        BY <1>3, <2>1, <2>5, <3>1, <4>2
    <3>2. CASE store[c].user = q.user /\ store'[c] = [store[c] EXCEPT !.password = Later(store[c].password, q.password)]
      <4>1. store[c] \in Sessions /\ store[c] # NoSession
        BY <1>0, <2>2, <3>2, SessionUsers
      <4>2. /\ Settled(store[c]) /\ store[c].password <= password[q.user]
            /\ store[c].password \in 0..MaxPasswords /\ password[q.user] \in 0..MaxPasswords
        BY <1>0, <1>1, <2>2, <3>2, <4>1, AllSettled DEF StampInv, Sessions
      <4>3. /\ store'[c].user = q.user /\ store'[c].late = store[c].late
            /\ store'[c].password = Later(store[c].password, q.password)
        BY <3>2, <4>1 DEF Sessions
      <4>4. /\ Later(store[c].password, q.password) <= password[q.user]
            /\ store[c].password = password[q.user] \/ q.password = password[q.user]
               => Later(store[c].password, q.password) = password[q.user]
        BY <2>2, <4>2, AccountsAssumption DEF Later
      <4>5. Exists(q.user)' <=> Exists(q.user)
        BY <2>1 DEF Exists
      <4>6. \A r \in InState("revoke") : r \in InState("revoke")'
        BY <2>1 DEF InState
      <4>7. \A r \in InState("revokeOthers") : r.password # q.password => r \in InState("revokeOthers")'
        BY <2>1 DEF InState
      <4>8. ASSUME ~store[c].late
            PROVE  \/ Exists(q.user) /\ store'[c].password = password[q.user]
                   \/ \E r \in InState("revoke")' : r.user = q.user
                   \/ /\ Exists(q.user)
                      /\ \E r \in InState("revokeOthers")' : r.user = q.user /\ r.password = password[q.user]
        <5>1. \/ Exists(q.user) /\ store[c].password = password[q.user]
              \/ \E r \in InState("revoke") : r.user = q.user
              \/ /\ Exists(q.user)
                 /\ \E r \in InState("revokeOthers") : r.user = q.user /\ r.password = password[q.user]
          BY <3>2, <4>1, <4>2, <4>8 DEF Settled
        <5> QED
          BY <4>3, <4>4, <4>6, <4>7, <5>1
      <4> QED
        BY <2>1, <4>3, <4>4, <4>5, <4>8 DEF Settled, Exists
    <3> QED
      BY <2>3, <2>5, <3>1, <3>2
  <2> QED
    BY <1>2, <1>4, <2>1, <2>5 DEF StampInv, RevokeInv, Settled
<1>9. CASE SessionsLost
  <2>1. requests' = {} /\ \A c \in Cookies : store'[c] = NoSession
    BY <1>9 DEF SessionsLost
  <2> QED
    BY <2>1 DEF StampInv, RevokeInv, InState
<1> QED
  BY <1>5, <1>6, <1>7, <1>8, <1>9

\* The other requests: they arrive, are refused, or give a role.
LEMMA QuietStep ==
  ASSUME AccInv, AccTypes',
         \/ SetupCreateAdmin \/ SetupInserts \/ UpdateUserRole
         \/ \E u \in Users : Login(u)
         \/ \E c \in Cookies :
              \/ CreateUser(c) \/ ChangePassword(c)
              \/ \E k \in {"delete", "role", "reset"}, u \in Users : Authorized(c, k, u)
         \/ UNCHANGED accountVars
  PROVE  StampInv' /\ RevokeInv'
<1>0. AccTypes
  BY DEF AccInv
<1>1. /\ role \in [Users -> {"absent", "user", "admin", "deleted"}] /\ requests \subseteq UserRequests
      /\ password \in [Users -> 0..MaxPasswords] /\ requests' \subseteq UserRequests
  BY <1>0 DEF AccTypes
<1>2. store' = store /\ password' = password
  BY DEF SetupCreateAdmin, SetupInserts, UpdateUserRole, Login, CreateUser, ChangePassword, Authorized, accountVars
<1>3. CanCreate => NewUser \in Users /\ role[NewUser] = "absent"
  BY DEF CanCreate, NewUser
<1>4. \A u \in Users : Exists(u) => Exists(u)'
  <2>1. CASE SetupInserts \/ \E c \in Cookies : CreateUser(c)
    BY <1>1, <1>3, <2>1 DEF SetupInserts, CreateUser, Exists
  <2>2. CASE UpdateUserRole
    BY <1>1, <2>2 DEF UpdateUserRole, Exists
  <2>3. CASE role' = role
    BY <2>3 DEF Exists
  <2> QED
    BY <2>1, <2>2, <2>3 DEF SetupCreateAdmin, Login, ChangePassword, Authorized, accountVars
<1>5. ASSUME NEW p, requests' = requests \cup {p}, p.pc \in {"open", "revokeOthers"} => p.password <= password[p.user]
      PROVE  StampInv' /\ RevokeInv'
  BY <1>1, <1>2, <1>4, <1>5, Untouched DEF InState
<1>6. ASSUME requests' = requests PROVE StampInv' /\ RevokeInv'
  BY <1>1, <1>2, <1>4, <1>6, Untouched DEF InState
<1>7. ASSUME NEW q \in InState("setup") \cup InState("role"), NEW p,
             requests' = requests \ {q} \/ requests' = (requests \ {q}) \cup {p},
             p.pc \in {"open", "revokeOthers"} => p.password <= password[p.user]
      PROVE  StampInv' /\ RevokeInv'
  <2>1. \A r \in InState("revoke") \cup InState("revokeOthers") : r \in requests'
    BY <1>7 DEF InState
  <2>2. \A r \in requests' \ requests : r.pc \in {"open", "revokeOthers"} => r.password <= password[r.user]
    BY <1>7
  <2> QED
    BY <1>1, <1>2, <1>4, <2>1, <2>2, Untouched
<1>8. CASE SetupCreateAdmin
  BY <1>5, <1>8, RequestNames DEF SetupCreateAdmin, Arrives
<1>9. CASE SetupInserts
  <2>1. PICK q \in InState("setup") : CanCreate /\ requests' = (requests \ {q}) \cup {Opening(NewUser, 0)}
    BY <1>9 DEF SetupInserts, GoesOn
  <2>2. 0 <= password[NewUser]
    BY <1>1, <1>3, <2>1, AccountsAssumption
  <2> QED
    BY <1>7, <2>1, <2>2, RequestNames
<1>10. CASE UpdateUserRole
  <2>1. PICK q \in InState("role") : requests' = requests \ {q}
    BY <1>10 DEF UpdateUserRole, Answer
  <2> QED
    BY <1>7, <2>1, RequestNames
<1>11. ASSUME NEW u \in Users, Login(u) PROVE StampInv' /\ RevokeInv'
  <2>1. requests' = requests \cup {Opening(u, password[u])}
    BY <1>11 DEF Login, Arrives
  <2>2. password[u] <= password[u]
    BY <1>1, AccountsAssumption
  <2> QED
    BY <1>5, <2>1, <2>2, RequestNames
<1>12. ASSUME NEW c \in Cookies, CreateUser(c) PROVE StampInv' /\ RevokeInv'
  BY <1>6, <1>12 DEF CreateUser
<1>13. ASSUME NEW c \in Cookies, ChangePassword(c) PROVE StampInv' /\ RevokeInv'
  BY <1>5, <1>13, RequestNames DEF ChangePassword, Arrives
<1>14. ASSUME NEW c \in Cookies, NEW k \in {"delete", "role", "reset"}, NEW u \in Users, Authorized(c, k, u)
       PROVE  StampInv' /\ RevokeInv'
  BY <1>5, <1>14, RequestNames DEF Authorized, Arrives
<1>15. CASE UNCHANGED accountVars
  BY <1>6, <1>15 DEF accountVars
<1> QED
  BY <1>8, <1>9, <1>10, <1>11, <1>12, <1>13, <1>14, <1>15

--------------------------------------------------------------------------------
(* Administrators.                                                           *)

\* The last administrator stays.
LEMMA AdminStep ==
  ASSUME AccInv, [AccountsNext]_accountVars
  PROVE  AdminRemains'
<1>0. AccTypes /\ AdminRemains
  BY DEF AccInv
<1>1. /\ role \in [Users -> {"absent", "user", "admin", "deleted"}] /\ requests \subseteq UserRequests
  BY <1>0 DEF AccTypes
<1>2. CanCreate => NewUser \in Users /\ role[NewUser] = "absent"
  BY DEF CanCreate, NewUser
<1>3. CASE role' = role /\ crossed' = crossed
  BY <1>0, <1>3 DEF AdminRemains
<1>4. CASE SetupInserts
  BY <1>1, <1>2, <1>4 DEF SetupInserts, AdminRemains
<1>5. ASSUME NEW c \in Cookies, CreateUser(c) PROVE AdminRemains'
  <2>1. store[c].user \in Users /\ role[store[c].user] = "admin"
    BY <1>0, <1>5, SessionUsers DEF CreateUser, RequireAdmin, RequireAuth
  <2>2. CanCreate /\ \E r \in {"user", "admin"} : role' = [role EXCEPT ![NewUser] = r]
    BY <1>5 DEF CreateUser
  <2>3. role'[store[c].user] = "admin"
    BY <1>1, <1>2, <2>1, <2>2
  <2> QED
    BY <2>1, <2>3 DEF AdminRemains
<1>6. ASSUME NEW q \in InState("delete") \cup InState("role"), crossed' = (crossed \/ role[q.by] # "admin"),
             q.by # q.user \/ role'[q.by] = role[q.by],
             \A u \in Users \ {q.user} : role'[u] = role[u]
      PROVE  AdminRemains'
  <2>1. q.by \in Users
    BY <1>1, RequestFields DEF InState
  <2>2. ~crossed' => role[q.by] = "admin"
    BY <1>6
  <2>3. ~crossed' => role'[q.by] = "admin"
    BY <1>6, <2>1, <2>2
  <2> QED
    BY <2>1, <2>3 DEF AdminRemains
<1>7. CASE DeleteUser
  <2>1. PICK q \in InState("delete") :
          \/ role' = role /\ crossed' = crossed
          \/ /\ q.by # q.user /\ role' = [role EXCEPT ![q.user] = "deleted"]
             /\ crossed' = (crossed \/ role[q.by] # "admin")
    BY <1>7 DEF DeleteUser, Crosses
  <2> QED
    BY <1>1, <1>3, <1>6, <2>1
<1>8. CASE UpdateUserRole
  <2>1. PICK q \in InState("role"), r \in {"user", "admin"} :
          \/ role' = role /\ crossed' = crossed
          \/ /\ q.by # q.user \/ r = "admin"
             /\ role' = [role EXCEPT ![q.user] = IF Exists(q.user) THEN r ELSE role[q.user]]
             /\ crossed' = (crossed \/ role[q.by] # "admin")
    BY <1>8 DEF UpdateUserRole, Crosses
  <2>2. q.by \in Users /\ q.user \in Users
    BY <1>1, RequestFields DEF InState
  <2>3. CASE q.by # q.user
    BY <1>1, <1>3, <1>6, <2>1, <2>2, <2>3
  <2>4. CASE q.by = q.user /\ role[q.by] = "admin"
    <3>1. role' = role \/ role'[q.by] = "admin"
      BY <1>1, <2>1, <2>2, <2>4 DEF Exists
    <3>2. role'[q.by] = "admin"
      BY <2>4, <3>1
    <3> QED
      BY <2>2, <3>2 DEF AdminRemains
  <2>5. CASE role[q.by] # "admin"
    BY <1>3, <2>1, <2>5 DEF AdminRemains
  <2> QED
    BY <2>3, <2>4, <2>5
<1> QED
  BY <1>3, <1>4, <1>5, <1>7, <1>8 DEF AccountsNext, accountVars, SetupCreateAdmin, OpenSession, Login,
     SessionEnds, ChangePassword, Authorized, ResetUserPassword, Revoke, ChangeWritten, RevokeOthers, SessionsLost

--------------------------------------------------------------------------------
(* Theorems.                                                                 *)

\* Nobody is there at first.
LEMMA AccInitInv == AccountsInit => AccInv
<1> SUFFICES ASSUME AccountsInit PROVE AccInv
  OBVIOUS
<1>1. 0 \in 0..MaxPasswords
  BY AccountsAssumption
<1>2. AccTypes
  BY <1>1 DEF AccountsInit, AccTypes
<1>3. StampInv /\ RevokeInv
  BY DEF AccountsInit, StampInv, RevokeInv, InState
<1>4. AdminRemains
  BY DEF AccountsInit, AdminRemains
<1> QED
  BY <1>2, <1>3, <1>4 DEF AccInv

\* AccInv holds in every reachable state.
LEMMA AccInvariant == AccountsSpec => []AccInv
<1>1. ASSUME AccInv, [AccountsNext]_accountVars PROVE AccInv'
  <2>1. AccTypes' /\ AdminRemains'
    BY <1>1, AccTypesStep, AdminStep
  <2>2. StampInv' /\ RevokeInv'
    BY <1>1, <2>1, WrittenStep, SessionsStep, QuietStep DEF AccountsNext
  <2> QED
    BY <2>1, <2>2 DEF AccInv
<1> QED
  BY <1>1, AccInitInv, PTL DEF AccountsSpec

\* Once a change of password, a reset or a deletion has been answered, every
\* session that was open before it is gone, but for the caller's own and for
\* those of logins that were under way (ChangePassword, ResetUserPassword and
\* DeleteUser write the row before SessionStore drops the sessions).
THEOREM OldSessionsAreRevoked == AccountsSpec => []SessionsRevoked
<1>1. AccInv => SessionsRevoked
  BY DEF AccInv, RevokeInv, SessionsRevoked
<1> QED
  BY <1>1, AccInvariant, PTL

\* Once there has been a user there is an administrator, unless requests of two
\* administrators crossed (DeleteUser and UpdateUserRole refuse to act on the
\* caller, but trust the role that RequireAdmin read).
THEOREM AnAdminRemains == AccountsSpec => []AdminRemains
<1>1. AccInv => AdminRemains
  BY DEF AccInv
<1> QED
  BY <1>1, AccInvariant, PTL

--------------------------------------------------------------------------------
(****************************************************************************)
(* Teams.                                                                   *)
(****************************************************************************)

\* A request that writes the team of an instance has looked both up.
TeamCallInv ==
  \A q \in Calls : call[q].pc \in {"create", "move"} => call[q].team \in TeamIds /\ call[q].inst \in TeamInsts

TeamsInv == TeamsTypeOK /\ TeamCallInv

\* The tables keep their types.
LEMMA TeamsStep ==
  ASSUME TeamsInv, [TeamsNext]_teamVars
  PROVE  TeamsInv'
<1>0. /\ teams \subseteq used /\ used \subseteq TeamIds
      /\ member \in [Members \X TeamIds -> {"", "user", "manager"}]
      /\ team \in [TeamInsts -> TeamIds \cup {NoTeam, Deleted}]
      /\ grants \subseteq Members \X TeamInsts
      /\ global \in [Members -> {"user", "admin", "deleted"}]
      /\ call \in [Calls -> CallRecords] /\ TeamCallInv
  BY DEF TeamsInv, TeamsTypeOK
<1>1. NoCall \in CallRecords /\ NoCall.pc = "idle"
  BY DEF NoCall, CallRecords
<1>2. ASSUME NEW q \in Calls, NEW r \in CallRecords, call' = [call EXCEPT ![q] = r],
             r.pc \in {"create", "move"} => r.team \in TeamIds /\ r.inst \in TeamInsts
      PROVE  call' \in [Calls -> CallRecords] /\ TeamCallInv'
  BY <1>0, <1>2 DEF TeamCallInv
<1>3. ASSUME call' = call PROVE call' \in [Calls -> CallRecords] /\ TeamCallInv'
  BY <1>0, <1>3 DEF TeamCallInv
<1> USE DEF TeamsInv, TeamsTypeOK
<1>4. ASSUME NEW t \in TeamIds, CreateTeam(t) PROVE TeamsInv'
  BY <1>0, <1>3, <1>4 DEF CreateTeam
<1>5. ASSUME NEW q \in Calls, NEW t \in TeamIds, DeleteTeam(q, t) PROVE TeamsInv'
  <2>1. PICK r \in CallRecords : r = [pc |-> "deleteTeam", team |-> t, inst |-> NoTeam]
    BY DEF CallRecords
  <2>2. call' \in [Calls -> CallRecords] /\ TeamCallInv'
    BY <1>2, <1>5, <2>1 DEF DeleteTeam
  <2> QED
    BY <1>0, <1>5, <2>2 DEF DeleteTeam
<1>6. ASSUME NEW q \in Calls, DeleteTeamCommits(q) PROVE TeamsInv'
  <2>1. call' \in [Calls -> CallRecords] /\ TeamCallInv'
    BY <1>1, <1>2, <1>6 DEF DeleteTeamCommits, Done
  <2>2. member' \in [Members \X TeamIds -> {"", "user", "manager"}]
    BY <1>0, <1>6 DEF DeleteTeamCommits
  <2> QED
    BY <1>0, <1>6, <2>1, <2>2 DEF DeleteTeamCommits
<1>7. ASSUME NEW t \in TeamIds, NEW u \in Members, SetTeamMember(t, u) PROVE TeamsInv'
  <2>1. member' \in [Members \X TeamIds -> {"", "user", "manager"}]
    BY <1>0, <1>7 DEF SetTeamMember
  <2> QED
    BY <1>0, <1>3, <1>7, <2>1 DEF SetTeamMember
<1>8. ASSUME NEW u \in Members, SetUserInstances(u) \/ UserChanges(u) PROVE TeamsInv'
  <2>1. grants' \subseteq Members \X TeamInsts
    BY <1>0, <1>8 DEF SetUserInstances, UserChanges
  <2>2. global' \in [Members -> {"user", "admin", "deleted"}]
    BY <1>0, <1>8 DEF SetUserInstances, UserChanges
  <2> QED
    BY <1>0, <1>3, <1>8, <2>1, <2>2 DEF SetUserInstances, UserChanges
<1>9. ASSUME NEW i \in TeamInsts, InstanceDeleted(i) PROVE TeamsInv'
  BY <1>0, <1>3, <1>9 DEF InstanceDeleted
<1>10. ASSUME NEW q \in Calls, NEW i \in TeamInsts, NEW t \in TeamIds, TeamChosen(q, i, t) PROVE TeamsInv'
  <2>1. PICK r : r = [pc |-> IF Has(i) THEN "move" ELSE "create", team |-> t, inst |-> i]
    OBVIOUS
  <2>2. r \in CallRecords /\ r.team \in TeamIds /\ r.inst \in TeamInsts
    BY <2>1 DEF CallRecords
  <2>3. call' \in [Calls -> CallRecords] /\ TeamCallInv'
    BY <1>2, <1>10, <2>1, <2>2 DEF TeamChosen
  <2> QED
    BY <1>0, <1>10, <2>3 DEF TeamChosen
<1>11. ASSUME NEW q \in Calls, TeamWritten(q) PROVE TeamsInv'
  <2>1. call' \in [Calls -> CallRecords] /\ TeamCallInv'
    BY <1>1, <1>2, <1>11 DEF TeamWritten, Done
  <2>2. call[q].team \in TeamIds /\ call[q].inst \in TeamInsts
    BY <1>0, <1>11 DEF TeamWritten, TeamCallInv
  <2>3. team' \in [TeamInsts -> TeamIds \cup {NoTeam, Deleted}]
    BY <1>0, <1>11, <2>2 DEF TeamWritten
  <2> QED
    BY <1>0, <1>11, <2>1, <2>3 DEF TeamWritten
<1>12. CASE UNCHANGED teamVars
  BY <1>0, <1>3, <1>12 DEF teamVars
<1> QED
  BY <1>4, <1>5, <1>6, <1>7, <1>8, <1>9, <1>10, <1>11, <1>12 DEF TeamsNext

\* The two queries agree on tables of the right types.
LEMMA SameAnswers == TeamsInv => ListingMatchesGate
<1> SUFFICES ASSUME TeamsInv, NEW u \in Members, NEW i \in TeamInsts, Has(i), team[i] \in teams
             PROVE  CanAccessInstance(u, i) <=> i \in Listed(u)
  BY DEF ListingMatchesGate
<1>1. member[<<u, team[i]>>] \in {"", "user", "manager"}
  BY DEF TeamsInv, TeamsTypeOK, Has
<1>2. CASE global[u] = "admin"
  BY <1>2 DEF CanAccessInstance, Listed
<1>3. CASE global[u] # "admin"
  <2> DEFINE r == member[<<u, team[i]>>]
             managed == {t \in GetUserTeams(u) : member[<<u, t>>] = "manager"}
             others == GetUserTeams(u) \ managed
  <2>1. team[i] \in GetUserTeams(u) <=> r # ""
    BY DEF GetUserTeams
  <2>2. team[i] \in managed <=> r = "manager"
    BY <2>1
  <2>3. team[i] \in others <=> r = "user"
    BY <1>1, <2>1, <2>2
  <2>4. Listed(u) = AccessibleInstanceIDs(u)
    BY <1>3 DEF Listed
  <2>5. AccessibleInstanceIDs(u) =
          {j \in TeamInsts : Has(j) /\ (team[j] \in managed \/ (team[j] \in others /\ <<u, j>> \in grants))}
    BY DEF AccessibleInstanceIDs
  <2> HIDE DEF managed, others, r
  <2>6. i \in Listed(u) <=> r = "manager" \/ (r = "user" /\ <<u, i>> \in grants)
    BY <2>2, <2>3, <2>4, <2>5
  <2>7. CanAccessInstance(u, i) <=> r = "manager" \/ (r = "user" /\ <<u, i>> \in grants)
    BY <1>3 DEF CanAccessInstance, GetTeamRole, r
  <2> QED
    BY <2>6, <2>7
<1> QED
  BY <1>2, <1>3

\* The list of instances a user is shown is the list of those the gate lets the
\* user work on (AccessibleInstanceIDs, CanAccessInstance), after any number of
\* changes of teams, members, grants and roles.
THEOREM ListAndGateAgree == TeamsSpec => []ListingMatchesGate
<1>1. TeamsInit => TeamsInv
  <2>1. NoCall \in CallRecords /\ NoCall.pc = "idle"
    BY DEF NoCall, CallRecords
  <2> QED
    BY <2>1 DEF TeamsInit, TeamsInv, TeamsTypeOK, TeamCallInv
<1> QED
  BY <1>1, TeamsStep, SameAnswers, PTL DEF TeamsSpec

--------------------------------------------------------------------------------
(****************************************************************************)
(* Providers.                                                               *)
(****************************************************************************)

\* A request that looks for keys knows how it goes on.
Prepared(r) == r.pc \in {"ids", "create", "prune"} => r.after # ""

\* What is known of the tables: only providers that have been there are enabled
\* or have keys.
TableInv ==
  /\ provs \subseteq known /\ known \subseteq Provs /\ enabled \subseteq known
  /\ gwKey \in [Provs -> Nat] /\ keysMade \in Nat
  /\ \A p \in Provs : gwKey[p] # 0 => p \in known
  /\ op \in [ConsoleOps -> OpRecords]
  /\ \A c \in ConsoleOps : op[c].ids \subseteq known /\ Prepared(op[c])

\* A request that is alone is the only one.
AloneInv ==
  \A c \in ConsoleOps : op[c].alone => \A d \in ConsoleOps \ {c} : op[d].pc = "idle"

\* What a request that is alone pushes is what the tables still say.
PushInv ==
  \A c \in ConsoleOps : op[c].alone /\ op[c].pc \in {"unset", "set"} =>
    \A p \in provs \cap (enabled \cup Owned) : gwKey[p] # 0 => op[c].push[p] = gwKey[p]

\* The agent has the keys, while at most deletions of providers are under way.
InForce == \A p \in provs \cap (enabled \cup Owned) : gwKey[p] # 0 => agentKey[p] = gwKey[p]

AgentInv == ~dirty /\ (\A c \in ConsoleOps : op[c].pc \in {"idle", "delete"}) => InForce

ProvInv == TableInv /\ AloneInv /\ PushInv /\ AgentInv

--------------------------------------------------------------------------------
\* The record of a request that begins or ends.
LEMMA OpParts ==
  /\ NoOp \in OpRecords /\ NoOp.pc = "idle" /\ NoOp.ids = {} /\ NoOp.alone = FALSE
  /\ \A r \in OpRecords : \A b \in BOOLEAN : [r EXCEPT !.alone = b] \in OpRecords
<1>1. NoOp \in OpRecords /\ NoOp.pc = "idle" /\ NoOp.ids = {} /\ NoOp.alone = FALSE
  BY DEF NoOp, NoKeys, OpRecords
<1>2. \A r \in OpRecords : \A b \in BOOLEAN : [r EXCEPT !.alone = b] \in OpRecords
  BY DEF OpRecords
<1> QED
  BY <1>1, <1>2

\* A request begins.
LEMMA OpBegins ==
  ASSUME TableInv, NEW c \in ConsoleOps, NEW r \in OpRecords, BeginOp(c, r), r.pc \notin {"idle", "unset", "set"}
  PROVE  /\ op' \in [ConsoleOps -> OpRecords] /\ AloneInv' /\ PushInv'
         /\ op'[c].ids = r.ids /\ op'[c].pc = r.pc /\ op'[c].after = r.after
         /\ \A d \in ConsoleOps \ {c} : op'[d].ids = op[d].ids /\ op'[d].pc = op[d].pc /\ op'[d].after = op[d].after
<1> DEFINE b == \A e \in ConsoleOps : op[e].pc = "idle"
<1>1. op' = [d \in ConsoleOps |-> IF d = c THEN [r EXCEPT !.alone = b] ELSE [op[d] EXCEPT !.alone = FALSE]]
  BY DEF BeginOp
<1>2. b \in BOOLEAN /\ op \in [ConsoleOps -> OpRecords]
  BY DEF TableInv
<1>3. /\ [r EXCEPT !.alone = b] \in OpRecords
      /\ \A d \in ConsoleOps : [op[d] EXCEPT !.alone = FALSE] \in OpRecords
  BY <1>2, OpParts
<1>4. op' \in [ConsoleOps -> OpRecords]
  BY <1>1, <1>3
<1>5. op'[c].ids = r.ids /\ op'[c].pc = r.pc /\ op'[c].after = r.after
  BY <1>1 DEF OpRecords
<1>6. op'[c].alone => b
  BY <1>1, <1>2 DEF OpRecords
<1>7. \A d \in ConsoleOps \ {c} : /\ op'[d].ids = op[d].ids /\ op'[d].pc = op[d].pc
                                  /\ op'[d].after = op[d].after /\ ~op'[d].alone
  BY <1>1, <1>2 DEF OpRecords
<1>8. AloneInv'
  BY <1>6, <1>7 DEF AloneInv
<1>9. PushInv'
  BY <1>5, <1>7 DEF PushInv
<1> QED
  BY <1>4, <1>5, <1>7, <1>8, <1>9

\* A request goes on.
LEMMA OpMoves ==
  ASSUME TableInv, AloneInv, NEW c \in ConsoleOps, NEW r \in OpRecords, op' = [op EXCEPT ![c] = r],
         op[c].pc # "idle", r.alone => op[c].alone
  PROVE  /\ op' \in [ConsoleOps -> OpRecords] /\ AloneInv'
         /\ op'[c] = r /\ \A d \in ConsoleOps \ {c} : op'[d] = op[d]
         /\ \A d \in ConsoleOps \ {c} : op'[d].alone => FALSE
<1>1. op \in [ConsoleOps -> OpRecords]
  BY DEF TableInv
<1>2. op'[c] = r /\ \A d \in ConsoleOps \ {c} : op'[d] = op[d]
  BY <1>1
<1>3. \A d \in ConsoleOps \ {c} : op[d].alone => FALSE
  BY DEF AloneInv
<1>4. AloneInv'
  BY <1>2, <1>3 DEF AloneInv
<1> QED
  BY <1>1, <1>2, <1>3, <1>4

\* A request ends: the agent has what the tables say, or is dirty.
LEMMA OpEnds ==
  ASSUME ProvInv, NEW c \in ConsoleOps, NEW reached \in BOOLEAN, EndOp(c, reached), op[c].pc # "idle",
         UNCHANGED <<provs, known, enabled, whitelist, gwKey, keysMade>>,
         reached /\ op[c].alone => InForce'
  PROVE  ProvInv'
<1>0. TableInv /\ AloneInv /\ PushInv
  BY DEF ProvInv
<1>1. op' = [op EXCEPT ![c] = NoOp] /\ dirty' = ~(reached /\ op[c].alone)
  BY DEF EndOp
<1>2. /\ op' \in [ConsoleOps -> OpRecords] /\ AloneInv'
      /\ op'[c] = NoOp /\ \A d \in ConsoleOps \ {c} : op'[d] = op[d]
  BY <1>0, <1>1, OpMoves, OpParts
<1>3. TableInv'
  BY <1>0, <1>2, OpParts DEF TableInv, Prepared
<1>4. PushInv'
  <2>1. \A d \in ConsoleOps : op'[d].alone => d # c
    BY <1>2, OpParts
  <2> QED
    BY <1>0, <1>2, <2>1 DEF PushInv
<1>5. AgentInv'
  <2>1. ~dirty' => reached /\ op[c].alone
    BY <1>1
  <2> QED
    BY <2>1 DEF AgentInv
<1> QED
  BY <1>2, <1>3, <1>4, <1>5 DEF ProvInv

\* A request goes on, but pushes nothing yet, and changes no table.
LEMMA OpPrepares ==
  ASSUME ProvInv, NEW c \in ConsoleOps, NEW r \in OpRecords, op' = [op EXCEPT ![c] = r],
         op[c].pc # "idle", r.alone => op[c].alone, r.pc \notin {"idle", "delete", "unset", "set"},
         r.ids \subseteq known, Prepared(r), known' = known, enabled' = enabled, provs' \subseteq provs,
         gwKey' \in [Provs -> Nat], keysMade' \in Nat,
         \A p \in Provs : gwKey'[p] # 0 => p \in known
  PROVE  ProvInv'
<1>0. TableInv /\ AloneInv /\ PushInv
  BY DEF ProvInv
<1>1. /\ op' \in [ConsoleOps -> OpRecords] /\ AloneInv'
      /\ op'[c] = r /\ \A d \in ConsoleOps \ {c} : op'[d] = op[d]
      /\ \A d \in ConsoleOps \ {c} : op'[d].alone => FALSE
  BY <1>0, OpMoves
<1>2. TableInv'
  BY <1>0, <1>1 DEF TableInv, Prepared
<1>3. PushInv'
  BY <1>1 DEF PushInv
<1>4. AgentInv'
  BY <1>1 DEF AgentInv
<1> QED
  BY <1>1, <1>2, <1>3, <1>4 DEF ProvInv

\* Changes of a field keep the record, and the others of its fields.
LEMMA OpFields ==
  ASSUME NEW r \in OpRecords
  PROVE  /\ \A k \in {"delete", "reconfigure", "ids", "create", "prune", "fields", "resolve", "unset", "set"} :
              /\ [r EXCEPT !.pc = k] \in OpRecords /\ [r EXCEPT !.pc = k].pc = k
              /\ [r EXCEPT !.pc = k].alone = r.alone /\ [r EXCEPT !.pc = k].ids = r.ids
              /\ [r EXCEPT !.pc = k].push = r.push /\ [r EXCEPT !.pc = k].after = r.after
  BY DEF OpRecords

--------------------------------------------------------------------------------
(* The steps.                                                                *)

\* The calls of the handlers.
LEMMA HandlersStep ==
  ASSUME ProvInv, NEW c \in ConsoleOps,
         UpdateInstance(c) \/ UpdateSettings(c) \/ CreateProvider(c) \/ UpdateProvider(c) \/ DeleteProvider(c)
  PROVE  ProvInv'
<1>0. TableInv /\ AloneInv /\ PushInv /\ AgentInv
  BY DEF ProvInv
<1>1. /\ provs \subseteq known /\ known \subseteq Provs /\ enabled \subseteq known
      /\ gwKey \in [Provs -> Nat] /\ keysMade \in Nat
      /\ \A p \in Provs : gwKey[p] # 0 => p \in known
      /\ op \in [ConsoleOps -> OpRecords] /\ \A d \in ConsoleOps : op[d].ids \subseteq known /\ Prepared(op[d])
  BY <1>0 DEF TableInv
\* Any handler that begins a request other than a deletion.
<1>2. ASSUME NEW r \in OpRecords, BeginOp(c, r), r.pc \notin {"idle", "delete", "unset", "set"},
             r.ids \subseteq known', Prepared(r), known \subseteq known', known' \subseteq Provs,
             provs' \subseteq known', enabled' \subseteq known', gwKey' = gwKey, keysMade' = keysMade
      PROVE  ProvInv'
  <2>1. /\ op' \in [ConsoleOps -> OpRecords] /\ AloneInv' /\ PushInv'
        /\ op'[c].ids = r.ids /\ op'[c].pc = r.pc /\ op'[c].after = r.after
        /\ \A d \in ConsoleOps \ {c} : op'[d].ids = op[d].ids /\ op'[d].pc = op[d].pc /\ op'[d].after = op[d].after
    BY <1>0, <1>2, OpBegins
  <2>2. TableInv'
    BY <1>1, <1>2, <2>1 DEF TableInv, Prepared
  <2>3. AgentInv'
    BY <1>2, <2>1 DEF AgentInv
  <2> QED
    BY <2>1, <2>2, <2>3 DEF ProvInv
<1>3. CASE UpdateInstance(c)
  <2>1. PICK en \in SUBSET (known \cap Globals) :
          /\ enabled' \in {en, enabled}
          /\ BeginOp(c, [NoOp EXCEPT !.pc = "ids", !.after = "fields", !.ids = en])
    BY <1>3 DEF UpdateInstance
  <2>2. PICK r : r = [NoOp EXCEPT !.pc = "ids", !.after = "fields", !.ids = en]
    OBVIOUS
  <2>3. r \in OpRecords /\ r.pc = "ids" /\ r.ids = en /\ Prepared(r)
    BY <1>1, <2>1, <2>2 DEF NoOp, NoKeys, OpRecords, Prepared
  <2> QED
    BY <1>1, <1>2, <1>3, <2>1, <2>2, <2>3 DEF UpdateInstance
<1>4. CASE UpdateSettings(c) \/ UpdateProvider(c)
  <2>1. BeginOp(c, [NoOp EXCEPT !.pc = "resolve"]) \/ BeginOp(c, [NoOp EXCEPT !.pc = "reconfigure"])
    BY <1>4 DEF UpdateSettings, UpdateProvider
  <2>2. \A k \in {"resolve", "reconfigure"} : [NoOp EXCEPT !.pc = k] \in OpRecords /\ [NoOp EXCEPT !.pc = k].pc = k
                                             /\ [NoOp EXCEPT !.pc = k].ids = {} /\ Prepared([NoOp EXCEPT !.pc = k])
    BY DEF NoOp, NoKeys, OpRecords, Prepared
  <2>3. UNCHANGED <<provs, known, enabled, whitelist, gwKey, keysMade>>
    BY <1>4 DEF UpdateSettings, UpdateProvider
  <2> QED
    BY <1>1, <1>2, <2>1, <2>2, <2>3
<1>5. CASE CreateProvider(c)
  <2>1. PICK p \in Provs \ known :
          /\ provs' = provs \cup {p} /\ known' = known \cup {p}
          /\ IF p \in Owned
             THEN BeginOp(c, [NoOp EXCEPT !.pc = "ids", !.after = "reconfigure", !.ids = enabled])
             ELSE op' = op
    BY <1>5 DEF CreateProvider
  <2>2. UNCHANGED <<enabled, whitelist, gwKey, keysMade, agentKey, dirty>>
    BY <1>5 DEF CreateProvider
  <2>3. CASE p \in Owned
    <3>1. PICK r : r = [NoOp EXCEPT !.pc = "ids", !.after = "reconfigure", !.ids = enabled]
      OBVIOUS
    <3>2. r \in OpRecords /\ r.pc = "ids" /\ r.ids = enabled /\ Prepared(r)
      BY <1>1, <3>1 DEF NoOp, NoKeys, OpRecords, Prepared
    <3> QED
      BY <1>1, <1>2, <2>1, <2>2, <2>3, <3>1, <3>2
  <2>4. CASE p \notin Owned
    <3>1. op' = op
      BY <2>1, <2>4
    <3>2. \A q \in provs' \cap (enabled' \cup Owned) : q \in provs \cap (enabled \cup Owned)
      BY <1>1, <2>1, <2>2, <2>4
    <3>3. TableInv'
      BY <1>1, <2>1, <2>2, <3>1 DEF TableInv
    <3>4. AloneInv'
      BY <1>0, <3>1 DEF AloneInv
    <3>5. PushInv'
      BY <1>0, <2>2, <3>1, <3>2 DEF PushInv
    <3>6. AgentInv'
      BY <1>0, <2>2, <3>1, <3>2 DEF AgentInv, InForce
    <3> QED
      BY <3>3, <3>4, <3>5, <3>6 DEF ProvInv
  <2> QED
    BY <2>3, <2>4
<1>6. CASE DeleteProvider(c)
  <2>1. PICK p \in provs : gwKey' = [gwKey EXCEPT ![p] = 0] /\ BeginOp(c, [NoOp EXCEPT !.pc = "delete", !.ids = {p}])
    BY <1>6 DEF DeleteProvider
  <2>2. UNCHANGED <<provs, known, enabled, whitelist, keysMade, agentKey, dirty>>
    BY <1>6 DEF DeleteProvider
  <2>3. PICK r : r = [NoOp EXCEPT !.pc = "delete", !.ids = {p}]
    OBVIOUS
  <2>4. r \in OpRecords /\ r.pc = "delete" /\ r.ids = {p}
    BY <1>1, <2>3 DEF NoOp, NoKeys, OpRecords
  <2>5. /\ op' \in [ConsoleOps -> OpRecords] /\ AloneInv' /\ PushInv'
        /\ op'[c].ids = r.ids /\ op'[c].pc = r.pc /\ op'[c].after = r.after
        /\ \A d \in ConsoleOps \ {c} : op'[d].ids = op[d].ids /\ op'[d].pc = op[d].pc /\ op'[d].after = op[d].after
    BY <1>0, <2>1, <2>3, <2>4, OpBegins
  <2>6. gwKey' \in [Provs -> Nat] /\ \A q \in Provs : gwKey'[q] # 0 => gwKey'[q] = gwKey[q]
    BY <1>1, <2>1
  <2>7. TableInv'
    <3>1. \A d \in ConsoleOps : op'[d].ids \subseteq known
      BY <1>1, <2>1, <2>4, <2>5
    <3>2. \A d \in ConsoleOps : Prepared(op'[d])
      BY <1>1, <2>4, <2>5 DEF Prepared
    <3> QED
      BY <1>1, <2>2, <2>5, <2>6, <3>1, <3>2 DEF TableInv, Prepared
  <2>8. AgentInv'
    <3>1. op[c].pc = "idle"
      BY <2>1 DEF BeginOp
    <3>2. InForce => InForce'
      BY <1>1, <2>2, <2>6 DEF InForce
    <3> QED
      BY <1>0, <2>2, <2>5, <3>1, <3>2 DEF AgentInv
  <2> QED
    BY <2>5, <2>7, <2>8 DEF ProvInv
<1> QED
  BY <1>3, <1>4, <1>5, <1>6

\* The rest of a request.
LEMMA RequestStep ==
  ASSUME ProvInv, NEW c \in ConsoleOps,
         \/ DeleteProviderRow(c) \/ Reconfigure(c) \/ ReadIds(c) \/ CreateKeys(c) \/ PruneKeys(c)
         \/ UpdateRejected(c) \/ Resolve(c) \/ Unset(c) \/ Set(c) \/ PushFails(c)
  PROVE  ProvInv'
<1>0. TableInv /\ AloneInv /\ PushInv /\ AgentInv
  BY DEF ProvInv
<1>1. /\ provs \subseteq known /\ known \subseteq Provs /\ enabled \subseteq known
      /\ gwKey \in [Provs -> Nat] /\ keysMade \in Nat
      /\ \A p \in Provs : gwKey[p] # 0 => p \in known
      /\ op \in [ConsoleOps -> OpRecords] /\ \A d \in ConsoleOps : op[d].ids \subseteq known /\ Prepared(op[d])
      /\ op[c] \in OpRecords
  BY <1>0 DEF TableInv
<1>2. TRUE \in BOOLEAN /\ FALSE \in BOOLEAN
  OBVIOUS
<1>3. ASSUME EndOp(c, FALSE), op[c].pc # "idle", UNCHANGED <<provs, known, enabled, whitelist, gwKey, keysMade>>
      PROVE  ProvInv'
  BY <1>2, <1>3, OpEnds
<1>4. CASE DeleteProviderRow(c)
  <2>1. /\ op[c].pc = "delete" /\ provs' = provs \ op[c].ids
        /\ op' = [op EXCEPT ![c] = IF op[c].ids \cap Owned # {} THEN [op[c] EXCEPT !.pc = "reconfigure"] ELSE NoOp]
        /\ UNCHANGED <<known, enabled, whitelist, gwKey, keysMade, agentKey, dirty>>
    BY <1>4 DEF DeleteProviderRow
  <2>2. CASE op[c].ids \cap Owned # {}
    <3>1. PICK r \in OpRecords : r = [op[c] EXCEPT !.pc = "reconfigure"]
      BY <1>1, OpFields
    <3>2. r.pc = "reconfigure" /\ r.alone = op[c].alone /\ r.ids = op[c].ids /\ Prepared(r)
      BY <1>1, <3>1, OpFields DEF Prepared
    <3> QED
      BY <1>1, <2>1, <2>2, <3>1, <3>2, OpPrepares
  <2>3. CASE op[c].ids \cap Owned = {}
    <3>1. op' = [op EXCEPT ![c] = NoOp]
      BY <2>1, <2>3
    <3>2. /\ op' \in [ConsoleOps -> OpRecords] /\ AloneInv'
          /\ op'[c] = NoOp /\ \A d \in ConsoleOps \ {c} : op'[d] = op[d]
      BY <1>0, <2>1, <3>1, OpMoves, OpParts
    <3>3. TableInv'
      BY <1>1, <2>1, <3>2, OpParts DEF TableInv, Prepared
    <3>4. PushInv'
      BY <1>0, <2>1, <3>2, OpParts DEF PushInv
    <3>5. InForce => InForce'
      BY <2>1 DEF InForce
    <3>6. AgentInv'
      BY <1>0, <2>1, <3>2, <3>5 DEF AgentInv
    <3> QED
      BY <3>2, <3>3, <3>4, <3>6 DEF ProvInv
  <2> QED
    BY <2>2, <2>3
<1>5. CASE Reconfigure(c)
  <2>1. CASE ~up
    BY <1>3, <1>5, <2>1 DEF Reconfigure
  <2>2. CASE up
    <3>1. PICK r : r = [op[c] EXCEPT !.pc = "ids", !.after = "resolve", !.ids = enabled]
      OBVIOUS
    <3>2. r \in OpRecords /\ r.pc = "ids" /\ r.alone = op[c].alone /\ r.ids = enabled /\ Prepared(r)
      BY <1>1, <3>1 DEF OpRecords, Prepared
    <3> QED
      BY <1>1, <1>5, <2>2, <3>1, <3>2, OpPrepares DEF Reconfigure
  <2> QED
    BY <2>1, <2>2
<1>6. CASE ReadIds(c)
  <2>1. PICK s : s = allProviderIDsForInstance(op[c].ids)
    OBVIOUS
  <2>2. s \subseteq known
    BY <1>1, <2>1 DEF allProviderIDsForInstance
  <2>3. PICK r : r = [op[c] EXCEPT !.pc = "create", !.ids = s]
    OBVIOUS
  <2>4. r \in OpRecords /\ r.pc = "create" /\ r.alone = op[c].alone /\ r.ids = s /\ r.after = op[c].after
    BY <1>1, <2>2, <2>3 DEF OpRecords
  <2>5. Prepared(r)
    BY <1>1, <1>6, <2>4 DEF ReadIds, Prepared
  <2> QED
    BY <1>1, <1>6, <2>1, <2>2, <2>3, <2>4, <2>5, OpPrepares DEF ReadIds
<1>7. ASSUME NEW k \in {op[c].after, "prune"}, Goto(c, k), op[c].pc \in {"create", "prune"}
      PROVE  \E r \in OpRecords : /\ op' = [op EXCEPT ![c] = r] /\ r.ids = op[c].ids /\ r.alone = op[c].alone
                                  /\ r.pc \in {"fields", "resolve", "reconfigure", "prune"} /\ Prepared(r)
  <2>1. op[c].after \in {"fields", "resolve", "reconfigure"}
    BY <1>1, <1>7 DEF OpRecords, Prepared
  <2>2. k \in {"fields", "resolve", "reconfigure", "prune"}
    BY <2>1
  <2>3. PICK r \in OpRecords : r = [op[c] EXCEPT !.pc = k]
    BY <1>1, <2>2, OpFields
  <2>4. r.pc = k /\ r.alone = op[c].alone /\ r.ids = op[c].ids /\ r.after = op[c].after
    BY <1>1, <2>2, <2>3, OpFields
  <2>5. op' = [op EXCEPT ![c] = r]
    BY <1>1, <1>7, <2>3 DEF Goto
  <2> QED
    BY <2>1, <2>2, <2>4, <2>5 DEF Prepared
<1>8. CASE CreateKeys(c)
  <2>1. PICK new \in SUBSET {p \in op[c].ids : gwKey[p] = 0}, k \in {op[c].after, "prune"} :
          /\ gwKey' = [p \in Provs |-> IF p \in new THEN keysMade + 1 ELSE gwKey[p]]
          /\ keysMade' = IF new = {} THEN keysMade ELSE keysMade + 1
          /\ Goto(c, k)
    BY <1>8 DEF CreateKeys
  <2>2. op[c].pc = "create" /\ UNCHANGED <<provs, known, enabled>>
    BY <1>8 DEF CreateKeys
  <2>3. PICK r \in OpRecords : /\ op' = [op EXCEPT ![c] = r] /\ r.ids = op[c].ids /\ r.alone = op[c].alone
                               /\ r.pc \in {"fields", "resolve", "reconfigure", "prune"} /\ Prepared(r)
    BY <1>7, <2>1, <2>2
  <2>4. gwKey' \in [Provs -> Nat] /\ keysMade' \in Nat /\ \A p \in Provs : gwKey'[p] # 0 => p \in known
    BY <1>1, <2>1
  <2> QED
    BY <1>1, <2>2, <2>3, <2>4, OpPrepares
<1>9. CASE PruneKeys(c)
  <2>1. /\ op[c].pc = "prune" /\ gwKey' = [p \in Provs |-> IF p \in op[c].ids THEN gwKey[p] ELSE 0]
        /\ Goto(c, op[c].after) /\ UNCHANGED <<provs, known, enabled, keysMade>>
    BY <1>9 DEF PruneKeys
  <2>2. PICK r \in OpRecords : /\ op' = [op EXCEPT ![c] = r] /\ r.ids = op[c].ids /\ r.alone = op[c].alone
                               /\ r.pc \in {"fields", "resolve", "reconfigure", "prune"} /\ Prepared(r)
    BY <1>7, <2>1
  <2>3. gwKey' \in [Provs -> Nat] /\ \A p \in Provs : gwKey'[p] # 0 => p \in known
    BY <1>1, <2>1
  <2> QED
    BY <1>1, <2>1, <2>2, <2>3, OpPrepares
\* A request that has read what it pushes, or is about to set it.
<1>10. ASSUME NEW r \in OpRecords, op' = [op EXCEPT ![c] = r], op[c].pc # "idle", r.alone = op[c].alone,
              r.pc \in {"unset", "set"}, r.ids \subseteq known,
              UNCHANGED <<provs, known, enabled, gwKey, keysMade>>,
              r.alone => \A p \in provs \cap (enabled \cup Owned) : gwKey[p] # 0 => r.push[p] = gwKey[p]
       PROVE  ProvInv'
  <2>1. /\ op' \in [ConsoleOps -> OpRecords] /\ AloneInv'
        /\ op'[c] = r /\ \A d \in ConsoleOps \ {c} : op'[d] = op[d]
        /\ \A d \in ConsoleOps \ {c} : op'[d].alone => FALSE
    BY <1>0, <1>10, OpMoves
  <2>2. TableInv'
    BY <1>1, <1>10, <2>1 DEF TableInv, Prepared
  <2>3. PushInv'
    BY <1>10, <2>1 DEF PushInv
  <2>4. AgentInv'
    BY <1>10, <2>1 DEF AgentInv
  <2> QED
    BY <2>1, <2>2, <2>3, <2>4 DEF ProvInv
<1>11. CASE Resolve(c)
  <2>1. CASE ~up
    BY <1>3, <1>11, <2>1 DEF Resolve
  <2>2. CASE up
    <3>1. PICK f : f = resolveGatewayProviders
      OBVIOUS
    <3>2. f \in [Provs -> Nat] /\ \A p \in provs \cap (enabled \cup Owned) : f[p] = gwKey[p]
      BY <1>1, <3>1 DEF resolveGatewayProviders
    <3>3. PICK r : r = [op[c] EXCEPT !.pc = "unset", !.ids = {}, !.push = f]
      OBVIOUS
    <3>4. r \in OpRecords /\ r.pc = "unset" /\ r.alone = op[c].alone /\ r.ids = {} /\ r.push = f
      BY <1>1, <3>2, <3>3 DEF OpRecords
    <3>5. op' = [op EXCEPT ![c] = r] /\ op[c].pc # "idle" /\ UNCHANGED <<provs, known, enabled, gwKey, keysMade>>
      BY <1>11, <2>2, <3>1, <3>3 DEF Resolve
    <3> QED
      BY <1>10, <3>2, <3>4, <3>5
  <2> QED
    BY <2>1, <2>2
<1>12. op[c].alone /\ op[c].pc \in {"unset", "set"} =>
         \A p \in provs \cap (enabled \cup Owned) : gwKey[p] # 0 => op[c].push[p] = gwKey[p]
  BY <1>0 DEF PushInv
<1>13. CASE Unset(c)
  <2>1. op[c].pc = "unset" /\ UNCHANGED <<provs, known, enabled, whitelist, gwKey, keysMade>>
    BY <1>13 DEF Unset
  <2>2. CASE Entries(op[c].push) = {}
    <3>1. EndOp(c, TRUE)
      BY <1>13, <2>2 DEF Unset
    <3>2. op[c].alone => InForce'
      BY <1>1, <1>12, <2>1, <2>2 DEF Entries, InForce
    <3> QED
      BY <1>2, <2>1, <3>1, <3>2, OpEnds
  <2>3. CASE Entries(op[c].push) # {}
    <3>1. Goto(c, "set")
      BY <1>13, <2>3 DEF Unset
    <3>2. PICK r \in OpRecords : r = [op[c] EXCEPT !.pc = "set"]
      BY <1>1, OpFields
    <3>3. r.pc = "set" /\ r.alone = op[c].alone /\ r.ids = op[c].ids /\ r.push = op[c].push
      BY <1>1, <3>2, OpFields
    <3>4. op' = [op EXCEPT ![c] = r]
      BY <1>1, <3>1, <3>2 DEF Goto
    <3> QED
      BY <1>1, <1>10, <1>12, <2>1, <3>3, <3>4
  <2> QED
    BY <2>2, <2>3
<1>14. CASE Set(c)
  <2>1. /\ op[c].pc = "set" /\ EndOp(c, TRUE) /\ UNCHANGED <<provs, known, enabled, whitelist, gwKey, keysMade>>
        /\ agentKey' = [p \in Provs |-> IF p \in Entries(op[c].push) THEN op[c].push[p] ELSE agentKey[p]]
    BY <1>14 DEF Set
  <2>2. op[c].alone => InForce'
    BY <1>1, <1>12, <2>1 DEF Entries, InForce
  <2> QED
    BY <1>2, <2>1, <2>2, OpEnds
<1>15. CASE PushFails(c) \/ UpdateRejected(c)
  BY <1>3, <1>15 DEF PushFails, UpdateRejected
<1> QED
  BY <1>4, <1>5, <1>6, <1>8, <1>9, <1>11, <1>13, <1>14, <1>15

\* The steps of the team, of the container and of the control plane.
LEMMA AroundStep ==
  ASSUME ProvInv, SetTeamProviders \/ StartStop \/ ControlPlaneRestart \/ UNCHANGED provVars
  PROVE  ProvInv'
<1>0. TableInv /\ AloneInv /\ PushInv /\ AgentInv
  BY DEF ProvInv
<1>1. CASE op' = op /\ dirty' = dirty /\ UNCHANGED <<provs, known, enabled, gwKey, keysMade, agentKey>>
  <2>1. TableInv' /\ AloneInv'
    BY <1>0, <1>1 DEF TableInv, AloneInv
  <2>2. PushInv' /\ AgentInv'
    BY <1>0, <1>1 DEF PushInv, AgentInv, InForce
  <2> QED
    BY <2>1, <2>2 DEF ProvInv
<1>2. CASE ControlPlaneRestart
  <2>1. /\ op' = [c \in ConsoleOps |-> NoOp] /\ dirty' = TRUE
        /\ UNCHANGED <<provs, known, enabled, gwKey, keysMade, agentKey>>
    BY <1>2 DEF ControlPlaneRestart
  <2>2. TableInv'
    BY <1>0, <2>1, OpParts DEF TableInv, Prepared
  <2>3. AloneInv' /\ PushInv' /\ AgentInv'
    BY <2>1, OpParts DEF AloneInv, PushInv, AgentInv
  <2> QED
    BY <2>2, <2>3 DEF ProvInv
<1> QED
  BY <1>1, <1>2 DEF SetTeamProviders, StartStop, provVars

\* At first there is no provider.
LEMMA ProvInitInv == ProvidersInit => ProvInv
<1> SUFFICES ASSUME ProvidersInit PROVE ProvInv
  OBVIOUS
<1>1. TableInv
  BY OpParts DEF ProvidersInit, TableInv, NoKeys, Prepared
<1>2. AloneInv /\ PushInv /\ AgentInv
  BY OpParts DEF ProvidersInit, AloneInv, PushInv, AgentInv, InForce
<1> QED
  BY <1>1, <1>2 DEF ProvInv

\* The agent holds the keys the gateway accepts, once the requests of the console
\* are through, unless requests overlapped, an update was refused after it had
\* written the keys, a push failed or the instance was not running (UpdateInstance,
\* EnsureKeysForInstance, resolveGatewayProviders, ConfigureInstance).
THEOREM AgentHasItsKeys == ProvidersSpec => []PushedKeyWorks
<1>1. ASSUME ProvInv, [ProvidersNext]_provVars PROVE ProvInv'
  BY <1>1, HandlersStep, RequestStep, AroundStep DEF ProvidersNext
<1>2. ProvInv => PushedKeyWorks
  BY DEF ProvInv, AgentInv, InForce, PushedKeyWorks
<1> QED
  BY <1>1, <1>2, ProvInitInv, PTL DEF ProvidersSpec
================================================================================
