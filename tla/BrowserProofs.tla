----------------------------- MODULE BrowserProofs -----------------------------
(****************************************************************************)
(* Theorems about Browser, for every number of callers and every bound on   *)
(* cancels, stops, deletions, failures and crashes.                         *)
(****************************************************************************)
EXTENDS Browser, SequenceTheorems, TLAPS

\* What SingleSpawn rests on: a spawn that runs is the one in flight.
InflightInv == \A c \in Callers : Spawning(c) => inflight = c

\* The requests and rows a deletion has still to go through: the plan of Docker
\* and that of Kubernetes end in the same way.
Removals ==
  {<<"idle">>, <<>>,
   <<"halt", "delete", "wipe", "session", "instance">>,
   <<"delete", "wipe", "session", "instance">>,
   <<"delete", "unexpose", "wipe", "session", "instance">>,
   <<"unexpose", "wipe", "session", "instance">>,
   <<"wipe", "session", "instance">>,
   <<"session", "instance">>, <<"instance">>}

\* How far a deletion is.
PodDeleted ==
  inst = "none" \/ removal \in {<<"unexpose", "wipe", "session", "instance">>,
                               <<"wipe", "session", "instance">>,
                               <<"session", "instance">>, <<"instance">>}
VolumeDeleted == inst = "none" \/ removal \in {<<"session", "instance">>, <<"instance">>}

\* Nothing builds the pod while the instance is deleted, or after.
NobodyBuilds ==
  /\ Removing => \A c \in Callers : ~Spawning(c)
  /\ inst = "none" => \A c \in Callers : spawn[c].pc \notin {"mark", "apply", "stalled"}

\* What NoOrphanPod rests on: a deletion that nothing overlaps has removed the
\* pod, and then its volume, and no spawn is about to build them again.
DeletionInv ==
  /\ removal \in Removals
  /\ inst = "none" => removal = <<>>
  /\ ~overlap => /\ NobodyBuilds
                 /\ PodDeleted => workload[Pod] = "none"
                 /\ VolumeDeleted => Pod \notin volumes

BrowserInv == BrowserTypeOK /\ InflightInv /\ DeletionInv

--------------------------------------------------------------------------------
(* The orchestrator.                                                         *)

\* A plan is a sequence of requests.
LEMMA ApplyPlanType == ApplyPlan \in Seq(Requests)
<1>1. /\ <<"pull">> \in Seq(Requests) /\ <<"ensureVolume">> \in Seq(Requests)
      /\ <<"halt", "discard">> \in Seq(Requests) /\ <<"init">> \in Seq(Requests)
      /\ <<"createContainer">> \in Seq(Requests) /\ <<"upsert">> \in Seq(Requests)
      /\ <<"expose">> \in Seq(Requests) /\ <<"restrict">> \in Seq(Requests)
  BY DEF Requests
<1>2. \A s, t \in Seq(Requests) : s \o t \in Seq(Requests)
  OBVIOUS
<1> QED
  BY <1>1, <1>2 DEF ApplyPlan, DockerApply, KubernetesApply, ensureImage, applyVolumesDocker,
       runInitContainer, applyVolumes, applyDeployment, applyService, applyNetworkPolicy

\* Five requests in two parts.
LEMMA ThreeAndTwo ==
  ASSUME NEW S, NEW a \in S, NEW b \in S, NEW c \in S, NEW d \in S, NEW e \in S
  PROVE  <<a, b, c>> \o <<d, e>> = <<a, b, c, d, e>>
<1> DEFINE s == <<a, b, c>> \o <<d, e>>
           t == <<a, b, c, d, e>>
<1>1. s \in Seq(S) /\ t \in Seq(S) /\ Len(s) = 5 /\ Len(t) = 5
  OBVIOUS
<1>2. s[1] = a /\ s[2] = b /\ s[3] = c /\ s[4] = d /\ s[5] = e
  OBVIOUS
<1>3. t[1] = a /\ t[2] = b /\ t[3] = c /\ t[4] = d /\ t[5] = e
  OBVIOUS
<1> HIDE DEF s, t
<1>4. \A i \in 1..5 : s[i] = t[i]
  BY <1>1, <1>2, <1>3
<1>5. s = t
  BY <1>1, <1>4, SeqEqual
<1> QED
  BY <1>5 DEF s, t

\* What a deletion goes through.
LEMMA RemovalSteps ==
  /\ DeleteWorkloadPlan \o <<"session", "instance">> \in
       {<<"halt", "delete", "wipe", "session", "instance">>,
        <<"delete", "unexpose", "wipe", "session", "instance">>}
  /\ Removals \subseteq Seq(Requests \cup {"idle", "session", "instance"})
<1> DEFINE S == Requests \cup {"idle", "session", "instance"}
<1>1. \A q \in {"halt", "delete", "wipe", "unexpose", "session", "instance", "idle"} : q \in S
  BY DEF Requests
<1>2. \A a, b, c, d, e \in S :
        /\ <<>> \in Seq(S) /\ <<a>> \in Seq(S) /\ <<a, b>> \in Seq(S) /\ <<a, b, c>> \in Seq(S)
        /\ <<a, b, c, d>> \in Seq(S) /\ <<a, b, c, d, e>> \in Seq(S)
  OBVIOUS
<1> HIDE DEF S
<1>3. Removals \subseteq Seq(S)
  BY <1>1, <1>2 DEF Removals
<1>4. DeleteWorkloadPlan \in {<<"halt", "delete", "wipe">>, <<"delete", "unexpose", "wipe">>}
  BY DEF DeleteWorkloadPlan, DockerDeleteWorkload, KubernetesDeleteWorkload
<1>5. <<"halt", "delete", "wipe">> \o <<"session", "instance">>
        = <<"halt", "delete", "wipe", "session", "instance">>
  BY <1>1, ThreeAndTwo
<1>6. <<"delete", "unexpose", "wipe">> \o <<"session", "instance">>
        = <<"delete", "unexpose", "wipe", "session", "instance">>
  BY <1>1, ThreeAndTwo
<1>7. DeleteWorkloadPlan \o <<"session", "instance">> \in
       {<<"halt", "delete", "wipe", "session", "instance">>,
        <<"delete", "unexpose", "wipe", "session", "instance">>}
  <2>1. CASE DeleteWorkloadPlan = <<"halt", "delete", "wipe">>
    BY <1>5, <2>1
  <2>2. CASE DeleteWorkloadPlan = <<"delete", "unexpose", "wipe">>
    BY <1>6, <2>2
  <2> QED
    BY <1>4, <2>1, <2>2
<1> QED
  BY <1>3, <1>7 DEF S

\* A request leaves a workload in one of its states.
LEMMA PerformType ==
  ASSUME OrchTypeOK, NEW w \in Workloads, NEW q, Perform(q, w)
  PROVE  OrchTypeOK'
<1>1. AfterRequest(q, workload[w]) \subseteq {"none", "down", "starting", "up"}
  BY DEF OrchTypeOK, AfterRequest, CreateContainer, CreateDeployment, UpsertDeployment,
       StartRequest, StopRequest
<1>2. VolumesAfter(q, w) \subseteq Workloads
  BY DEF OrchTypeOK, VolumesAfter
<1> QED
  BY <1>1, <1>2 DEF Perform, OrchTypeOK

\* ... and so does one that fails.
LEMMA FailType ==
  ASSUME OrchTypeOK, NEW w \in Workloads, NEW q, Fail(q, w)
  PROVE  OrchTypeOK'
  BY DEF Fail, OrchTypeOK

--------------------------------------------------------------------------------
(* Type correctness.                                                         *)

\* Who may stop the session.
LEMMA StopperNames == /\ StopHandler \in Stoppers /\ IdleReaper \in Stoppers
                      /\ \A c \in Callers : Rollback(c) \in Stoppers
  BY DEF Stoppers

\* What the steps of a spawn task make of it.
LEMMA SpawnType ==
  ASSUME NEW c \in Callers, spawn \in [Callers -> Spawns]
  PROVE  /\ SpawnStep(c) \/ Stalls(c) \/ StallEnds(c) \/ JoinOrSpawn(c) \/ Cancel(c) => spawn' \in [Callers -> Spawns]
         /\ CrashBrowser => spawn' \in [Callers -> Spawns]
<1>0. spawn[c] \in Spawns /\ <<>> \in Seq(Requests)
  OBVIOUS
<1>1. ASSUME NEW s \in Spawns, spawn' = [spawn EXCEPT ![c] = s]
      PROVE  spawn' \in [Callers -> Spawns]
  BY <1>1
<1>2. \A s \in Spawns : s.todo # <<>> => Tail(s.todo) \in Seq(Requests)
  BY DEF Spawns
<1>3. \A s \in Spawns : \A q \in {"none", "lookup", "mark", "apply", "stalled", "end", "ended"} :
        \A t \in Seq(Requests) : \A x \in {"live", "cancelled", "landing"} :
          /\ [s EXCEPT !.pc = q] \in Spawns /\ [s EXCEPT !.todo = t] \in Spawns
          /\ [s EXCEPT !.ctx = x] \in Spawns
          /\ [s EXCEPT !.pc = q, !.todo = t] \in Spawns /\ [s EXCEPT !.todo = t, !.pc = q] \in Spawns
  BY DEF Spawns
<1>4. NoSpawn \in Spawns /\ Ended \in Spawns
  BY <1>0 DEF NoSpawn, Ended, Spawns
<1>5. CASE Lookup(c) \/ JoinOrSpawn(c) \/ Stalls(c) \/ StallEnds(c)
  BY <1>5, <1>0, <1>1, <1>3 DEF Lookup, JoinOrSpawn, Stalls, StallEnds, To
<1>6. CASE MarkStarting(c) \/ Ready(c) \/ NotReady(c)
  BY <1>6, <1>0, <1>1, <1>3, ApplyPlanType DEF MarkStarting, Ready, NotReady, Ends
<1>7. CASE Apply(c) \/ ApplyLands(c)
  BY <1>7, <1>0, <1>1, <1>2, <1>3 DEF Apply, ApplyLands, Applying
<1>8. CASE ApplyFails(c)
  BY <1>8, <1>0, <1>1, <1>2, <1>3 DEF ApplyFails, Applying, Ends
<1>9. CASE FinishSpawn(c)
  BY <1>9, <1>1, <1>4 DEF FinishSpawn
<1>10. CASE Cancel(c)
  BY <1>10, <1>0, <1>1, <1>3 DEF Cancel
<1>11. CASE CrashBrowser
  BY <1>11, <1>4 DEF CrashBrowser
<1> QED
  BY <1>5, <1>6, <1>7, <1>8, <1>9, <1>10, <1>11 DEF SpawnStep

\* Every step keeps the types.
LEMMA BrowserTypeStep ==
  BrowserTypeOK /\ removal' \in Removals /\ [BrowserNext]_browserAll => BrowserTypeOK'
<1> SUFFICES ASSUME BrowserTypeOK, removal' \in Removals, [BrowserNext]_browserAll
             PROVE  BrowserTypeOK'
  OBVIOUS
<1> USE BrowserAssumption DEF BrowserTypeOK, rows, Event
<1>r. removal' \in Seq(Requests \cup {"idle", "session", "instance"})
  BY RemovalSteps
<1>1. ASSUME NEW c \in Callers, CheckStatus(c) \/ RefreshRow(c) \/ lastSpawnError(c) \/ GiveUp(c) \/ Dial(c)
      PROVE  BrowserTypeOK'
  <2> USE <1>1 DEF CheckStatus, RefreshRow, lastSpawnError, GiveUp, Dial
  <2>1. idle' \in BOOLEAN /\ overlap' \in BOOLEAN
    OBVIOUS
  <2>2. OrchTypeOK'
    BY DEF OrchTypeOK, orchVars
  <2> QED
    BY <1>r, <2>1, <2>2
<1>2. ASSUME NEW c \in Callers, JoinOrSpawn(c)
      PROVE  BrowserTypeOK'
  <2> USE <1>2 DEF JoinOrSpawn
  <2>1. idle' \in BOOLEAN /\ overlap' \in BOOLEAN
    OBVIOUS
  <2>2. OrchTypeOK'
    BY DEF OrchTypeOK, orchVars
  <2> QED
    BY <1>r, <2>1, <2>2, SpawnType
<1>3. ASSUME NEW c \in Callers, \/ Lookup(c) \/ MarkStarting(c) \/ Ready(c) \/ NotReady(c) \/ FinishSpawn(c)
                                \/ Stalls(c) \/ StallEnds(c)
      PROVE  BrowserTypeOK'
  <2>0. spawn' \in [Callers -> Spawns]
    BY <1>3, SpawnType DEF SpawnStep
  <2> USE <1>3 DEF Lookup, MarkStarting, Ready, NotReady, FinishSpawn, Stalls, StallEnds, Status, TryStatus
  <2>1. idle' \in BOOLEAN /\ overlap' \in BOOLEAN
    OBVIOUS
  <2>2. OrchTypeOK'
    BY DEF OrchTypeOK, orchVars
  <2> QED
    BY <1>r, <2>0, <2>1, <2>2
<1>4. ASSUME NEW c \in Callers, Apply(c) \/ ApplyLands(c)
      PROVE  BrowserTypeOK'
  <2>1. OrchTypeOK'
    BY <1>4, PerformType DEF Apply, ApplyLands
  <2>0. idle' \in BOOLEAN /\ overlap' \in BOOLEAN
    BY <1>4 DEF Apply, ApplyLands
  <2>2. spawn' \in [Callers -> Spawns]
    BY <1>4, SpawnType DEF SpawnStep
  <2> QED
    BY <1>r, <1>4, <2>0, <2>1, <2>2 DEF Apply, ApplyLands
<1>5. ASSUME NEW c \in Callers, ApplyFails(c)
      PROVE  BrowserTypeOK'
  <2>1. OrchTypeOK'
    <3>1. CASE UNCHANGED orchVars
      BY <3>1 DEF OrchTypeOK, orchVars
    <3>2. CASE Fail(Head(spawn[c].todo), Pod)
      BY <3>2, FailType
    <3> QED
      BY <1>5, <3>1, <3>2 DEF ApplyFails
  <2>0. idle' \in BOOLEAN /\ overlap' \in BOOLEAN
    BY <1>5 DEF ApplyFails
  <2>2. spawn' \in [Callers -> Spawns]
    BY <1>5, SpawnType DEF SpawnStep
  <2> QED
    BY <1>r, <1>5, <2>0, <2>1, <2>2 DEF ApplyFails, Status
<1>6. ASSUME NEW c \in Callers, Cancel(c)
      PROVE  BrowserTypeOK'
  <2>2. OrchTypeOK'
    BY <1>6 DEF OrchTypeOK, orchVars, Cancel
  <2>0. idle' \in BOOLEAN /\ overlap' \in BOOLEAN
    BY <1>6 DEF Cancel
  <2>1. spawn' \in [Callers -> Spawns]
    BY <1>6, SpawnType
  <2> QED
    BY <1>r, <1>6, <2>0, <2>1, <2>2, StopperNames DEF Cancel
<1>7. ASSUME NEW p \in Stoppers, StopperStep(p) \/ StopHangs(p) \/ StopGoesOn(p)
      PROVE  BrowserTypeOK'
  <2>1. OrchTypeOK'
    BY <1>7, PerformType DEF OrchTypeOK, orchVars, StopperStep, StopSession, StopFails, WriteStopped,
         StopHangs, StopGoesOn
  <2>0. idle' \in BOOLEAN /\ overlap' \in BOOLEAN
    BY <1>7 DEF StopperStep, StopSession, StopFails, WriteStopped, StopHangs, StopGoesOn
  <2> QED
    BY <1>r, <1>7, <2>0, <2>1 DEF StopperStep, StopSession, StopFails, WriteStopped, StopHangs, StopGoesOn,
         StopperTo, Status, TryStatus
<1>8. CASE BrowserStop \/ ReaperLists \/ ReaperChecks
  <2>1. OrchTypeOK'
    BY <1>8 DEF OrchTypeOK, orchVars, BrowserStop, ReaperLists, ReaperChecks
  <2> QED
    BY <1>r, <1>8, <2>1, StopperNames DEF BrowserStop, ReaperLists, ReaperChecks, StopperTo
<1>9. CASE TimePasses \/ DeleteInstanceCall
  <2> USE <1>9 DEF TimePasses, DeleteInstanceCall
  <2>1. idle' \in BOOLEAN /\ overlap' \in BOOLEAN
    OBVIOUS
  <2>2. OrchTypeOK'
    BY DEF OrchTypeOK, orchVars
  <2> QED
    BY <1>r, <2>1, <2>2
<1>10. CASE DeleteRow \/ DeleteFails
  <2> USE <1>10 DEF DeleteRow, DeleteFails
  <2>1. idle' \in BOOLEAN /\ overlap' \in BOOLEAN
    OBVIOUS
  <2>2. OrchTypeOK'
    BY DEF OrchTypeOK, orchVars
  <2> QED
    BY <1>r, <2>1, <2>2
<1>11. CASE DeleteRequest
  <2>1. OrchTypeOK'
    BY <1>11, PerformType DEF DeleteRequest
  <2> QED
    BY <1>r, <1>11, <2>1 DEF DeleteRequest
<1>12. CASE PodReady
  BY <1>r, <1>12 DEF PodReady, WorkloadReady, OrchTypeOK, browserVars
<1>13. CASE CrashBrowser
  <2>1. OrchTypeOK'
    BY <1>13 DEF OrchTypeOK, orchVars, CrashBrowser
  <2>0. idle' \in BOOLEAN /\ overlap' \in BOOLEAN
    BY <1>13 DEF CrashBrowser
  <2>2. spawn' \in [Callers -> Spawns]
    BY <1>13, SpawnType DEF CrashBrowser, Callers, NoSpawn, Ended, Spawns
  <2> QED
    BY <1>r, <1>13, <2>0, <2>1, <2>2 DEF CrashBrowser
<1>14. CASE UNCHANGED browserAll
  BY <1>r, <1>14 DEF browserAll, browserVars, orchVars, OrchTypeOK
<1> QED
  BY <1>1, <1>2, <1>3, <1>4, <1>5, <1>6, <1>7, <1>8, <1>9, <1>10, <1>11, <1>12, <1>13, <1>14,
     StopperNames DEF BrowserNext, CallerStep, SpawnStep, ReaperStep, RemovalStep

--------------------------------------------------------------------------------
(* One spawn at a time.                                                      *)

\* A spawn begins when none is in flight, and frees the entry when it ends.
LEMMA InflightStep ==
  BrowserTypeOK /\ InflightInv /\ [BrowserNext]_browserAll => InflightInv'
<1> SUFFICES ASSUME BrowserTypeOK, InflightInv, [BrowserNext]_browserAll PROVE InflightInv'
  OBVIOUS
<1>0. spawn \in [Callers -> Spawns] /\ None \notin Callers
  BY BrowserAssumption DEF BrowserTypeOK, Callers, None
<1> USE <1>0 DEF InflightInv, Spawning, Spawns
<1>1. ASSUME NEW c \in Callers, JoinOrSpawn(c)
      PROVE  InflightInv'
  BY <1>1 DEF JoinOrSpawn
<1>2. ASSUME NEW c \in Callers, (SpawnStep(c) /\ ~FinishSpawn(c)) \/ Stalls(c) \/ StallEnds(c)
      PROVE  InflightInv'
  <2>1. /\ Spawning(c) /\ inflight' = inflight
        /\ \A d \in Callers \ {c} : spawn'[d] = spawn[d]
    BY <1>2 DEF SpawnStep, Lookup, MarkStarting, Apply, ApplyLands, ApplyFails, Ready, NotReady,
         Stalls, StallEnds, To, Ends, Applying, Waiting
  <2> QED
    BY <2>1
<1>3. ASSUME NEW c \in Callers, FinishSpawn(c)
      PROVE  InflightInv'
  BY <1>3 DEF FinishSpawn, Ended, NoSpawn
<1>4. ASSUME NEW c \in Callers, Cancel(c)
      PROVE  InflightInv'
  BY <1>4 DEF Cancel
<1>5. CASE CrashBrowser
  BY <1>5 DEF CrashBrowser, Ended, NoSpawn
<1>6. CASE UNCHANGED <<inflight, spawn>>
  BY <1>6
<1>7. ASSUME NEW c \in Callers, CheckStatus(c) \/ RefreshRow(c) \/ lastSpawnError(c) \/ GiveUp(c) \/ Dial(c)
      PROVE  UNCHANGED <<inflight, spawn>>
  BY <1>7 DEF CheckStatus, RefreshRow, lastSpawnError, GiveUp, Dial
<1>8. ASSUME NEW p \in Stoppers, StopperStep(p) \/ StopHangs(p) \/ StopGoesOn(p)
      PROVE  UNCHANGED <<inflight, spawn>>
  BY <1>8 DEF StopperStep, StopSession, StopFails, WriteStopped, StopHangs, StopGoesOn
<1>9. BrowserStop \/ ReaperLists \/ ReaperChecks \/ TimePasses \/ DeleteInstanceCall
        \/ DeleteRow \/ DeleteRequest \/ DeleteFails \/ PodReady \/ UNCHANGED browserAll
      => UNCHANGED <<inflight, spawn>>
  BY DEF BrowserStop, ReaperLists, ReaperChecks, TimePasses, DeleteInstanceCall, DeleteRow,
       DeleteRequest, DeleteFails, PodReady, browserAll, browserVars
<1> QED
  BY <1>1, <1>2, <1>3, <1>4, <1>5, <1>6, <1>7, <1>8, <1>9, StopperNames
     DEF BrowserNext, CallerStep, ReaperStep, RemovalStep

--------------------------------------------------------------------------------
(* The deletion of the instance.                                             *)

\* The values of removal one by one: what its head and its tail are.
LEMMA RemovalCases ==
  /\ \A s \in Removals : s \notin {<<"idle">>, <<>>} =>
       /\ Tail(s) \in Removals \ {<<"idle">>}
       /\ Head(s) \in {"halt", "delete", "unexpose", "wipe", "session", "instance"}
       /\ Head(s) = "instance" => Tail(s) = <<>>
       /\ Head(s) # "instance" => Tail(s) # <<>>
       /\ Head(s) = "session" => s = <<"session", "instance">> /\ Tail(s) = <<"instance">>
       /\ Head(s) = "instance" => s = <<"instance">>
       /\ Head(s) = "wipe" => s = <<"wipe", "session", "instance">> /\ Tail(s) = <<"session", "instance">>
       /\ Head(s) = "unexpose" => /\ s = <<"unexpose", "wipe", "session", "instance">>
                                  /\ Tail(s) = <<"wipe", "session", "instance">>
       /\ Head(s) = "delete" => Tail(s) \in {<<"unexpose", "wipe", "session", "instance">>,
                                              <<"wipe", "session", "instance">>}
       /\ Head(s) = "halt" => Tail(s) = <<"delete", "wipe", "session", "instance">>
  BY DEF Removals

\* The removal goes through its plan.
LEMMA RemovalStaysKnown ==
  BrowserTypeOK /\ DeletionInv /\ [BrowserNext]_browserAll
    => removal' \in Removals /\ (inst' = "none" => removal' = <<>>)
<1> SUFFICES ASSUME BrowserTypeOK, DeletionInv, [BrowserNext]_browserAll
             PROVE  removal' \in Removals /\ (inst' = "none" => removal' = <<>>)
  OBVIOUS
<1>0. removal \in Removals /\ (inst = "none" => removal = <<>>)
  BY DEF DeletionInv
<1>1. CASE UNCHANGED <<inst, removal>>
  BY <1>0, <1>1
<1>2. CASE DeleteInstanceCall
  <2>1. removal' \in {<<"halt", "delete", "wipe", "session", "instance">>,
                      <<"delete", "unexpose", "wipe", "session", "instance">>}
    BY <1>2, RemovalSteps DEF DeleteInstanceCall
  <2>2. removal' \in Removals
    BY <2>1 DEF Removals
  <2> QED
    BY <1>2, <2>2 DEF DeleteInstanceCall, rows
<1>3. CASE DeleteRow
  BY <1>0, <1>3, RemovalCases DEF DeleteRow, Removing
<1>4. CASE DeleteRequest
  BY <1>0, <1>4, RemovalCases DEF DeleteRequest, Removing, rows
<1>5. CASE DeleteFails
  <2>1. <<"session", "instance">> \in Removals
    BY DEF Removals
  <2> QED
    BY <1>0, <1>5, <2>1, RemovalCases DEF DeleteFails, Removing, rows
<1>6. CASE CrashBrowser
  <2>1. <<"idle">> \in Removals
    BY DEF Removals
  <2> QED
    BY <1>0, <1>6, <2>1 DEF CrashBrowser, Removing
<1>7. ASSUME NEW c \in Callers, CheckStatus(c) \/ CallerStep(c) \/ GiveUp(c) \/ Dial(c)
      PROVE  UNCHANGED <<inst, removal>>
  BY <1>7 DEF CheckStatus, CallerStep, RefreshRow, JoinOrSpawn, lastSpawnError, GiveUp, Dial, rows
<1>8. ASSUME NEW c \in Callers, SpawnStep(c) \/ Stalls(c) \/ StallEnds(c) \/ Cancel(c)
      PROVE  UNCHANGED <<inst, removal>>
  BY <1>8 DEF SpawnStep, Stalls, StallEnds, Cancel, Lookup, MarkStarting, Apply, ApplyLands, ApplyFails, Ready,
       NotReady, FinishSpawn, rows
<1>9. ASSUME NEW p \in Stoppers, StopperStep(p) \/ StopHangs(p) \/ StopGoesOn(p)
      PROVE  UNCHANGED <<inst, removal>>
  BY <1>9 DEF StopperStep, StopSession, StopFails, WriteStopped, StopHangs, StopGoesOn, rows
<1>10. BrowserStop \/ ReaperLists \/ ReaperChecks \/ TimePasses \/ PodReady \/ UNCHANGED browserAll
       => UNCHANGED <<inst, removal>>
  BY DEF BrowserStop, ReaperLists, ReaperChecks, TimePasses, PodReady, browserAll, browserVars, rows
<1> QED
  BY <1>1, <1>2, <1>3, <1>4, <1>5, <1>6, <1>7, <1>8, <1>9, <1>10, StopperNames
     DEF BrowserNext, ReaperStep, RemovalStep

\* A spawn that begins, or runs, while an instance is deleted is an overlap. One
\* that begins after it does not find the row.
LEMMA NobodyBuildsStep ==
  BrowserTypeOK /\ InflightInv /\ DeletionInv /\ [BrowserNext]_browserAll /\ ~overlap' => ~overlap /\ NobodyBuilds'
<1> SUFFICES ASSUME BrowserTypeOK, InflightInv, DeletionInv, [BrowserNext]_browserAll, ~overlap'
             PROVE  ~overlap /\ NobodyBuilds'
  OBVIOUS
<1>0. spawn \in [Callers -> Spawns] /\ inst \in {"none", "legacy", "current"}
  BY DEF BrowserTypeOK
<1>a. ~overlap => NobodyBuilds
  BY DEF DeletionInv
<1> USE <1>0, <1>a DEF NobodyBuilds, Spawning, Spawns
<1>1. ASSUME NEW c \in Callers, JoinOrSpawn(c)
      PROVE  ~overlap /\ NobodyBuilds'
  <2>1. CASE inflight # None
    BY <1>1, <2>1 DEF JoinOrSpawn, Removing, rows
  <2>2. CASE inflight = None
    <3>1. ~overlap /\ ~Removing
      BY <1>1, <2>2 DEF JoinOrSpawn
    <3>2. ~Removing' /\ inst' = inst /\ spawn' = [spawn EXCEPT ![c].pc = "lookup"]
      BY <1>1, <2>2, <3>1 DEF JoinOrSpawn, Removing, rows
    <3> QED
      BY <3>1, <3>2
  <2> QED
    BY <2>1, <2>2
<1>2. ASSUME NEW c \in Callers, SpawnStep(c) \/ Stalls(c) \/ StallEnds(c)
      PROVE  ~overlap /\ NobodyBuilds'
  <2>1. overlap' = overlap /\ inst' = inst /\ removal' = removal
    BY <1>2 DEF SpawnStep, Lookup, MarkStarting, Apply, ApplyLands, ApplyFails, Ready, NotReady,
         FinishSpawn, Stalls, StallEnds, rows
  <2>2. ~overlap /\ ~Removing /\ Spawning(c) /\ ~Removing'
    BY <1>2, <2>1 DEF SpawnStep, Lookup, MarkStarting, Apply, ApplyLands, ApplyFails, Ready, NotReady,
         FinishSpawn, Stalls, StallEnds, Applying, Waiting, Removing
  <2>3. ASSUME inst = "none"
        PROVE  \A d \in Callers : spawn'[d].pc \notin {"mark", "apply", "stalled"}
    <3>1. spawn[c].pc \in {"lookup", "end"}
      BY <2>2, <2>3
    <3>2. Lookup(c) \/ FinishSpawn(c)
      BY <1>2, <3>1 DEF SpawnStep, MarkStarting, Apply, ApplyLands, ApplyFails, Ready, NotReady, Stalls,
           StallEnds, Applying, Waiting
    <3> QED
      BY <2>2, <2>3, <3>2 DEF Lookup, FinishSpawn, To, Ended, NoSpawn
  <2> QED
    BY <2>1, <2>2, <2>3
<1>3. ASSUME NEW c \in Callers, Cancel(c)
      PROVE  ~overlap /\ NobodyBuilds'
  BY <1>3 DEF Cancel, Removing, rows
<1>4. CASE DeleteInstanceCall
  <2>1. ~overlap /\ \A c \in Callers : ~Spawning(c)
    BY <1>4 DEF DeleteInstanceCall
  <2> QED
    BY <1>4, <2>1 DEF DeleteInstanceCall, rows
<1>5. CASE DeleteRow \/ DeleteRequest \/ DeleteFails
  <2>1. Removing /\ spawn' = spawn /\ ~overlap
    BY <1>5 DEF DeleteRow, DeleteRequest, DeleteFails
  <2> QED
    BY <2>1
<1>6. CASE CrashBrowser
  <2>1. ~overlap /\ \A c \in Callers : spawn'[c].pc \in {"none", "ended"}
    BY <1>6 DEF CrashBrowser, NoSpawn, Ended
  <2> QED
    BY <2>1
<1>7. CASE UNCHANGED <<inst, removal, spawn, overlap>>
  BY <1>7 DEF Removing
<1>8. ASSUME NEW c \in Callers, CheckStatus(c) \/ RefreshRow(c) \/ lastSpawnError(c) \/ GiveUp(c) \/ Dial(c)
      PROVE  UNCHANGED <<inst, removal, spawn, overlap>>
  BY <1>8 DEF CheckStatus, RefreshRow, lastSpawnError, GiveUp, Dial, rows
<1>9. ASSUME NEW p \in Stoppers, StopperStep(p) \/ StopHangs(p) \/ StopGoesOn(p)
      PROVE  UNCHANGED <<inst, removal, spawn, overlap>>
  BY <1>9 DEF StopperStep, StopSession, StopFails, WriteStopped, StopHangs, StopGoesOn, rows
<1>10. BrowserStop \/ ReaperLists \/ ReaperChecks \/ TimePasses \/ PodReady \/ UNCHANGED browserAll
       => UNCHANGED <<inst, removal, spawn, overlap>>
  BY DEF BrowserStop, ReaperLists, ReaperChecks, TimePasses, PodReady, browserAll, browserVars, rows
<1> QED
  BY <1>1, <1>2, <1>3, <1>4, <1>5, <1>6, <1>7, <1>8, <1>9, <1>10, StopperNames
     DEF BrowserNext, CallerStep, ReaperStep, RemovalStep

\* What the requests do to the pod and its volume.
LEMMA PodRequests ==
  ASSUME OrchTypeOK, NEW q, Perform(q, Pod)
  PROVE  /\ q \in {"stop", "halt"} => workload[Pod] # "none" /\ volumes' = volumes
         /\ q = "delete" => workload'[Pod] = "none" /\ volumes' = volumes
         /\ q = "unexpose" => workload'[Pod] = workload[Pod] /\ volumes' = volumes
         /\ q = "wipe" => workload'[Pod] = workload[Pod] /\ volumes' = volumes \ {Pod}
  BY BrowserAssumption DEF OrchTypeOK, Perform, Refused, AfterRequest, StopRequest, VolumesAfter

\* None of the requests of a deletion is refused but the first one of Docker's.
LEMMA PodRefusals ==
  ASSUME OrchTypeOK, NEW q \in {"halt", "delete", "unexpose", "wipe"}, Refused(q, Pod)
  PROVE  q = "halt" /\ ErrorIgnored(q)
  BY DEF Refused, AfterRequest, ErrorIgnored

\* What a deletion has removed stays removed.
LEMMA GoneStep ==
  BrowserTypeOK /\ DeletionInv /\ [BrowserNext]_browserAll /\ ~overlap /\ ~overlap' =>
    (PodDeleted' => workload'[Pod] = "none") /\ (VolumeDeleted' => Pod \notin volumes')
<1> DEFINE Gone == (PodDeleted' => workload'[Pod] = "none") /\ (VolumeDeleted' => Pod \notin volumes')
<1> SUFFICES ASSUME BrowserTypeOK, DeletionInv, [BrowserNext]_browserAll, ~overlap, ~overlap'
             PROVE  Gone
  OBVIOUS
<1>0. /\ OrchTypeOK /\ removal \in Removals /\ (inst = "none" => removal = <<>>)
      /\ NobodyBuilds /\ spawn \in [Callers -> Spawns]
      /\ PodDeleted => workload[Pod] = "none"
      /\ VolumeDeleted => Pod \notin volumes
  BY DEF BrowserTypeOK, DeletionInv
<1>a. ~Removing /\ inst # "none" => ~PodDeleted /\ ~VolumeDeleted
  BY DEF Removing, PodDeleted, VolumeDeleted
<1>b. VolumeDeleted => PodDeleted
  BY DEF VolumeDeleted, PodDeleted
<1>1. ASSUME NEW c \in Callers, Apply(c) \/ ApplyLands(c) \/ ApplyFails(c)
      PROVE  Gone
  <2>1. inst' = inst /\ removal' = removal /\ spawn[c].pc = "apply"
    BY <1>1 DEF Apply, ApplyLands, ApplyFails, Applying, rows
  <2>2. ~Removing /\ inst # "none"
    BY <1>0, <2>1 DEF NobodyBuilds, Spawning
  <2> QED
    BY <1>a, <2>1, <2>2 DEF PodDeleted, VolumeDeleted
<1>2. ASSUME NEW p \in Stoppers, StopSession(p)
      PROVE  Gone
  <2>1. inst' = inst /\ removal' = removal /\ Perform("stop", Pod)
    BY <1>2 DEF StopSession, rows
  <2> QED
    BY <1>0, <1>b, <2>1, PodRequests DEF PodDeleted, VolumeDeleted
<1>3. CASE PodReady
  <2>1. inst' = inst /\ removal' = removal /\ workload[Pod] # "none" /\ volumes' = volumes
    BY <1>3 DEF PodReady, WorkloadReady, browserVars
  <2> QED
    BY <1>0, <2>1 DEF PodDeleted, VolumeDeleted
<1>4. CASE DeleteInstanceCall
  <2>1. removal' \in {<<"halt", "delete", "wipe", "session", "instance">>,
                      <<"delete", "unexpose", "wipe", "session", "instance">>}
    BY <1>4, RemovalSteps DEF DeleteInstanceCall
  <2>2. inst' # "none"
    BY <1>4 DEF DeleteInstanceCall, rows
  <2> QED
    BY <2>1, <2>2 DEF PodDeleted, VolumeDeleted
<1>5. CASE DeleteRow
  <2>1. removal \in {<<"session", "instance">>, <<"instance">>}
    BY <1>0, <1>5, RemovalCases DEF DeleteRow, Removing
  <2>2. workload' = workload /\ volumes' = volumes
    BY <1>5 DEF DeleteRow, orchVars
  <2> QED
    BY <1>0, <2>1, <2>2 DEF PodDeleted, VolumeDeleted
<1>6. CASE DeleteRequest
  <2>1. /\ removal \notin {<<"idle">>, <<>>} /\ removal' = Tail(removal) /\ inst' = inst
        /\ inst # "none"
        /\ Head(removal) \notin {"session", "instance"} /\ Perform(Head(removal), Pod)
    BY <1>0, <1>6 DEF DeleteRequest, Removing, rows
  <2>2. CASE Head(removal) = "halt"
    BY <1>0, <2>1, <2>2, RemovalCases DEF PodDeleted, VolumeDeleted
  <2>3. CASE Head(removal) = "delete"
    BY <1>0, <2>1, <2>3, RemovalCases, PodRequests DEF PodDeleted, VolumeDeleted
  <2>4. CASE Head(removal) = "unexpose"
    BY <1>0, <2>1, <2>4, RemovalCases, PodRequests DEF PodDeleted, VolumeDeleted
  <2>5. CASE Head(removal) = "wipe"
    <3>1. removal = <<"wipe", "session", "instance">>
      BY <1>0, <2>1, <2>5, RemovalCases
    <3>2. workload[Pod] = "none"
      BY <1>0, <3>1 DEF PodDeleted
    <3> QED
      BY <1>0, <2>1, <2>5, <3>2, PodRequests
  <2> QED
    BY <1>0, <2>1, <2>2, <2>3, <2>4, <2>5, RemovalCases
<1>7. CASE DeleteFails
  <2>1. /\ removal \notin {<<"idle">>, <<>>} /\ inst' = inst /\ inst # "none"
        /\ Head(removal) \notin {"session", "instance"} /\ Refused(Head(removal), Pod)
        /\ removal' = IF ErrorIgnored(Head(removal)) THEN Tail(removal) ELSE <<"session", "instance">>
    BY <1>0, <1>7 DEF DeleteFails, Removing, rows
  <2>2. Head(removal) = "halt" /\ removal' = Tail(removal)
    BY <1>0, <2>1, RemovalCases, PodRefusals
  <2> QED
    BY <1>0, <2>1, <2>2, RemovalCases DEF PodDeleted, VolumeDeleted
<1>8. CASE CrashBrowser
  <2>1. /\ inst' = inst /\ workload' = workload /\ volumes' = volumes
        /\ removal' = removal \/ (removal' = <<"idle">> /\ inst # "none")
    BY <1>0, <1>8 DEF CrashBrowser, orchVars, Removing
  <2> QED
    BY <1>0, <2>1 DEF PodDeleted, VolumeDeleted
<1>9. CASE UNCHANGED <<inst, removal, workload, volumes>>
  BY <1>0, <1>9 DEF PodDeleted, VolumeDeleted
<1>10. ASSUME NEW c \in Callers, CheckStatus(c) \/ CallerStep(c) \/ GiveUp(c) \/ Dial(c) \/ Cancel(c)
      PROVE  UNCHANGED <<inst, removal, workload, volumes>>
  BY <1>10 DEF CheckStatus, CallerStep, RefreshRow, JoinOrSpawn, lastSpawnError, GiveUp, Dial,
       Cancel, rows, orchVars
<1>11. ASSUME NEW c \in Callers,
              \/ Lookup(c) \/ MarkStarting(c) \/ Ready(c) \/ NotReady(c) \/ FinishSpawn(c)
              \/ Stalls(c) \/ StallEnds(c)
      PROVE  UNCHANGED <<inst, removal, workload, volumes>>
  BY <1>11 DEF Lookup, MarkStarting, Ready, NotReady, FinishSpawn, Stalls, StallEnds, rows, orchVars
<1>12. ASSUME NEW p \in Stoppers, StopFails(p) \/ WriteStopped(p) \/ StopHangs(p) \/ StopGoesOn(p)
      PROVE  UNCHANGED <<inst, removal, workload, volumes>>
  BY <1>12 DEF StopFails, WriteStopped, StopHangs, StopGoesOn, rows, orchVars
<1>13. BrowserStop \/ ReaperLists \/ ReaperChecks \/ TimePasses \/ UNCHANGED browserAll
       => UNCHANGED <<inst, removal, workload, volumes>>
  BY DEF BrowserStop, ReaperLists, ReaperChecks, TimePasses, browserAll, browserVars, rows, orchVars
<1> HIDE DEF Gone
<1> QED
  BY <1>1, <1>2, <1>3, <1>4, <1>5, <1>6, <1>7, <1>8, <1>9, <1>10, <1>11, <1>12, <1>13, StopperNames
     DEF BrowserNext, SpawnStep, StopperStep, ReaperStep, RemovalStep

--------------------------------------------------------------------------------

\* An instance that has not had a browser yet.
LEMMA BrowserInitInv == BrowserInit => BrowserInv
<1> SUFFICES ASSUME BrowserInit PROVE BrowserInv
  OBVIOUS
<1>0. <<"idle">> \in Removals
  BY DEF Removals
<1>1. BrowserTypeOK
  <2> USE BrowserAssumption DEF BrowserInit
  <2>1. idle \in BOOLEAN /\ overlap \in BOOLEAN
    OBVIOUS
  <2>2. OrchTypeOK
    BY DEF OrchTypeOK, InitOrchestrator
  <2>3. spawn \in [Callers -> Spawns]
    BY DEF NoSpawn, Spawns
  <2>4. removal \in Seq(Requests \cup {"idle", "session", "instance"})
    BY <1>0, RemovalSteps
  <2> QED
    BY <2>1, <2>2, <2>3, <2>4 DEF BrowserTypeOK
<1>2. InflightInv
  BY DEF BrowserInit, InflightInv, Spawning, NoSpawn
<1>3. DeletionInv
  BY <1>0 DEF BrowserInit, DeletionInv, NobodyBuilds, Removing, PodDeleted, VolumeDeleted
<1> QED
  BY <1>1, <1>2, <1>3 DEF BrowserInv

\* The invariant of the on-demand browser.
LEMMA BrowserInvariant == BrowserSpec => []BrowserInv
<1>1. BrowserInv /\ [BrowserNext]_browserAll => BrowserInv'
  <2> SUFFICES ASSUME BrowserInv, [BrowserNext]_browserAll PROVE BrowserInv'
    OBVIOUS
  <2>1. removal' \in Removals /\ (inst' = "none" => removal' = <<>>)
    BY RemovalStaysKnown DEF BrowserInv
  <2>2. BrowserTypeOK' /\ InflightInv'
    BY <2>1, BrowserTypeStep, InflightStep DEF BrowserInv
  <2>3. ~overlap' => /\ NobodyBuilds' /\ (PodDeleted' => workload'[Pod] = "none")
                     /\ (VolumeDeleted' => Pod \notin volumes')
    BY NobodyBuildsStep, GoneStep DEF BrowserInv
  <2> QED
    BY <2>1, <2>2, <2>3 DEF BrowserInv, DeletionInv
<1> QED
  BY <1>1, BrowserInitInv, PTL DEF BrowserSpec

\* Two spawn tasks never run at the same time for one instance, for any number of
\* calls of EnsureSession, cancels, rollbacks and crashes.
THEOREM OneSpawnAtATime == BrowserSpec => []SingleSpawn
<1>1. BrowserInv => SingleSpawn
  BY DEF BrowserInv, InflightInv, SingleSpawn
<1> QED
  BY <1>1, BrowserInvariant, PTL

\* DeleteInstance leaves no browser pod and no volume of it behind, on Docker and
\* on Kubernetes, unless a spawn overlapped it or a request of it failed.
THEOREM NoPodLeaks == BrowserSpec => []NoOrphanPod
<1>1. BrowserInv => NoOrphanPod
  BY DEF BrowserInv, DeletionInv, PodDeleted, VolumeDeleted, NoOrphanPod
<1> QED
  BY <1>1, BrowserInvariant, PTL
================================================================================
