-------------------------------- MODULE Browser --------------------------------
(****************************************************************************)
(* The on-demand browser of one instance: internal/browserprov and the      *)
(* handlers around it, on top of the orchestrator.                          *)
(*                                                                          *)
(* Callers of EnsureSession share one spawn task; a cancelled task is       *)
(* rolled back while it still runs; the stop handler and the idle reaper    *)
(* stop the pod; the instance may be deleted at the same time. The session  *)
(* row is written by all of them. The cached SSH client and its host key,   *)
(* images and parameters are left out, but not that waiting for the client  *)
(* has no deadline; a use reaches the row before the idle timeout (30 s     *)
(* flushes).                                                                *)
(****************************************************************************)
EXTENDS Orchestrator

CONSTANTS
  Pod,         \* the browser workload
  MaxEnsures,  \* bound on calls of EnsureSession
  MaxEvents    \* bound on cancels, stops, idle timeouts, deletions,
               \* failures, stalls and crashes

ASSUME BrowserAssumption ==
  Pod \in Workloads /\ MaxEnsures \in Nat /\ MaxEvents \in Nat

\* Numbered in the order in which they are made.
Callers == 1..MaxEnsures

VARIABLES
  inst,        \* the instance row: none, legacy (embedded browser) or current
  session,     \* status of the session row, none if there is no row
  idle,        \* last_used_at is before the reaper's cutoff
  inflight,    \* the caller whose spawn is in flight, or None
  caller,      \* where each call is
  spawn,       \* the spawn task each caller has started
  stopper,     \* who is stopping the session, and where
  removal,     \* DeleteInstance: requests and rows still to go, idle or done
  events,
  overlap      \* history: the removal failed or overlapped a spawn

None == 0

browserVars == <<inst, session, idle, inflight, caller, spawn, stopper,
                 removal, events, overlap>>
browserAll == <<orchVars, browserVars>>
rows == <<inst, session, idle>>

\* Who stops the session. Each cancelled task has its own rollback, which may
\* still be under way when the next task is cancelled.
Rollback(c) == <<"rollback", c>>
StopHandler == <<"handler", None>>
IdleReaper == <<"reaper", None>>
Stoppers == {Rollback(c) : c \in Callers} \cup {StopHandler, IdleReaper}

NoSpawn == [pc |-> "none", todo |-> <<>>, ctx |-> "live"]
Ended == [NoSpawn EXCEPT !.pc = "ended"]

Spawns == [pc : {"none", "lookup", "mark", "apply", "stalled", "end", "ended"},
           todo : Seq(Requests), ctx : {"live", "cancelled", "landing"}]

BrowserTypeOK ==
  /\ OrchTypeOK
  /\ inst \in {"none", "legacy", "current"}
  /\ session \in {"none", "starting", "running", "error", "stopped"}
  /\ inflight \in Callers \cup {None}
  /\ caller \in [Callers -> {"idle", "seen", "lock", "waiting", "woken", "ok", "returned"}]
  /\ spawn \in [Callers -> Spawns]
  /\ stopper \in [Stoppers -> {"idle", "listed", "stop", "hung", "write", "over"}]
  /\ removal \in Seq(Requests \cup {"idle", "session", "instance"}) /\ events \in 0..MaxEvents
  /\ idle \in BOOLEAN /\ overlap \in BOOLEAN

BrowserInit ==
  /\ InitOrchestrator
  /\ workload = [w \in Workloads |-> "none"] /\ volumes = {}
  /\ inst \in {"legacy", "current"} /\ session = "none"
  /\ idle = FALSE  /\ inflight = None
  /\ caller = [c \in Callers |-> "idle"]
  /\ spawn = [c \in Callers |-> NoSpawn]
  /\ stopper = [p \in Stoppers |-> "idle"]
  /\ removal = <<"idle">>
  /\ events = 0 /\ overlap = FALSE

Spawning(c) == spawn[c].pc \notin {"none", "ended"}
Removing == removal \notin {<<"idle">>, <<>>}
SessionStatus == GetInstanceStatus(Pod)

Event == events < MaxEvents /\ events' = events + 1

\* UPDATE ... WHERE instance_id.
Status(s) == session' = IF session = "none" THEN "none" ELSE s

\* Its error is dropped.
TryStatus(s) == (Status(s) /\ UNCHANGED events) \/ (UNCHANGED session /\ Event)

--------------------------------------------------------------------------------
(* EnsureSession, up to its wait for the spawn task.                         *)

\* An error (no such instance) also takes the slow path.
CheckStatus(c) ==
  /\ caller[c] = "idle" /\ \A d \in 1..(c - 1) : caller[d] # "idle"
  /\ caller' = [caller EXCEPT ![c] =
       IF inst # "none" /\ SessionStatus = "running" THEN "seen" ELSE "lock"]
  /\ UNCHANGED <<orchVars, rows, inflight, spawn, stopper, removal, events, overlap>>

RefreshRow(c) ==
  /\ caller[c] = "seen"
  /\ session' = "running" /\ idle' = FALSE
  /\ caller' = [caller EXCEPT ![c] = "ok"]
  /\ UNCHANGED <<orchVars, inst, inflight, spawn, stopper, removal, events, overlap>>

\* Under spawnMu: wait for the spawn in flight, or start one.
JoinOrSpawn(c) ==
  /\ caller[c] = "lock"
  /\ caller' = [caller EXCEPT ![c] = "waiting"]
  /\ \/ inflight # None /\ UNCHANGED <<inflight, spawn, overlap>>
     \/ /\ inflight = None
        /\ inflight' = c
        /\ spawn' = [spawn EXCEPT ![c].pc = "lookup"]
        /\ overlap' = (overlap \/ Removing)
  /\ UNCHANGED <<orchVars, rows, stopper, removal, events>>

\* lastSpawnError: the row tells how the spawn ended.
lastSpawnError(c) ==
  /\ caller[c] = "woken"
  /\ caller' = [caller EXCEPT ![c] = IF session = "running" THEN "ok" ELSE "returned"]
  /\ UNCHANGED <<orchVars, rows, inflight, spawn, stopper, removal, events, overlap>>

GiveUp(c) ==
  /\ caller[c] = "waiting"
  /\ caller' = [caller EXCEPT ![c] = "returned"]
  /\ UNCHANGED <<orchVars, rows, inflight, spawn, stopper, removal, events, overlap>>

\* The caller dials the pod: DialCDP, DialVNC and VNCDialer record the use.
Dial(c) ==
  /\ caller[c] = "ok"
  /\ idle' = IF workload[Pod] = "up" THEN FALSE ELSE idle
  /\ caller' = [caller EXCEPT ![c] = "returned"]
  /\ UNCHANGED <<orchVars, inst, session, inflight, spawn, stopper, removal, events, overlap>>

--------------------------------------------------------------------------------
(* The spawn task.                                                           *)

To(c, pc) == spawn' = [spawn EXCEPT ![c].pc = pc]

Ends(c) == spawn' = [spawn EXCEPT ![c] = [@ EXCEPT !.pc = "end", !.todo = <<>>]]

Lookup(c) ==
  /\ spawn[c].pc = "lookup"
  /\ To(c, IF inst = "current" THEN "mark" ELSE "end")
  /\ UNCHANGED <<orchVars, rows, inflight, caller, stopper, removal, events, overlap>>

MarkStarting(c) ==
  /\ spawn[c].pc = "mark"
  /\ session' = "starting" /\ idle' = FALSE
  /\ spawn' = [spawn EXCEPT ![c] = [@ EXCEPT !.todo = ApplyPlan,
                                  !.pc = IF spawn[c].ctx = "live" THEN "apply" ELSE "end"]]
  /\ UNCHANGED <<orchVars, inst, inflight, caller, stopper, removal, events, overlap>>

Applying(c) == spawn[c].pc = "apply" /\ spawn[c].todo # <<>>

Apply(c) ==
  /\ Applying(c) /\ spawn[c].ctx = "live"
  /\ Perform(Head(spawn[c].todo), Pod)
  /\ spawn' = [spawn EXCEPT ![c].todo = Tail(@)]
  /\ UNCHANGED <<rows, inflight, caller, stopper, removal, events, overlap>>

\* The request had left when the task was cancelled.
ApplyLands(c) ==
  /\ Applying(c) /\ spawn[c].ctx = "landing"
  /\ Perform(Head(spawn[c].todo), Pod)
  /\ spawn' = [spawn EXCEPT ![c].ctx = "cancelled"]
  /\ UNCHANGED <<rows, inflight, caller, stopper, removal, events, overlap>>

\* An error the plan ignores, or the end of the spawn.
ApplyFails(c) ==
  /\ Applying(c)
  /\ \/ /\ spawn[c].ctx = "cancelled" \/ Refused(Head(spawn[c].todo), Pod)
        /\ UNCHANGED <<orchVars, events>>
     \/ /\ spawn[c].ctx = "live"
        /\ Event
        /\ Fail(Head(spawn[c].todo), Pod)
  /\ \/ /\ ErrorIgnored(Head(spawn[c].todo))
        /\ spawn' = [spawn EXCEPT ![c].todo = Tail(@)]
        /\ UNCHANGED session
     \/ /\ ~ErrorIgnored(Head(spawn[c].todo))
        /\ Ends(c) /\ Status("error")
  /\ UNCHANGED <<inst, idle, inflight, caller, stopper, removal, overlap>>

Waiting(c) == spawn[c].pc = "apply" /\ spawn[c].todo = <<>>

\* waitForCDPReady: an SSH connection, and the CDP port behind it.
Ready(c) ==
  /\ Waiting(c) /\ workload[Pod] = "up" /\ spawn[c].ctx = "live"
  /\ TryStatus("running") /\ Ends(c)
  /\ UNCHANGED <<orchVars, inst, idle, inflight, caller, stopper, removal, overlap>>

\* No attempt succeeds before the deadline, be the pod up or not, or the task
\* is cancelled between two attempts.
NotReady(c) ==
  /\ Waiting(c)
  /\ \/ (workload[Pod] # "up" \/ spawn[c].ctx # "live") /\ TryStatus("error")
     \/ workload[Pod] = "up" /\ spawn[c].ctx = "live" /\ Event /\ Status("error")
  /\ Ends(c)
  /\ UNCHANGED <<orchVars, inst, idle, inflight, caller, stopper, removal, overlap>>

\* An attempt that gets no answer. Neither the handshake nor the opening of the
\* channel has a deadline or looks at the context ...
Stalls(c) ==
  /\ Waiting(c) /\ workload[Pod] \in {"starting", "up"} /\ spawn[c].ctx = "live"
  /\ Event /\ To(c, "stalled")
  /\ UNCHANGED <<orchVars, rows, inflight, caller, stopper, removal, overlap>>

\* ... until the peer answers or the connection breaks, if ever.
StallEnds(c) ==
  /\ spawn[c].pc = "stalled" /\ To(c, "apply")
  /\ UNCHANGED <<orchVars, rows, inflight, caller, stopper, removal, events, overlap>>

\* The deferred function, on every path: free the entry, close the channel.
\* Seeded error: a cancelled spawn returns without it.
FinishSpawn_NotCancelled(c) ==
  /\ spawn[c].pc = "end" /\ spawn[c].ctx = "live"
  /\ spawn' = [spawn EXCEPT ![c] = Ended]
  /\ inflight' = None
  /\ caller' = [d \in Callers |-> IF caller[d] = "waiting" THEN "woken" ELSE caller[d]]
  /\ UNCHANGED <<orchVars, rows, stopper, removal, events, overlap>>

FinishSpawn(c) ==
  /\ spawn[c].pc = "end"
  /\ spawn' = [spawn EXCEPT ![c] = Ended]
  /\ inflight' = None
  /\ caller' = [d \in Callers |-> IF caller[d] = "waiting" THEN "woken" ELSE caller[d]]
  /\ UNCHANGED <<orchVars, rows, stopper, removal, events, overlap>>

\* Cancel the task: its context, and the rollback beside it.
\* Seeded error: the rollback frees the entry.
Cancel_Frees(c) ==
  /\ Event
  /\ Spawning(c) /\ spawn[c].ctx = "live"
  /\ \E x \in {"cancelled", "landing"} : spawn' = [spawn EXCEPT ![c].ctx = x]
  /\ stopper' = [stopper EXCEPT ![Rollback(c)] = "stop"]
  /\ inflight' = None
  /\ UNCHANGED <<orchVars, rows, caller, removal, overlap>>

Cancel(c) ==
  /\ Event
  /\ Spawning(c) /\ spawn[c].ctx = "live"
  /\ \E x \in {"cancelled", "landing"} : spawn' = [spawn EXCEPT ![c].ctx = x]
  /\ stopper' = [stopper EXCEPT ![Rollback(c)] = "stop"]
  /\ UNCHANGED <<orchVars, rows, inflight, caller, removal, overlap>>

--------------------------------------------------------------------------------
(* Stopping: the rollback, the stop handler and the idle reaper.             *)

\* The stop handler is called once.
StopperTo(p, s) ==
  stopper' = [stopper EXCEPT ![p] = IF p = StopHandler /\ s = "idle" THEN "over" ELSE s]

BrowserStop ==
  /\ Event
  /\ stopper[StopHandler] = "idle" /\ session # "none"
  /\ StopperTo(StopHandler, "stop")
  /\ UNCHANGED <<orchVars, rows, inflight, caller, spawn, removal, overlap>>

\* Seeded error: the query asks for the wrong status.
ListIdle_Starting == session = "starting" /\ idle

ListIdle == session = "running" /\ idle

\* A row that is running and was last used before the cutoff ...
ReaperLists ==
  /\ stopper[IdleReaper] = "idle" /\ ListIdle
  /\ StopperTo(IdleReaper, "listed")
  /\ UNCHANGED <<orchVars, rows, inflight, caller, spawn, removal, events, overlap>>

\* ... unless a spawn is in flight.
ReaperChecks ==
  /\ stopper[IdleReaper] = "listed"
  /\ StopperTo(IdleReaper, IF inflight = None THEN "stop" ELSE "idle")
  /\ UNCHANGED <<orchVars, rows, inflight, caller, spawn, removal, events, overlap>>

StopSession(p) ==
  /\ stopper[p] = "stop" /\ inst # "none"
  /\ Perform("stop", Pod)
  /\ StopperTo(p, "write")
  /\ UNCHANGED <<rows, inflight, caller, spawn, removal, events, overlap>>

\* Only the rollback goes on to write the row.
StopFails(p) ==
  /\ stopper[p] = "stop"
  /\ \/ (inst = "none" \/ Refused("stop", Pod)) /\ UNCHANGED events
     \/ Event
  /\ StopperTo(p, IF p \in {StopHandler, IdleReaper} THEN "idle" ELSE "write")
  /\ UNCHANGED <<orchVars, rows, inflight, caller, spawn, removal, overlap>>

\* StopSession first closes the cached client, under a lock that another user of
\* it may hold while it waits for the answer to a keepalive, without a deadline.
\* Only the reaper needs the step: the others are not bound to go on at all.
StopHangs(p) ==
  /\ stopper[p] = "stop" /\ Event
  /\ StopperTo(p, "hung")
  /\ UNCHANGED <<orchVars, rows, inflight, caller, spawn, removal, overlap>>

StopGoesOn(p) ==
  /\ stopper[p] = "hung"
  /\ StopperTo(p, "stop")
  /\ UNCHANGED <<orchVars, rows, inflight, caller, spawn, removal, events, overlap>>

WriteStopped(p) ==
  /\ stopper[p] = "write"
  /\ TryStatus("stopped") /\ StopperTo(p, "idle")
  /\ UNCHANGED <<orchVars, inst, idle, inflight, caller, spawn, removal, overlap>>

\* The idle timeout passes.
TimePasses ==
  /\ Event
  /\ session = "running" /\ ~idle
  /\ idle' = TRUE
  /\ UNCHANGED <<orchVars, inst, session, inflight, caller, spawn, stopper, removal, overlap>>

--------------------------------------------------------------------------------
(* Deletion of the instance, and crashes.                                    *)

\* Seeded error: the rows go first.
DeleteInstance_RowsFirst ==
  /\ Event
  /\ removal = <<"idle">> /\ inst # "none"
  /\ removal' = <<"session", "instance">> \o DeleteWorkloadPlan
  /\ overlap' = (overlap \/ \E c \in Callers : Spawning(c))
  /\ UNCHANGED <<orchVars, rows, inflight, caller, spawn, stopper>>

\* DeleteBrowserPod, then the rows.
DeleteInstanceCall ==
  /\ Event
  /\ removal = <<"idle">> /\ inst # "none"
  /\ removal' = DeleteWorkloadPlan \o <<"session", "instance">>
  /\ overlap' = (overlap \/ \E c \in Callers : Spawning(c))
  /\ UNCHANGED <<orchVars, rows, inflight, caller, spawn, stopper>>

DeleteRow ==
  /\ Removing /\ Head(removal) \in {"session", "instance"}
  /\ session' = IF Head(removal) = "session" THEN "none" ELSE session
  /\ inst' = IF Head(removal) = "instance" THEN "none" ELSE inst
  /\ removal' = Tail(removal)
  /\ UNCHANGED <<orchVars, idle, inflight, caller, spawn, stopper, events, overlap>>

DeleteRequest ==
  /\ Removing /\ Head(removal) \notin {"session", "instance"}
  /\ Perform(Head(removal), Pod)
  /\ removal' = Tail(removal)
  /\ UNCHANGED <<rows, inflight, caller, spawn, stopper, events, overlap>>

\* A failure ends the plan unless ignored; it is logged and the rows go.
DeleteFails ==
  /\ Removing /\ Head(removal) \notin {"session", "instance"}
  /\ \/ Refused(Head(removal), Pod) /\ UNCHANGED <<events, overlap>>
     \/ Event /\ overlap' = TRUE
  /\ removal' = IF ErrorIgnored(Head(removal)) THEN Tail(removal) ELSE <<"session", "instance">>
  /\ UNCHANGED <<orchVars, rows, inflight, caller, spawn, stopper>>

\* The control plane crashes and boots again: only rows and pods are left.
CrashBrowser ==
  /\ Event
  /\ inflight' = None
  /\ caller' = [c \in Callers |-> IF caller[c] = "idle" THEN "idle" ELSE "returned"]
  /\ spawn' = [c \in Callers |-> IF caller[c] = "idle" THEN NoSpawn ELSE Ended]
  /\ stopper' = [p \in Stoppers |-> "idle"]
  /\ removal' = IF Removing THEN <<"idle">> ELSE removal
  /\ UNCHANGED <<orchVars, inst, session, idle, overlap>>

--------------------------------------------------------------------------------
CallerStep(c) ==
  \/ RefreshRow(c)
  \/ JoinOrSpawn(c)
  \/ lastSpawnError(c)

SpawnStep(c) ==
  \/ Lookup(c)
  \/ MarkStarting(c)
  \/ Apply(c)
  \/ ApplyLands(c)
  \/ ApplyFails(c)
  \/ Ready(c)
  \/ NotReady(c)
  \/ FinishSpawn(c)

StopperStep(p) == StopSession(p) \/ StopFails(p) \/ WriteStopped(p)

ReaperStep == ReaperLists \/ ReaperChecks \/ StopperStep(IdleReaper)

RemovalStep == DeleteRow \/ DeleteRequest \/ DeleteFails

PodReady == WorkloadReady(Pod) /\ UNCHANGED browserVars

BrowserNext ==
  \/ \E c \in Callers :
       \/ CheckStatus(c) \/ CallerStep(c) \/ GiveUp(c) \/ Dial(c)
       \/ SpawnStep(c) \/ Stalls(c) \/ StallEnds(c) \/ Cancel(c)
       \/ StopperStep(Rollback(c))
  \/ BrowserStop \/ StopperStep(StopHandler)
  \/ ReaperStep
  \/ StopHangs(IdleReaper) \/ StopGoesOn(IdleReaper)
  \/ TimePasses
  \/ DeleteInstanceCall \/ RemovalStep
  \/ PodReady
  \/ CrashBrowser

\* Goroutines go on, requests to the orchestrator return, the reaper ticks; what
\* waits for a pod over SSH may wait for ever (stalled, hung, and the dial of a
\* caller). No property needs the stop handler or a rollback to go on.
BrowserFairness ==
  /\ \A c \in Callers : WF_browserAll(CallerStep(c)) /\ WF_browserAll(SpawnStep(c))
  /\ WF_browserAll(ReaperStep)

BrowserSpec == BrowserInit /\ [][BrowserNext]_browserAll /\ BrowserFairness

--------------------------------------------------------------------------------
(* Properties.                                                               *)

\* Two spawn tasks never drive the orchestrator for one instance at the same
\* time, although a cancelled task is rolled back, and its callers may come
\* back, while it still runs (bridge.go: inflight under spawnMu, freed by the
\* deferred function of Run).
SingleSpawn == \A c, d \in Callers : Spawning(c) /\ Spawning(d) => c = d

\* The browser pod and its volume never outlive the instance row, unless a
\* spawn overlapped the deletion or a request of it failed (DeleteInstance).
NoOrphanPod == inst = "none" /\ ~overlap => workload[Pod] = "none" /\ Pod \notin volumes

\* A spawn waits for a pod that does not answer.
Stalled == \E c \in Callers : spawn[c].pc = "stalled"

\* Every call of EnsureSession returns, whichever way the spawn it waits for
\* ends: ready, failed, cancelled or lost in a crash. It waits only as long as
\* the spawn is stalled, which no deadline and no cancel ends.
EnsureReturns == \A c \in Callers : []<>(caller[c] \in {"idle", "ok", "returned"} \/ Stalled)

\* A row that says running and is not used is not left so: the reaper gets to
\* it, as long as there is a pod to stop, requests do not fail, and neither the
\* reaper nor a spawn that it must not disturb waits for a pod that does not
\* answer.
IdleReaped ==
  []<>(\/ session # "running" \/ ~idle
       \/ inst = "none" \/ workload[Pod] = "none"
       \/ Stalled \/ stopper[IdleReaper] = "hung")

\* What the comment of spawnMu and the design document say: the decision of the
\* reaper to stop a pod and that of a caller to spawn one exclude each other, so
\* that the reaper stops no pod while a spawn is in flight.
ReaperSparesSpawn == [][inflight # None => ~StopSession(IdleReaper)]_browserAll
================================================================================
