------------------------------ MODULE TaskManager ------------------------------
(****************************************************************************)
(* The in-memory task registry (internal/taskmanager/taskmanager.go).       *)
(*                                                                          *)
(* Each task has two actors: the goroutine Start spawns (run) and the first *)
(* accepted caller of Cancel (cleanup). A step is what one actor does       *)
(* between two lock operations: ti.mu guards a task's record, m.mu guards   *)
(* the registry and the subscribers, and events are broadcast after ti.mu   *)
(* is released.                                                             *)
(****************************************************************************)
EXTENDS Naturals, Sequences, FiniteSets

CONSTANTS
  Tasks,             \* task ids
  Subs,              \* subscriber ids
  Messages,          \* progress messages Run may set
  SubscriberBuffer   \* capacity of a subscriber's channel

ASSUME BufferAssumption == SubscriberBuffer \in Nat \ {0}

VARIABLES
  tasks,        \* ids in m.tasks
  pub,          \* ti.pub: the public record of each task
  cancellable,  \* tasks whose ti.onCancel is not nil
  canceled,     \* tasks whose ti.canceled flag is set
  ctxDone,      \* tasks whose context is canceled
  run,          \* where the goroutine of each task is
  cleanup,      \* where the accepted Cancel call of each task is
  expired,      \* terminal tasks older than RetainTerminal
  gcStopped,    \* m.stopGC is closed
  subs,         \* ids in m.subs
  queue,        \* channel buffer of each subscriber
  lossy         \* history: subscribers an event was dropped for

registryVars == <<tasks, pub, cancellable, canceled, ctxDone, run, cleanup, expired, gcStopped>>
vars == <<registryVars, subs, queue, lossy>>

TerminalStates == {"succeeded", "failed", "canceled"}

NoMessage == ""

\* Task.EndedAt is set by finish together with the terminal state.
PubRecords ==
  [state   : {"none", "running"} \cup TerminalStates,
   message : Messages \cup {NoMessage, "error", "canceled"},
   ended   : BOOLEAN]

Event == [type : {"started", "updated", "ended"}, task : Tasks, pub : PubRecords]

RunSteps == {"idle", "registered", "running", "updating", "failing", "succeeding", "ending", "done"}

TypeOK ==
  /\ tasks \subseteq Tasks
  /\ pub \in [Tasks -> PubRecords]
  /\ cancellable \subseteq Tasks
  /\ canceled \subseteq Tasks
  /\ ctxDone \subseteq Tasks
  /\ run \in [Tasks -> RunSteps]
  /\ cleanup \in [Tasks -> {"none", "accepted", "running", "done"}]
  /\ expired \subseteq Tasks
  /\ gcStopped \in BOOLEAN
  /\ subs \subseteq Subs
  /\ queue \in [Subs -> Seq(Event)]
  /\ \A s \in Subs : Len(queue[s]) <= SubscriberBuffer
  /\ lossy \subseteq Subs

Init ==
  /\ tasks = {}
  /\ pub = [t \in Tasks |-> [state |-> "none", message |-> NoMessage, ended |-> FALSE]]
  /\ cancellable = {}
  /\ canceled = {}
  /\ ctxDone = {}
  /\ run = [t \in Tasks |-> "idle"]
  /\ cleanup = [t \in Tasks |-> "none"]
  /\ expired = {}
  /\ gcStopped = FALSE
  /\ subs = {}
  /\ queue = [s \in Subs |-> <<>>]
  /\ lossy = {}

--------------------------------------------------------------------------------
(* Broadcasting: a send that would block is dropped (select ... default).    *)

Full(s) == Len(queue[s]) >= SubscriberBuffer

Broadcast(type, t) ==
  /\ queue' = [s \in Subs |->
                 IF s \in subs /\ ~Full(s)
                 THEN Append(queue[s], [type |-> type, task |-> t, pub |-> pub[t]])
                 ELSE queue[s]]
  /\ lossy' = lossy \cup {s \in subs : Full(s)}
  /\ UNCHANGED subs

Silent == UNCHANGED <<subs, queue, lossy>>

--------------------------------------------------------------------------------
(* The goroutine of a task.                                                  *)

\* Start, up to the release of m.mu.
Start(t, withOnCancel) ==
  /\ run[t] = "idle"
  /\ tasks' = tasks \cup {t}
  /\ pub' = [pub EXCEPT ![t].state = "running"]
  /\ cancellable' = IF withOnCancel THEN cancellable \cup {t} ELSE cancellable
  /\ run' = [run EXCEPT ![t] = "registered"]
  /\ UNCHANGED <<canceled, ctxDone, cleanup, expired, gcStopped>>
  /\ Silent

\* Start, the rest: announce the task, then spawn its goroutine. Only that
\* goroutine changes the record, so the snapshot announced is the one of now.
AnnounceStart(t) ==
  /\ run[t] = "registered"
  /\ Broadcast("started", t)
  /\ run' = [run EXCEPT ![t] = "running"]
  /\ UNCHANGED <<tasks, pub, cancellable, canceled, ctxDone, cleanup, expired, gcStopped>>

\* (Faulty variants of the definitions, X_Fault, precede the definitions they
\* are variants of; the mutant runs put them in place to test the properties.)
UpdateMessage_AfterEnd(t, m) ==
  /\ run[t] \in {"running", "done"}
  /\ pub' = [pub EXCEPT ![t].message = m]
  /\ run' = [run EXCEPT ![t] = "updating"]
  /\ UNCHANGED <<tasks, cancellable, canceled, ctxDone, cleanup, expired, gcStopped>>
  /\ Silent

\* Handle.UpdateMessage, called by Run: no effect on a task that is unknown
\* or no longer running.
UpdateMessage(t, m) ==
  /\ run[t] = "running"
  /\ t \in tasks
  /\ pub[t].state = "running"
  /\ pub' = [pub EXCEPT ![t].message = m]
  /\ run' = [run EXCEPT ![t] = "updating"]
  /\ UNCHANGED <<tasks, cancellable, canceled, ctxDone, cleanup, expired, gcStopped>>
  /\ Silent

AnnounceUpdate(t) ==
  /\ run[t] = "updating"
  /\ Broadcast("updated", t)
  /\ run' = [run EXCEPT ![t] = "running"]
  /\ UNCHANGED <<tasks, pub, cancellable, canceled, ctxDone, cleanup, expired, gcStopped>>

\* Run returns: nil, or an error (a panic is recovered into one).
RunReturns(t, failed) ==
  /\ run[t] = "running"
  /\ run' = [run EXCEPT ![t] = IF failed THEN "failing" ELSE "succeeding"]
  /\ UNCHANGED <<tasks, pub, cancellable, canceled, ctxDone, cleanup, expired, gcStopped>>
  /\ Silent

FinalRecord_ErrorWins(t) ==
  IF run[t] = "failing"
  THEN [state |-> "failed", message |-> "error", ended |-> TRUE]
  ELSE IF t \in canceled
  THEN [state |-> "canceled", message |-> "canceled", ended |-> TRUE]
  ELSE [state |-> "succeeded", message |-> pub[t].message, ended |-> TRUE]

\* The record finish leaves: an accepted cancellation wins over Run's result.
FinalRecord(t) ==
  IF t \in canceled
  THEN [state |-> "canceled",
        message |-> IF pub[t].message = NoMessage THEN "canceled" ELSE pub[t].message,
        ended |-> TRUE]
  ELSE IF run[t] = "failing"
  THEN [state |-> "failed", message |-> "error", ended |-> TRUE]
  ELSE [state |-> "succeeded", message |-> pub[t].message, ended |-> TRUE]

\* finish, up to the release of ti.mu. A task that is not in the registry is
\* left alone.
Finish(t) ==
  /\ run[t] \in {"failing", "succeeding"}
  /\ pub' = IF t \in tasks THEN [pub EXCEPT ![t] = FinalRecord(t)] ELSE pub
  /\ run' = [run EXCEPT ![t] = IF t \in tasks THEN "ending" ELSE "done"]
  /\ UNCHANGED <<tasks, cancellable, canceled, ctxDone, cleanup, expired, gcStopped>>
  /\ Silent

\* finish, the rest: announce the end; the deferred cancel() releases the
\* context.
AnnounceEnd(t) ==
  /\ run[t] = "ending"
  /\ Broadcast("ended", t)
  /\ run' = [run EXCEPT ![t] = "done"]
  /\ ctxDone' = ctxDone \cup {t}
  /\ UNCHANGED <<tasks, pub, cancellable, canceled, cleanup, expired, gcStopped>>

--------------------------------------------------------------------------------
(* Cancel. The calls that return ErrNotFound, ErrAlreadyTerminal or          *)
(* ErrNotCancellable, and the repeated ones, change nothing.                 *)

AcceptCancel_NotIdempotent(t) ==
  /\ t \in tasks
  /\ pub[t].state = "running"
  /\ t \in cancellable
  /\ canceled' = canceled \cup {t}
  /\ cleanup' = [cleanup EXCEPT ![t] = "accepted"]
  /\ UNCHANGED <<tasks, pub, cancellable, ctxDone, run, expired, gcStopped>>
  /\ Silent

AcceptCancel(t) ==
  /\ t \in tasks
  /\ pub[t].state = "running"
  /\ t \in cancellable \ canceled
  /\ canceled' = canceled \cup {t}
  /\ cleanup' = [cleanup EXCEPT ![t] = "accepted"]
  /\ UNCHANGED <<tasks, pub, cancellable, ctxDone, run, expired, gcStopped>>
  /\ Silent

CancelCtx_Omitted(t) ==
  /\ cleanup[t] = "accepted"
  /\ cleanup' = [cleanup EXCEPT ![t] = "running"]
  /\ UNCHANGED <<tasks, pub, cancellable, canceled, ctxDone, run, expired, gcStopped>>
  /\ Silent

CancelCtx(t) ==
  /\ cleanup[t] = "accepted"
  /\ ctxDone' = ctxDone \cup {t}
  /\ cleanup' = [cleanup EXCEPT ![t] = "running"]
  /\ UNCHANGED <<tasks, pub, cancellable, canceled, run, expired, gcStopped>>
  /\ Silent

OnCancelReturns(t) ==
  /\ cleanup[t] = "running"
  /\ cleanup' = [cleanup EXCEPT ![t] = "done"]
  /\ UNCHANGED <<tasks, pub, cancellable, canceled, ctxDone, run, expired, gcStopped>>
  /\ Silent

--------------------------------------------------------------------------------
(* Garbage collection, subscribers and Close.                                *)

\* RetainTerminal has passed since the task's EndedAt.
RetentionElapses(t) ==
  /\ pub[t].ended
  /\ t \in tasks \ expired
  /\ expired' = expired \cup {t}
  /\ UNCHANGED <<tasks, pub, cancellable, canceled, ctxDone, run, cleanup, gcStopped>>
  /\ Silent

Collectable_NilEndIsZero(t) == pub[t].ended => t \in expired

\* What gcOnce deletes: tasks with an EndedAt before the cutoff.
Collectable(t) == pub[t].ended /\ t \in expired

gcOnce ==
  /\ ~gcStopped
  /\ \E t \in tasks : Collectable(t)
  /\ tasks' = {t \in tasks : ~Collectable(t)}
  /\ UNCHANGED <<pub, cancellable, canceled, ctxDone, run, cleanup, expired, gcStopped>>
  /\ Silent

Subscribe(s) ==
  /\ s \notin subs
  /\ subs' = subs \cup {s}
  /\ queue' = [queue EXCEPT ![s] = <<>>]
  /\ lossy' = lossy \ {s}
  /\ UNCHANGED registryVars

Receive(s) ==
  /\ queue[s] # <<>>
  /\ queue' = [queue EXCEPT ![s] = Tail(@)]
  /\ UNCHANGED <<registryVars, subs, lossy>>

\* The subscriber is the one that unsubscribes: what it has not read is lost.
Unsubscribe(s) ==
  /\ s \in subs
  /\ subs' = subs \ {s}
  /\ queue' = [queue EXCEPT ![s] = <<>>]
  /\ UNCHANGED <<registryVars, lossy>>

\* Close stops the collector and closes the channels, whose buffers can still
\* be drained; it leaves the tasks running.
CloseManager ==
  /\ ~gcStopped
  /\ gcStopped' = TRUE
  /\ subs' = {}
  /\ UNCHANGED <<tasks, pub, cancellable, canceled, ctxDone, run, cleanup, expired, queue, lossy>>

--------------------------------------------------------------------------------
RunStep(t) ==
  \/ \E c \in BOOLEAN : Start(t, c)
  \/ AnnounceStart(t)
  \/ \E m \in Messages : UpdateMessage(t, m)
  \/ AnnounceUpdate(t)
  \/ \E f \in BOOLEAN : RunReturns(t, f)
  \/ Finish(t)
  \/ AnnounceEnd(t)

CancelStep(t) == AcceptCancel(t) \/ CancelCtx(t) \/ OnCancelReturns(t)

SubscriberStep(s) == Subscribe(s) \/ Receive(s) \/ Unsubscribe(s)

Next ==
  \/ \E t \in Tasks : RunStep(t) \/ CancelStep(t) \/ RetentionElapses(t)
  \/ gcOnce
  \/ \E s \in Subs : SubscriberStep(s)
  \/ CloseManager

Spec == Init /\ [][Next]_vars

\* The runtime schedules every goroutine that can go on; a Run that is past
\* its last UpdateMessage returns once its context is canceled (RunFunc: "It
\* must honour ctx cancellation"), and the callback runs under a 30 s context.
\* Nothing obliges anybody to start, cancel, subscribe or read.
Fairness ==
  \A t \in Tasks :
    /\ WF_vars(AnnounceStart(t))
    /\ WF_vars(AnnounceUpdate(t))
    /\ SF_vars(t \in ctxDone /\ \E f \in BOOLEAN : RunReturns(t, f))
    /\ WF_vars(Finish(t))
    /\ WF_vars(AnnounceEnd(t))
    /\ WF_vars(CancelCtx(t))
    /\ WF_vars(OnCancelReturns(t))

FairSpec == Spec /\ Fairness

--------------------------------------------------------------------------------
(* Properties.                                                               *)

\* gcOnce never takes a task away from its goroutine: until finish has recorded
\* the end, the task is in the registry, so finish finds it and the end is
\* recorded and announced. (Between the two steps of finish it may be gone.)
LiveTaskRegistered ==
  \A t \in Tasks :
    run[t] \notin {"idle", "ending", "done"} => t \in tasks /\ pub[t].state = "running"

\* A cancellation that Cancel accepted (it returned nil) decides the outcome
\* even when Run had already returned: such a task never ends as succeeded or
\* failed, and no other task ends as canceled.
AcceptedCancelWins ==
  \A t \in Tasks :
    pub[t].state \in TerminalStates => (pub[t].state = "canceled" <=> t \in canceled)

\* Every subscriber sees the events of a task in the order of its life, although
\* events are sent outside the locks: "started" only first and nothing after
\* "ended".
EventsInOrder ==
  \A s \in Subs : \A i, j \in 1..Len(queue[s]) :
    i < j /\ queue[s][i].task = queue[s][j].task
      => queue[s][i].type # "ended" /\ queue[s][j].type # "started"

\* "Once terminal, the state never changes" (docs/task-manager.md): no step
\* touches the record of an ended task.
TerminalIsFinal ==
  [][\A t \in Tasks : pub[t].ended => pub'[t] = pub[t]]_vars

\* A cancellation that was accepted is carried through: the task ends as
\* canceled and its callback returns. (The flag is never taken back, so that
\* "again and again" is "in the end".)
CancelCompletes ==
  \A t \in Tasks :
    []<>(t \in canceled => pub[t].state = "canceled" /\ cleanup[t] = "done")

\* "OnCancel ... invoked ... before the task transitions to canceled"
\* (docs/task-manager.md): a task that is shown as canceled has been cleaned up.
CleanupBeforeCanceled ==
  \A t \in Tasks : pub[t].state = "canceled" => cleanup[t] = "done"

\* The registry implements the lifecycle contract the task starters rely on.
PhaseOf(t) ==
  IF pub[t].state \in TerminalStates /\ t \notin tasks THEN "forgotten" ELSE pub[t].state

Lifecycle == INSTANCE TaskLifecycle WITH
  phase <- [t \in Tasks |-> PhaseOf(t)],
  cancelReq <- canceled

LifecycleContract == Lifecycle!LifecycleSpec
================================================================================
