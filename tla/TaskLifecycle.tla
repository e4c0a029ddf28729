----------------------------- MODULE TaskLifecycle -----------------------------
(****************************************************************************)
(* What the task manager promises to the code that starts tasks (package    *)
(* taskmanager, docs/task-manager.md): a task is begun once, runs, and ends *)
(* in exactly one terminal state; a cancellation accepted while it runs     *)
(* decides that state, cancels its context and runs its OnCancel callback   *)
(* once, CONCURRENTLY with the task's own goroutine.                        *)
(*                                                                          *)
(* The packages that start tasks (backup, browserprov) are modelled on top  *)
(* of this contract; TaskManager refines it.                                *)
(****************************************************************************)
CONSTANT Tasks          \* task ids (uuid.NewString: never reused)

VARIABLES
  phase,        \* where each task is in its life
  cancellable,  \* tasks started with an OnCancel callback
  cancelReq,    \* tasks whose cancellation was accepted
  ctxDone,      \* tasks whose context is canceled
  cleanup       \* progress of the OnCancel callback of each task

lifecycleVars == <<phase, cancellable, cancelReq, ctxDone, cleanup>>

Terminal == {"succeeded", "failed", "canceled"}

Phases == {"none", "running", "forgotten"} \cup Terminal

CleanupSteps == {"none", "accepted", "running", "done"}

LifecycleTypeOK ==
  /\ phase \in [Tasks -> Phases]
  /\ cancellable \subseteq Tasks
  /\ cancelReq \subseteq Tasks
  /\ ctxDone \subseteq Tasks
  /\ cleanup \in [Tasks -> CleanupSteps]

LifecycleInit ==
  /\ phase = [t \in Tasks |-> "none"]
  /\ cancellable = {}
  /\ cancelReq = {}
  /\ ctxDone = {}
  /\ cleanup = [t \in Tasks |-> "none"]

\* Start: the task is registered as running; withOnCancel says whether the
\* caller supplied an OnCancel callback.
Begin(t, withOnCancel) ==
  /\ phase[t] = "none"
  /\ phase' = [phase EXCEPT ![t] = "running"]
  /\ cancellable' = IF withOnCancel THEN cancellable \cup {t} ELSE cancellable
  /\ UNCHANGED <<cancelReq, ctxDone, cleanup>>

\* Cancel, the decision: only a running, cancellable task whose cancellation
\* was not accepted before. Every other call returns with no effect.
AcceptCancel(t) ==
  /\ phase[t] = "running"
  /\ t \in cancellable \ cancelReq
  /\ cancelReq' = cancelReq \cup {t}
  /\ cleanup' = [cleanup EXCEPT ![t] = "accepted"]
  /\ UNCHANGED <<phase, cancellable, ctxDone>>

\* Cancel, continued: the context is canceled and OnCancel is entered. The
\* task's own goroutine may be anywhere, finished included.
EnterCleanup(t) ==
  /\ cleanup[t] = "accepted"
  /\ ctxDone' = ctxDone \cup {t}
  /\ cleanup' = [cleanup EXCEPT ![t] = "running"]
  /\ UNCHANGED <<phase, cancellable, cancelReq>>

LeaveCleanup(t) ==
  /\ cleanup[t] = "running"
  /\ cleanup' = [cleanup EXCEPT ![t] = "done"]
  /\ UNCHANGED <<phase, cancellable, cancelReq, ctxDone>>

\* The state a task ends in: an accepted cancellation wins over Run's result.
Outcome(t, failed) ==
  IF t \in cancelReq THEN "canceled" ELSE IF failed THEN "failed" ELSE "succeeded"

End(t, failed) ==
  /\ phase[t] = "running"
  /\ phase' = [phase EXCEPT ![t] = Outcome(t, failed)]
  /\ UNCHANGED <<cancellable, cancelReq, ctxDone, cleanup>>

\* The goroutine that ran the task releases its context when it exits.
ReleaseCtx(t) ==
  /\ phase[t] \in Terminal \cup {"forgotten"}
  /\ ctxDone' = ctxDone \cup {t}
  /\ UNCHANGED <<phase, cancellable, cancelReq, cleanup>>

\* Retention is over: any set of terminal tasks leaves the registry at once.
Forget(S) ==
  /\ S # {}
  /\ \A t \in S : phase[t] \in Terminal
  /\ phase' = [t \in Tasks |-> IF t \in S THEN "forgotten" ELSE phase[t]]
  /\ UNCHANGED <<cancellable, cancelReq, ctxDone, cleanup>>

LifecycleNext ==
  \/ \E t \in Tasks :
       \/ \E c \in BOOLEAN : Begin(t, c)
       \/ AcceptCancel(t)
       \/ EnterCleanup(t)
       \/ LeaveCleanup(t)
       \/ \E f \in BOOLEAN : End(t, f)
       \/ ReleaseCtx(t)
  \/ \E S \in SUBSET Tasks : Forget(S)

LifecycleSpec == LifecycleInit /\ [][LifecycleNext]_lifecycleVars
================================================================================
