------------------------------- MODULE TaskStream -------------------------------
(****************************************************************************)
(* One browser page watching the task manager: the SSE handler             *)
(* (handlers/tasks.go, StreamTaskEvents), the REST listing the page seeds   *)
(* itself from (ListTasks) and the page's store (hooks/useTaskStream.ts).   *)
(*                                                                          *)
(* The page learns of tasks on two paths that nothing orders: the events of *)
(* its connection and the answers to its GET /tasks?only_active requests.   *)
(****************************************************************************)
EXTENDS TaskManager, SequencesExt

CONSTANTS
  Sub,       \* the subscription of the page's handler
  Mine,      \* the tasks the page's user may see (visibilityFilter)
  Fetches,   \* slots for listing requests in flight
  WireBound  \* events the connection buffers before the handler's write blocks

ASSUME StreamAssumption == Sub \in Subs /\ Mine \subseteq Tasks /\ WireBound \in Nat

VARIABLES
  conn,      \* the page's connection: off, opening (subscribed), streaming
  wire,      \* events sent and not yet processed by the page
  sent,      \* history: last record sent about each task on this connection
  fetch,     \* listing requests: what each slot is waiting for
  view       \* the page's store: what it believes about each task

streamVars == <<conn, wire, sent, fetch, view>>

Unknown == [state |-> "unknown", message |-> NoMessage, ended |-> FALSE]
Idle == [step |-> "idle", active |-> {}]

Seen == PubRecords \cup {Unknown}

News == [task : Mine, pub : PubRecords]

StreamTypeOK ==
  /\ TypeOK
  /\ conn \in {"off", "opening", "streaming"}
  /\ conn = "off" => wire = <<>>
  /\ wire \in Seq(News)
  /\ sent \in [Tasks -> Seen]
  /\ fetch \in [Fetches -> [step : {"idle", "asked", "answered"}, active : SUBSET News]]
  /\ view \in [Tasks -> Seen]
  /\ \A t \in Tasks \ Mine : view[t] = Unknown

\* start() asks for the active tasks before its first connection attempt.
StreamInit ==
  /\ Init
  /\ conn = "off"
  /\ wire = <<>>
  /\ sent = [t \in Tasks |-> Unknown]
  /\ view = [t \in Tasks |-> Unknown]
  /\ \E f \in Fetches :
       fetch = [[g \in Fetches |-> Idle] EXCEPT ![f] = [step |-> "asked", active |-> {}]]

--------------------------------------------------------------------------------
\* List(OnlyActive), filtered by visibilityFilter: the records of the running
\* tasks of the caller.
ActiveTasks == {t \in tasks \cap Mine : pub[t].state = "running"}

Snapshots == {[task |-> t, pub |-> pub[t]] : t \in ActiveTasks}

Ask(f) == fetch' = [fetch EXCEPT ![f] = [step |-> "asked", active |-> {}]]

\* connect(): the handler subscribes and flushes its headers; the page's onopen
\* asks for the active tasks once more.
Open(f) ==
  /\ conn = "off"
  /\ fetch[f] = Idle
  /\ Subscribe(Sub)
  /\ conn' = "opening"
  /\ sent' = [t \in Tasks |-> Unknown]
  /\ Ask(f)
  /\ UNCHANGED <<wire, view>>

\* A consumer mounts while the page is disconnected: start() seeds the store.
Mount(f) ==
  /\ conn = "off"
  /\ fetch[f] = Idle
  /\ Ask(f)
  /\ UNCHANGED <<vars, conn, wire, sent, view>>

Seed_Omitted ==
  /\ conn = "opening"
  /\ conn' = "streaming"
  /\ UNCHANGED <<vars, wire, sent, fetch, view>>

\* The handler lists the active tasks, after it subscribed, and sends them.
Seed ==
  /\ conn = "opening"
  /\ conn' = "streaming"
  /\ wire' = wire \o SetToSeq(Snapshots)
  /\ sent' = [t \in Tasks |-> IF t \in ActiveTasks THEN pub[t] ELSE sent[t]]
  /\ UNCHANGED <<vars, fetch, view>>

Forward_DropsWhenBusy ==
  /\ conn = "streaming"
  /\ Receive(Sub)
  /\ LET ev == Head(queue[Sub]) IN
       IF wire = <<>>
       THEN /\ wire' = <<[task |-> ev.task, pub |-> ev.pub]>>
            /\ sent' = [sent EXCEPT ![ev.task] = ev.pub]
       ELSE UNCHANGED <<wire, sent>>
  /\ UNCHANGED <<conn, fetch, view>>

\* The handler's loop: next event of its channel, if the caller may see it.
Forward ==
  /\ conn = "streaming"
  /\ Len(wire) < WireBound
  /\ Receive(Sub)
  /\ LET ev == Head(queue[Sub]) IN
       /\ wire' = IF ev.task \in Mine THEN Append(wire, [task |-> ev.task, pub |-> ev.pub]) ELSE wire
       /\ sent' = IF ev.task \in Mine THEN [sent EXCEPT ![ev.task] = ev.pub] ELSE sent
  /\ UNCHANGED <<conn, fetch, view>>

\* onmessage: the event's record replaces what the store had.
applyEvent ==
  /\ wire # <<>>
  /\ view' = [view EXCEPT ![Head(wire).task] = Head(wire).pub]
  /\ wire' = Tail(wire)
  /\ UNCHANGED <<vars, conn, sent, fetch>>

\* The connection breaks, the consumer unmounts, or the manager closed the
\* channel: the handler unsubscribes, what was in flight is lost, and the
\* store keeps what it has.
Disconnect ==
  /\ conn # "off"
  /\ conn' = "off"
  /\ wire' = <<>>
  /\ IF Sub \in subs THEN Unsubscribe(Sub)
     ELSE queue' = [queue EXCEPT ![Sub] = <<>>] /\ UNCHANGED <<registryVars, subs, lossy>>
  /\ UNCHANGED <<sent, fetch, view>>

\* The server answers a listing request ...
ListTasks(f) ==
  /\ fetch[f].step = "asked"
  /\ fetch' = [fetch EXCEPT ![f] = [step |-> "answered", active |-> Snapshots]]
  /\ UNCHANGED <<vars, conn, wire, sent, view>>

\* ... and the answer reaches the page, whenever it does.
seedActiveTasks(f) ==
  /\ fetch[f].step = "answered"
  /\ view' = [t \in Tasks |->
                IF \E a \in fetch[f].active : a.task = t
                THEN (CHOOSE a \in fetch[f].active : a.task = t).pub
                ELSE view[t]]
  /\ fetch' = [fetch EXCEPT ![f] = Idle]
  /\ UNCHANGED <<vars, conn, wire, sent>>

\* The request fails; the error is swallowed.
FetchFails(f) ==
  /\ fetch[f].step # "idle"
  /\ fetch' = [fetch EXCEPT ![f] = Idle]
  /\ UNCHANGED <<vars, conn, wire, sent, view>>

\* The registry moves on by itself; Sub is driven by the handler.
ManagerStep ==
  /\ \/ \E t \in Tasks : RunStep(t) \/ CancelStep(t) \/ RetentionElapses(t)
     \/ gcOnce
     \/ CloseManager
  /\ UNCHANGED streamVars

PageStep ==
  \/ \E f \in Fetches : Open(f) \/ Mount(f) \/ ListTasks(f) \/ seedActiveTasks(f) \/ FetchFails(f)
  \/ Seed
  \/ Forward
  \/ applyEvent
  \/ Disconnect

StreamNext == ManagerStep \/ PageStep

\* Fairness of the registry only: a page may stop reading for good.
StreamSpec == StreamInit /\ [][StreamNext]_<<vars, streamVars>> /\ Fairness

--------------------------------------------------------------------------------
(* Properties.                                                               *)

\* No record of t is on its way out of the registry.
Announced(t) ==
  /\ run[t] \notin {"registered", "updating", "ending"}
  /\ \A i \in DOMAIN queue[Sub] : queue[Sub][i].task # t

\* A connection that lost no event has told the page the truth about every
\* task it mentioned, and has mentioned every running task: subscribing before
\* listing leaves no gap between the two, whatever starts or ends meanwhile.
StreamComplete ==
  conn = "streaming" /\ Sub \in subs \ lossy =>
    \A t \in Mine : Announced(t) =>
      /\ sent[t] # Unknown => sent[t] = pub[t]
      /\ pub[t].state = "running" => sent[t] = pub[t]

\* Nothing is on its way to the page.
Settled ==
  /\ conn = "streaming"
  /\ Sub \in subs \ lossy
  /\ wire = <<>>
  /\ \A f \in Fetches : fetch[f] = Idle
  /\ \A t \in Tasks : Announced(t)

\* A settled page shows every running task of its user as running: neither a
\* lost connection nor a late listing hides live work.
RunningShown ==
  Settled => \A t \in Mine : pub[t].state = "running" => view[t].state = "running"

\* What the documentation promises of a reconnection ("Reconnection refreshes
\* state via List()"): a settled page shows no task as running that is not.
NoGhostTask ==
  Settled => \A t \in Mine : view[t].state = "running" => pub[t].state = "running"
================================================================================
