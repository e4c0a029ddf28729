--------------------------- MODULE TaskManagerProofs ---------------------------
(****************************************************************************)
(* Theorems about TaskManager, for every set of tasks, subscribers and      *)
(* messages and every channel capacity.                                     *)
(****************************************************************************)
EXTENDS TaskManager, SequenceTheorems, TLAPS

\* The part of the inductive invariant about a task and its goroutine: the
\* goroutine's place determines whether the task is registered, running or
\* ended.
PlaceInv ==
  \A t \in Tasks :
    /\ run[t] = "idle" =>
         /\ t \notin tasks /\ t \notin canceled
         /\ pub[t].state = "none" /\ ~pub[t].ended
    /\ run[t] \in {"registered", "running", "updating", "failing", "succeeding"} =>
         t \in tasks /\ pub[t].state = "running" /\ ~pub[t].ended
    /\ run[t] \in {"ending", "done"} =>
         pub[t].state \in TerminalStates /\ pub[t].ended

\* The part about events: an event is in a channel only after its task was
\* announced, an "ended" one only after its goroutine is done.
EventInv ==
  \A s \in Subs : \A i \in 1..Len(queue[s]) :
    /\ run[queue[s][i].task] \notin {"idle", "registered"}
    /\ queue[s][i].type = "ended" => run[queue[s][i].task] = "done"

--------------------------------------------------------------------------------
(* Type correctness.                                                         *)

\* A broadcast (m.broadcast) keeps the channels well typed and within their
\* capacity.
LEMMA BroadcastType ==
  ASSUME TypeOK, NEW t \in Tasks, NEW type \in {"started", "updated", "ended"},
         Broadcast(type, t)
  PROVE  /\ subs' \subseteq Subs
         /\ queue' \in [Subs -> Seq(Event)]
         /\ \A s \in Subs : Len(queue'[s]) <= SubscriberBuffer
         /\ lossy' \subseteq Subs
<1> DEFINE ev == [type |-> type, task |-> t, pub |-> pub[t]]
<1>1. ev \in Event
  BY DEF TypeOK, Event
<1>2. \A s \in Subs : Append(queue[s], ev) \in Seq(Event) /\ Len(Append(queue[s], ev)) = Len(queue[s]) + 1
  BY <1>1, AppendProperties DEF TypeOK
<1>3. \A s \in Subs : Len(queue[s]) \in Nat
  BY LenProperties DEF TypeOK
<1> HIDE DEF ev
<1>4. queue' = [s \in Subs |-> IF s \in subs /\ ~Full(s) THEN Append(queue[s], ev) ELSE queue[s]]
  BY DEF Broadcast, ev
<1>5. \A s \in Subs : queue'[s] \in Seq(Event) /\ Len(queue'[s]) <= SubscriberBuffer
  BY <1>2, <1>3, <1>4, BufferAssumption DEF TypeOK, Full
<1>6. queue' \in [Subs -> Seq(Event)]
  BY <1>4, <1>5
<1> QED
  BY <1>5, <1>6 DEF Broadcast, TypeOK

\* The record finish leaves is well typed.
LEMMA FinalRecordType ==
  ASSUME TypeOK, NEW t \in Tasks
  PROVE  FinalRecord(t) \in PubRecords
BY DEF TypeOK, FinalRecord, PubRecords, TerminalStates, NoMessage

(* The types hold at the start.                                              *)
LEMMA TypeInit == Init => TypeOK
<1> SUFFICES ASSUME Init PROVE TypeOK
  OBVIOUS
<1>1. <<>> \in Seq(Event) /\ Len(<<>>) = 0
  BY EmptySeq
<1>2. queue \in [Subs -> Seq(Event)]
  BY <1>1 DEF Init
<1>3. \A s \in Subs : Len(queue[s]) <= SubscriberBuffer
  BY <1>1, BufferAssumption DEF Init
<1>4. [state |-> "none", message |-> NoMessage, ended |-> FALSE] \in PubRecords
  BY DEF PubRecords, NoMessage, TerminalStates
<1>5. pub \in [Tasks -> PubRecords]
  BY <1>4 DEF Init
<1> QED
  BY <1>2, <1>3, <1>5 DEF Init, TypeOK, RunSteps

(* Every step keeps the types.                                               *)
LEMMA TypeStep == TypeOK /\ [Next]_vars => TypeOK'
<1> SUFFICES ASSUME TypeOK, [Next]_vars PROVE TypeOK'
  OBVIOUS
<1> USE DEF TypeOK
<1>1. ASSUME NEW t \in Tasks, NEW c \in BOOLEAN, Start(t, c) PROVE TypeOK'
  BY <1>1 DEF Start, Silent, PubRecords, RunSteps
<1>2. ASSUME NEW t \in Tasks, AnnounceStart(t) PROVE TypeOK'
  BY <1>2, BroadcastType DEF AnnounceStart, RunSteps
<1>3. ASSUME NEW t \in Tasks, NEW m \in Messages, UpdateMessage(t, m) PROVE TypeOK'
  BY <1>3 DEF UpdateMessage, Silent, PubRecords, RunSteps
<1>4. ASSUME NEW t \in Tasks, AnnounceUpdate(t) PROVE TypeOK'
  BY <1>4, BroadcastType DEF AnnounceUpdate, RunSteps
<1>5. ASSUME NEW t \in Tasks, NEW f \in BOOLEAN, RunReturns(t, f) PROVE TypeOK'
  BY <1>5 DEF RunReturns, Silent, RunSteps
<1>6. ASSUME NEW t \in Tasks, Finish(t) PROVE TypeOK'
  BY <1>6, FinalRecordType DEF Finish, Silent, RunSteps
<1>7. ASSUME NEW t \in Tasks, AnnounceEnd(t) PROVE TypeOK'
  BY <1>7, BroadcastType DEF AnnounceEnd, RunSteps
<1>8. ASSUME NEW t \in Tasks, CancelStep(t) PROVE TypeOK'
  BY <1>8 DEF CancelStep, AcceptCancel, CancelCtx, OnCancelReturns, Silent
<1>9. ASSUME NEW t \in Tasks, RetentionElapses(t) PROVE TypeOK'
  BY <1>9 DEF RetentionElapses, Silent
<1>10. CASE gcOnce
  BY <1>10 DEF gcOnce, Silent
<1>11. ASSUME NEW s \in Subs, Subscribe(s) \/ Unsubscribe(s) PROVE TypeOK'
  <2>1. <<>> \in Seq(Event) /\ Len(<<>>) = 0
    BY EmptySeq
  <2>2. queue' = [queue EXCEPT ![s] = <<>>] /\ subs' \subseteq Subs /\ lossy' \subseteq Subs
    BY <1>11 DEF Subscribe, Unsubscribe
  <2>3. queue' \in [Subs -> Seq(Event)]
    BY <2>1, <2>2
  <2>4. \A r \in Subs : Len(queue'[r]) <= SubscriberBuffer
    BY <2>1, <2>2, BufferAssumption
  <2> QED
    BY <1>11, <2>2, <2>3, <2>4 DEF Subscribe, Unsubscribe, registryVars
<1>12. ASSUME NEW s \in Subs, Receive(s) PROVE TypeOK'
  <2>1. queue[s] \in Seq(Event) /\ queue[s] # <<>>
    BY <1>12 DEF Receive
  <2>2. Tail(queue[s]) \in Seq(Event) /\ Len(Tail(queue[s])) = Len(queue[s]) - 1 /\ Len(queue[s]) \in Nat
    BY <2>1, HeadTailProperties, LenProperties
  <2> QED
    BY <1>12, <2>2, BufferAssumption DEF Receive, registryVars
<1>13. CASE CloseManager
  BY <1>13 DEF CloseManager
<1>14. CASE UNCHANGED vars
  BY <1>14 DEF vars, registryVars
<1> QED
  BY <1>1, <1>2, <1>3, <1>4, <1>5, <1>6, <1>7, <1>8, <1>9, <1>10, <1>11, <1>12, <1>13, <1>14
  DEF Next, RunStep, SubscriberStep

\* Every behaviour of the task manager is well typed; in particular no channel
\* ever holds more than SubscriberBuffer events, so a broadcast never blocks.
THEOREM TypeCorrect == Spec => []TypeOK
<1>1. Init => TypeOK
  BY TypeInit
<1>2. TypeOK /\ [Next]_vars => TypeOK'
  BY TypeStep
<1> QED
  BY <1>1, <1>2, PTL DEF Spec

--------------------------------------------------------------------------------
(* The registry and the outcome of a task.                                   *)

(* Every step keeps a goroutine, its record and the registry in agreement.   *)
LEMMA PlaceStep ==
  TypeOK /\ PlaceInv /\ AcceptedCancelWins /\ [Next]_vars => PlaceInv' /\ AcceptedCancelWins'
<1> SUFFICES ASSUME TypeOK, PlaceInv, AcceptedCancelWins, [Next]_vars
             PROVE  PlaceInv' /\ AcceptedCancelWins'
  OBVIOUS
<1> USE DEF TypeOK, PlaceInv, AcceptedCancelWins, PubRecords, TerminalStates
<1>1. ASSUME NEW t \in Tasks, NEW c \in BOOLEAN, Start(t, c)
      PROVE  PlaceInv' /\ AcceptedCancelWins'
  BY <1>1 DEF Start
<1>2. ASSUME NEW t \in Tasks, AnnounceStart(t) PROVE PlaceInv' /\ AcceptedCancelWins'
  BY <1>2 DEF AnnounceStart
<1>3. ASSUME NEW t \in Tasks, NEW m \in Messages, UpdateMessage(t, m)
      PROVE  PlaceInv' /\ AcceptedCancelWins'
  BY <1>3 DEF UpdateMessage
<1>4. ASSUME NEW t \in Tasks, AnnounceUpdate(t) PROVE PlaceInv' /\ AcceptedCancelWins'
  BY <1>4 DEF AnnounceUpdate
<1>5. ASSUME NEW t \in Tasks, NEW f \in BOOLEAN, RunReturns(t, f)
      PROVE  PlaceInv' /\ AcceptedCancelWins'
  BY <1>5 DEF RunReturns
<1>6. ASSUME NEW t \in Tasks, Finish(t) PROVE PlaceInv' /\ AcceptedCancelWins'
  BY <1>6 DEF Finish, FinalRecord
<1>7. ASSUME NEW t \in Tasks, AnnounceEnd(t) PROVE PlaceInv' /\ AcceptedCancelWins'
  BY <1>7 DEF AnnounceEnd
<1>8. ASSUME NEW t \in Tasks, CancelStep(t) PROVE PlaceInv' /\ AcceptedCancelWins'
  BY <1>8 DEF CancelStep, AcceptCancel, CancelCtx, OnCancelReturns
<1>9. ASSUME NEW t \in Tasks, RetentionElapses(t) PROVE PlaceInv' /\ AcceptedCancelWins'
  BY <1>9 DEF RetentionElapses
<1>10. CASE gcOnce
  BY <1>10 DEF gcOnce, Collectable
<1>11. ASSUME NEW s \in Subs, SubscriberStep(s) PROVE PlaceInv' /\ AcceptedCancelWins'
  BY <1>11 DEF SubscriberStep, Subscribe, Receive, Unsubscribe, registryVars
<1>12. CASE CloseManager
  BY <1>12 DEF CloseManager
<1>13. CASE UNCHANGED vars
  BY <1>13 DEF vars, registryVars
<1> QED
  BY <1>1, <1>2, <1>3, <1>4, <1>5, <1>6, <1>7, <1>8, <1>9, <1>10, <1>11, <1>12, <1>13
  DEF Next, RunStep

(* At the start no task has a record or a place.                             *)
LEMMA PlaceInit == Init => PlaceInv /\ AcceptedCancelWins
BY DEF Init, PlaceInv, AcceptedCancelWins, TerminalStates

(* PlaceInv and the rule on cancellations hold in every reachable state.     *)
LEMMA PlaceInvariant == Spec => [](TypeOK /\ PlaceInv /\ AcceptedCancelWins)
<1>1. Init => TypeOK /\ PlaceInv /\ AcceptedCancelWins
  BY TypeInit, PlaceInit
<1>2. TypeOK /\ PlaceInv /\ AcceptedCancelWins /\ [Next]_vars
        => (TypeOK /\ PlaceInv /\ AcceptedCancelWins)'
  BY TypeStep, PlaceStep
<1> QED
  BY <1>1, <1>2, PTL DEF Spec

\* gcOnce never removes a task whose end finish has not recorded, so finish
\* always finds the task it ends.
THEOREM TaskStaysRegistered == Spec => []LiveTaskRegistered
<1>1. TypeOK /\ PlaceInv => LiveTaskRegistered
  BY DEF TypeOK, PlaceInv, LiveTaskRegistered, RunSteps
<1> QED
  BY <1>1, PlaceInvariant, PTL

\* An accepted cancellation decides the outcome of its task, and only that
\* makes a task end as canceled.
THEOREM CancelWins == Spec => []AcceptedCancelWins
BY PlaceInvariant, PTL

\* "Once terminal, the state never changes": the record of an ended task is
\* never written again.
THEOREM TerminalStable == Spec => TerminalIsFinal
<1>1. TypeOK /\ PlaceInv /\ [Next]_vars => [\A t \in Tasks : pub[t].ended => pub'[t] = pub[t]]_vars
  <2> SUFFICES ASSUME TypeOK, PlaceInv, Next, NEW t \in Tasks, pub[t].ended
               PROVE  pub'[t] = pub[t]
    OBVIOUS
  <2>1. run[t] \in {"ending", "done"}
    BY DEF TypeOK, PlaceInv, RunSteps
  <2>2. ASSUME NEW u \in Tasks, RunStep(u) PROVE pub'[t] = pub[t]
    BY <2>1, <2>2 DEF TypeOK, RunStep, Start, AnnounceStart, UpdateMessage, AnnounceUpdate, RunReturns,
       Finish, AnnounceEnd
  <2>3. ASSUME NEW u \in Tasks, CancelStep(u) \/ RetentionElapses(u) PROVE pub'[t] = pub[t]
    BY <2>3 DEF CancelStep, AcceptCancel, CancelCtx, OnCancelReturns, RetentionElapses
  <2> QED
    BY <2>2, <2>3 DEF Next, gcOnce, SubscriberStep, Subscribe, Receive, Unsubscribe, CloseManager, registryVars
<1> QED
  BY <1>1, PlaceInvariant, PTL DEF Spec, TerminalIsFinal

--------------------------------------------------------------------------------
(* The order of events in a channel.                                         *)

\* What a broadcast does to a channel, element by element.
LEMMA BroadcastElements ==
  ASSUME TypeOK, NEW t \in Tasks, NEW type \in {"started", "updated", "ended"},
         Broadcast(type, t), NEW s \in Subs, NEW i \in 1..Len(queue'[s])
  PROVE  \/ i \in 1..Len(queue[s]) /\ queue'[s][i] = queue[s][i]
         \/ /\ i = Len(queue[s]) + 1
            /\ queue'[s][i].task = t
            /\ queue'[s][i].type = type
<1> DEFINE ev == [type |-> type, task |-> t, pub |-> pub[t]]
<1>1. ev \in Event /\ ev.task = t /\ ev.type = type
  BY DEF TypeOK, Event
<1>2. Len(queue[s]) \in Nat
  BY LenProperties DEF TypeOK
<1>3. /\ Len(Append(queue[s], ev)) = Len(queue[s]) + 1
      /\ \A k \in 1..Len(queue[s]) : Append(queue[s], ev)[k] = queue[s][k]
      /\ Append(queue[s], ev)[Len(queue[s]) + 1] = ev
  BY <1>1, AppendProperties DEF TypeOK
<1> HIDE DEF ev
<1>4. queue'[s] = IF s \in subs /\ ~Full(s) THEN Append(queue[s], ev) ELSE queue[s]
  BY DEF Broadcast, ev
<1>5. CASE s \in subs /\ ~Full(s)
  <2>1. i \in 1..(Len(queue[s]) + 1)
    BY <1>3, <1>4, <1>5
  <2>2. CASE i = Len(queue[s]) + 1
    BY <1>1, <1>3, <1>4, <1>5, <2>2
  <2>3. CASE i \in 1..Len(queue[s])
    BY <1>3, <1>4, <1>5, <2>3
  <2> QED
    BY <1>2, <2>1, <2>2, <2>3
<1>6. CASE ~(s \in subs /\ ~Full(s))
  BY <1>4, <1>6
<1> QED
  BY <1>5, <1>6

\* A broadcast by the goroutine of a task that has announced its start exactly
\* when it should preserves the order of events; runAfter is where the
\* goroutine is after the broadcast.
LEMMA BroadcastOrder ==
  ASSUME TypeOK, EventInv, EventsInOrder, NEW t \in Tasks,
         NEW type \in {"started", "updated", "ended"}, NEW runAfter \in RunSteps \ {"idle", "registered"},
         Broadcast(type, t), run' = [run EXCEPT ![t] = runAfter],
         run[t] # "done",
         type = "started" => run[t] = "registered",
         type = "ended" => runAfter = "done"
  PROVE  EventInv' /\ EventsInOrder'
<1>1. ASSUME NEW s \in Subs, NEW i \in 1..Len(queue'[s])
      PROVE  /\ run'[queue'[s][i].task] \notin {"idle", "registered"}
             /\ queue'[s][i].type = "ended" => run'[queue'[s][i].task] = "done"
  <2>1. CASE i \in 1..Len(queue[s]) /\ queue'[s][i] = queue[s][i]
    <3>1. queue[s][i] \in Event
      BY <2>1, ElementOfSeq DEF TypeOK
    <3>2. queue[s][i].task \in Tasks
      BY <3>1 DEF Event
    <3>3. /\ run[queue[s][i].task] \notin {"idle", "registered"}
          /\ queue[s][i].type = "ended" => run[queue[s][i].task] = "done"
      BY <2>1 DEF EventInv
    <3> QED
      BY <2>1, <3>2, <3>3 DEF TypeOK
  <2>2. CASE queue'[s][i].task = t /\ queue'[s][i].type = type
    BY <2>2 DEF TypeOK
  <2> QED
    BY <2>1, <2>2, BroadcastElements
<1>2. ASSUME NEW s \in Subs, NEW i \in 1..Len(queue'[s]), NEW j \in 1..Len(queue'[s]),
             i < j, queue'[s][i].task = queue'[s][j].task
      PROVE  queue'[s][i].type # "ended" /\ queue'[s][j].type # "started"
  <2>1. Len(queue[s]) \in Nat
    BY LenProperties DEF TypeOK
  <2>2. \/ i \in 1..Len(queue[s]) /\ queue'[s][i] = queue[s][i]
        \/ i = Len(queue[s]) + 1
    BY BroadcastElements
  <2>3. \/ j \in 1..Len(queue[s]) /\ queue'[s][j] = queue[s][j]
        \/ j = Len(queue[s]) + 1 /\ queue'[s][j].task = t /\ queue'[s][j].type = type
    BY BroadcastElements
  <2>4. i \in 1..Len(queue[s]) /\ queue'[s][i] = queue[s][i]
    BY <1>2, <2>1, <2>2, <2>3
  <2>5. CASE j \in 1..Len(queue[s]) /\ queue'[s][j] = queue[s][j]
    BY <1>2, <2>4, <2>5 DEF EventsInOrder
  <2>6. CASE queue'[s][j].task = t /\ queue'[s][j].type = type
    <3>1. queue[s][i].task = t
      BY <1>2, <2>4, <2>6
    <3>2. run[t] \notin {"idle", "registered", "done"} /\ queue[s][i].type # "ended"
      BY <2>4, <3>1 DEF EventInv
    <3> QED
      BY <2>4, <2>6, <3>2
  <2> QED
    BY <2>3, <2>5, <2>6
<1> QED
  BY <1>1, <1>2 DEF EventInv, EventsInOrder

\* A step that only shortens channels, and moves goroutines forward, preserves
\* the order of events.
LEMMA ShortenOrder ==
  ASSUME TypeOK, EventInv, EventsInOrder,
         \A t \in Tasks : /\ run[t] \notin {"idle", "registered"} => run'[t] \notin {"idle", "registered"}
                          /\ run[t] = "done" => run'[t] = "done",
         \A s \in Subs : queue'[s] = queue[s] \/ queue'[s] = <<>> \/ (queue[s] # <<>> /\ queue'[s] = Tail(queue[s]))
  PROVE  EventInv' /\ EventsInOrder'
<1>1. \A s \in Subs : \E d \in {0, 1} : \A i \in 1..Len(queue'[s]) :
        i + d \in 1..Len(queue[s]) /\ queue'[s][i] = queue[s][i + d]
  <2> SUFFICES ASSUME NEW s \in Subs
               PROVE  \E d \in {0, 1} : \A i \in 1..Len(queue'[s]) :
                        i + d \in 1..Len(queue[s]) /\ queue'[s][i] = queue[s][i + d]
    OBVIOUS
  <2>1. Len(queue[s]) \in Nat
    BY LenProperties DEF TypeOK
  <2>2. CASE queue'[s] = queue[s]
    <3>1. \A i \in 1..Len(queue'[s]) : i + 0 \in 1..Len(queue[s]) /\ queue'[s][i] = queue[s][i + 0]
      BY <2>1, <2>2
    <3> QED
      BY <3>1
  <2>3. CASE queue'[s] = <<>>
    BY <2>3, EmptySeq
  <2>4. CASE queue[s] # <<>> /\ queue'[s] = Tail(queue[s])
    <3>1. /\ Len(queue'[s]) = Len(queue[s]) - 1
          /\ \A i \in 1..Len(queue'[s]) : queue'[s][i] = queue[s][i + 1]
      BY <2>4, HeadTailProperties DEF TypeOK
    <3>2. \A i \in 1..Len(queue'[s]) : i + 1 \in 1..Len(queue[s]) /\ queue'[s][i] = queue[s][i + 1]
      BY <2>1, <3>1
    <3> QED
      BY <3>2
  <2> QED
    BY <2>2, <2>3, <2>4
<1>2. ASSUME NEW s \in Subs, NEW i \in 1..Len(queue'[s])
      PROVE  /\ run'[queue'[s][i].task] \notin {"idle", "registered"}
             /\ queue'[s][i].type = "ended" => run'[queue'[s][i].task] = "done"
  <2>1. PICK d \in {0, 1} : i + d \in 1..Len(queue[s]) /\ queue'[s][i] = queue[s][i + d]
    BY <1>1
  <2>2. queue[s][i + d] \in Event
    BY <2>1, ElementOfSeq DEF TypeOK
  <2>3. queue[s][i + d].task \in Tasks
    BY <2>2 DEF Event
  <2>4. /\ run[queue[s][i + d].task] \notin {"idle", "registered"}
        /\ queue[s][i + d].type = "ended" => run[queue[s][i + d].task] = "done"
    BY <2>1 DEF EventInv
  <2> QED
    BY <2>1, <2>3, <2>4
<1>3. ASSUME NEW s \in Subs, NEW i \in 1..Len(queue'[s]), NEW j \in 1..Len(queue'[s]),
             i < j, queue'[s][i].task = queue'[s][j].task
      PROVE  queue'[s][i].type # "ended" /\ queue'[s][j].type # "started"
  <2>1. PICK d \in {0, 1} : \A k \in 1..Len(queue'[s]) :
               k + d \in 1..Len(queue[s]) /\ queue'[s][k] = queue[s][k + d]
    BY <1>1
  <2>2. i + d < j + d /\ i + d \in 1..Len(queue[s]) /\ j + d \in 1..Len(queue[s])
    BY <1>3, <2>1
  <2>3. queue'[s][i] = queue[s][i + d] /\ queue'[s][j] = queue[s][j + d]
    BY <2>1
  <2> QED
    BY <1>3, <2>2, <2>3 DEF EventsInOrder
<1> QED
  BY <1>2, <1>3 DEF EventInv, EventsInOrder

(* Every step keeps the events of a task in order.                           *)
LEMMA OrderStep ==
  TypeOK /\ EventInv /\ EventsInOrder /\ [Next]_vars => EventInv' /\ EventsInOrder'
<1> SUFFICES ASSUME TypeOK, EventInv, EventsInOrder, [Next]_vars
             PROVE  EventInv' /\ EventsInOrder'
  OBVIOUS
<1>1. ASSUME NEW t \in Tasks, AnnounceStart(t) PROVE EventInv' /\ EventsInOrder'
  BY <1>1, BroadcastOrder DEF AnnounceStart, RunSteps
<1>2. ASSUME NEW t \in Tasks, AnnounceUpdate(t) PROVE EventInv' /\ EventsInOrder'
  BY <1>2, BroadcastOrder DEF AnnounceUpdate, RunSteps
<1>3. ASSUME NEW t \in Tasks, AnnounceEnd(t) PROVE EventInv' /\ EventsInOrder'
  BY <1>3, BroadcastOrder DEF AnnounceEnd, RunSteps
<1>4. ASSUME NEW t \in Tasks,
             \/ \E c \in BOOLEAN : Start(t, c)
             \/ \E m \in Messages : UpdateMessage(t, m)
             \/ \E f \in BOOLEAN : RunReturns(t, f)
             \/ Finish(t)
      PROVE  EventInv' /\ EventsInOrder'
  <2>1. queue' = queue
    BY <1>4 DEF Start, UpdateMessage, RunReturns, Finish, Silent
  <2>2. \A u \in Tasks : /\ run[u] \notin {"idle", "registered"} => run'[u] \notin {"idle", "registered"}
                         /\ run[u] = "done" => run'[u] = "done"
    BY <1>4 DEF TypeOK, Start, UpdateMessage, RunReturns, Finish
  <2> QED
    BY <2>1, <2>2, ShortenOrder
<1>5. ASSUME NEW t \in Tasks, CancelStep(t) \/ RetentionElapses(t) PROVE EventInv' /\ EventsInOrder'
  <2>1. queue' = queue /\ run' = run
    BY <1>5 DEF CancelStep, AcceptCancel, CancelCtx, OnCancelReturns, RetentionElapses, Silent
  <2> QED
    BY <2>1, ShortenOrder
<1>6. ASSUME gcOnce \/ CloseManager \/ UNCHANGED vars PROVE EventInv' /\ EventsInOrder'
  <2>1. queue' = queue /\ run' = run
    BY <1>6 DEF gcOnce, CloseManager, Silent, vars, registryVars
  <2> QED
    BY <2>1, ShortenOrder
<1>7. ASSUME NEW s \in Subs, SubscriberStep(s) PROVE EventInv' /\ EventsInOrder'
  <2>1. run' = run
    BY <1>7 DEF SubscriberStep, Subscribe, Receive, Unsubscribe, registryVars
  <2>2. ASSUME NEW r \in Subs
        PROVE  queue'[r] = queue[r] \/ queue'[r] = <<>> \/ (queue[r] # <<>> /\ queue'[r] = Tail(queue[r]))
    BY <1>7 DEF TypeOK, SubscriberStep, Subscribe, Receive, Unsubscribe
  <2> QED
    BY <2>1, <2>2, ShortenOrder
<1> QED
  BY <1>1, <1>2, <1>3, <1>4, <1>5, <1>6, <1>7 DEF Next, RunStep

\* Whatever the interleaving of tasks, cancellations and subscribers, a channel
\* never holds an event of a task after its "ended", nor a "started" that is
\* not the first: events are sent outside the locks and still stay in order.
THEOREM EventOrder == Spec => []EventsInOrder
<1>1. Init => EventInv /\ EventsInOrder
  <2>1. Len(<<>>) = 0
    BY EmptySeq
  <2>2. Init => \A s \in Subs : 1..Len(queue[s]) = {}
    BY <2>1 DEF Init
  <2> QED
    BY <2>2 DEF EventInv, EventsInOrder
<1>2. TypeOK /\ EventInv /\ EventsInOrder /\ [Next]_vars => EventInv' /\ EventsInOrder'
  BY OrderStep
<1> QED
  BY <1>1, <1>2, TypeCorrect, PTL DEF Spec

--------------------------------------------------------------------------------
(* The registry implements the lifecycle contract.                           *)

\* Facts about the refinement mapping: where the goroutine is determines the
\* abstract phase.
LEMMA PhaseMap ==
  ASSUME TypeOK, PlaceInv, NEW t \in Tasks
  PROVE  /\ run[t] = "idle" => PhaseOf(t) = "none"
         /\ run[t] \in {"registered", "running", "updating", "failing", "succeeding"} => PhaseOf(t) = "running"
         /\ run[t] \in {"ending", "done"} =>
              PhaseOf(t) = IF t \in tasks THEN pub[t].state ELSE "forgotten"
BY DEF TypeOK, PlaceInv, PhaseOf, TerminalStates

(* An initial state of the registry is one of the contract.                  *)
LEMMA ContractInit == Init => Lifecycle!LifecycleInit
BY DEF Init, Lifecycle!LifecycleInit, PhaseOf, TerminalStates

\* A step that changes no public record, no cancellation flag and no
\* registration is invisible in the contract.
LEMMA Invisible ==
  ASSUME UNCHANGED <<tasks, pub, cancellable, canceled, ctxDone, cleanup>>
  PROVE  UNCHANGED Lifecycle!lifecycleVars
BY DEF Lifecycle!lifecycleVars, PhaseOf

(* A step of the registry is a step of the contract or changes nothing there. *)
LEMMA ContractStep ==
  TypeOK /\ PlaceInv /\ [Next]_vars => [Lifecycle!LifecycleNext]_(Lifecycle!lifecycleVars)
<1> SUFFICES ASSUME TypeOK, PlaceInv, [Next]_vars
             PROVE  [Lifecycle!LifecycleNext]_(Lifecycle!lifecycleVars)
  OBVIOUS
<1> DEFINE ph == [t \in Tasks |-> PhaseOf(t)]
<1>1. ASSUME NEW t \in Tasks, NEW c \in BOOLEAN, Start(t, c) PROVE Lifecycle!Begin(t, c)
  <2>1. ph[t] = "none"
    BY <1>1, PhaseMap DEF Start
  <2>2. ph' = [ph EXCEPT ![t] = "running"]
    BY <1>1 DEF Start, TypeOK, PubRecords, PhaseOf, TerminalStates
  <2> QED
    BY <1>1, <2>1, <2>2 DEF Start, Lifecycle!Begin
<1>2. ASSUME NEW t \in Tasks, NEW m \in Messages, UpdateMessage(t, m) PROVE UNCHANGED Lifecycle!lifecycleVars
  <2>1. ph' = ph
    BY <1>2 DEF UpdateMessage, TypeOK, PubRecords, PhaseOf
  <2> QED
    BY <1>2, <2>1 DEF UpdateMessage, Lifecycle!lifecycleVars
<1>3. ASSUME NEW t \in Tasks,
             AnnounceStart(t) \/ AnnounceUpdate(t) \/ (\E f \in BOOLEAN : RunReturns(t, f))
      PROVE  UNCHANGED Lifecycle!lifecycleVars
  BY <1>3, Invisible DEF AnnounceStart, AnnounceUpdate, RunReturns
<1>4. ASSUME NEW t \in Tasks, Finish(t) PROVE Lifecycle!End(t, run[t] = "failing")
  <2>1. ph[t] = "running" /\ t \in tasks
    BY <1>4, PhaseMap DEF Finish, PlaceInv
  <2>2. pub' = [pub EXCEPT ![t] = FinalRecord(t)] /\ tasks' = tasks
    BY <1>4, <2>1 DEF Finish
  <2>3. FinalRecord(t).state = Lifecycle!Outcome(t, run[t] = "failing")
    BY DEF FinalRecord, Lifecycle!Outcome
  <2>4. ph' = [ph EXCEPT ![t] = FinalRecord(t).state]
    BY <2>1, <2>2 DEF TypeOK, PhaseOf
  <2> QED
    BY <1>4, <2>1, <2>3, <2>4 DEF Finish, Lifecycle!End
<1>5. ASSUME NEW t \in Tasks, AnnounceEnd(t) PROVE Lifecycle!ReleaseCtx(t)
  <2>1. ph[t] \in Lifecycle!Terminal \cup {"forgotten"}
    BY <1>5, PhaseMap DEF AnnounceEnd, PlaceInv, TerminalStates, Lifecycle!Terminal
  <2>2. ph' = ph
    BY <1>5 DEF AnnounceEnd, PhaseOf
  <2> QED
    BY <1>5, <2>1, <2>2 DEF AnnounceEnd, Lifecycle!ReleaseCtx
<1>6. ASSUME NEW t \in Tasks, AcceptCancel(t) PROVE Lifecycle!AcceptCancel(t)
  <2>1. ph[t] = "running" /\ ph' = ph
    BY <1>6 DEF AcceptCancel, PhaseOf, TerminalStates
  <2> QED
    BY <1>6, <2>1 DEF AcceptCancel, Lifecycle!AcceptCancel
<1>7. ASSUME NEW t \in Tasks, CancelCtx(t) PROVE Lifecycle!EnterCleanup(t)
  <2>1. ph' = ph
    BY <1>7 DEF CancelCtx, PhaseOf
  <2> QED
    BY <1>7, <2>1 DEF CancelCtx, Lifecycle!EnterCleanup
<1>8. ASSUME NEW t \in Tasks, OnCancelReturns(t) PROVE Lifecycle!LeaveCleanup(t)
  <2>1. ph' = ph
    BY <1>8 DEF OnCancelReturns, PhaseOf
  <2> QED
    BY <1>8, <2>1 DEF OnCancelReturns, Lifecycle!LeaveCleanup
<1>9. ASSUME gcOnce PROVE \E S \in SUBSET Tasks : Lifecycle!Forget(S)
  <2> DEFINE S == {t \in tasks : Collectable(t)}
  <2>1. S # {} /\ S \in SUBSET Tasks
    BY <1>9 DEF gcOnce, TypeOK
  <2>2. \A t \in S : ph[t] \in Lifecycle!Terminal
    <3> SUFFICES ASSUME NEW t \in S PROVE ph[t] \in Lifecycle!Terminal
      OBVIOUS
    <3>1. t \in Tasks /\ t \in tasks /\ pub[t].ended
      BY <2>1 DEF Collectable
    <3>2. run[t] \in {"ending", "done"} /\ pub[t].state \in TerminalStates
      BY <3>1 DEF TypeOK, PlaceInv, RunSteps
    <3> QED
      BY <3>1, <3>2, PhaseMap DEF TerminalStates, Lifecycle!Terminal
  <2>3. \A t \in S : pub[t].state \in TerminalStates
    BY <2>1 DEF Collectable, TypeOK, PlaceInv, RunSteps
  <2>4. ph' = [t \in Tasks |-> IF t \in S THEN "forgotten" ELSE ph[t]]
    BY <1>9, <2>3 DEF gcOnce, PhaseOf
  <2>5. Lifecycle!Forget(S)
    BY <1>9, <2>1, <2>2, <2>4 DEF gcOnce, Lifecycle!Forget
  <2> QED
    BY <2>1, <2>5
<1>10. ASSUME NEW t \in Tasks, RetentionElapses(t) PROVE UNCHANGED Lifecycle!lifecycleVars
  BY <1>10, Invisible DEF RetentionElapses
<1>11. ASSUME NEW s \in Subs, SubscriberStep(s) PROVE UNCHANGED Lifecycle!lifecycleVars
  BY <1>11, Invisible DEF SubscriberStep, Subscribe, Receive, Unsubscribe, registryVars
<1>12. ASSUME CloseManager \/ UNCHANGED vars PROVE UNCHANGED Lifecycle!lifecycleVars
  BY <1>12, Invisible DEF CloseManager, vars, registryVars
<1> QED
  BY <1>1, <1>2, <1>3, <1>4, <1>5, <1>6, <1>7, <1>8, <1>9, <1>10, <1>11, <1>12
  DEF Next, RunStep, CancelStep, Lifecycle!LifecycleNext

\* The task manager implements TaskLifecycle: the contract that backup and
\* browserprov rely on holds of it whatever the number of tasks, subscribers
\* and messages.
THEOREM ImplementsLifecycle == Spec => LifecycleContract
<1>1. Init => Lifecycle!LifecycleInit
  BY ContractInit
<1>2. TypeOK /\ PlaceInv /\ [Next]_vars => [Lifecycle!LifecycleNext]_(Lifecycle!lifecycleVars)
  BY ContractStep
<1> QED
  BY <1>1, <1>2, PlaceInvariant, PTL DEF Spec, LifecycleContract, Lifecycle!LifecycleSpec
================================================================================
