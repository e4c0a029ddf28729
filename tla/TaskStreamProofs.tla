--------------------------- MODULE TaskStreamProofs ----------------------------
(****************************************************************************)
(* Theorems about TaskStream, for every set of tasks, subscribers, messages *)
(* and requests of the page, and every capacity of the channels.            *)
(****************************************************************************)
EXTENDS TaskStream, TaskManagerProofs, FiniteSetTheorems

\* What is said about a task in a sequence of events or of news.
Mentions(s, t) == \E i \in 1..Len(s) : s[i].task = t

LastIs(s, t, r) ==
  \A i \in 1..Len(s) :
    s[i].task = t /\ (\A j \in 1..Len(s) : j > i => s[j].task # t) => s[i].pub = r

AllRunning(s, t) == \A i \in 1..Len(s) : s[i].task = t => s[i].pub.state = "running"

\* A record that is still to be announced.
Pending(t) == run[t] \in {"registered", "updating", "ending"}

\* The registry's own invariants, which the page cannot disturb.
RegistryInv == TypeOK /\ PlaceInv /\ AcceptedCancelWins /\ IsFiniteSet(tasks)

\* What StreamComplete rests on: the last event in the channel about a task
\* carries its record of now, unless that one is still to be announced.
QueueInv ==
  Sub \in subs \ lossy => \A t \in Tasks : ~Pending(t) => LastIs(queue[Sub], t, pub[t])

\* Nothing has been sent before the seed.
OpenInv == conn = "opening" => \A t \in Tasks : sent[t] = Unknown

\* What RunningShown rests on: nothing says of a task that has not ended that
\* it has, and a task that was sent is known or on the wire.
NotEnded(t) ==
  /\ view[t].state \in {"unknown", "running"}
  /\ AllRunning(wire, t)
  /\ AllRunning(queue[Sub], t)

FreshInv == \A t \in Tasks : pub[t].state \in {"none", "running"} => NotEnded(t)

ListedInv == \A f \in Fetches : \A a \in fetch[f].active : a.pub.state = "running"

ToldInv ==
  conn = "streaming" =>
    \A t \in Mine : sent[t] # Unknown => view[t].state # "unknown" \/ Mentions(wire, t)

StreamInv ==
  /\ RegistryInv /\ StreamTypeOK
  /\ QueueInv /\ OpenInv /\ FreshInv /\ ListedInv /\ ToldInv
  /\ StreamComplete

--------------------------------------------------------------------------------
(* Sequences.                                                                *)

\* An empty sequence says nothing.
LEMMA EmptySays ==
  ASSUME NEW t, NEW r
  PROVE  ~Mentions(<<>>, t) /\ LastIs(<<>>, t, r) /\ AllRunning(<<>>, t)
  BY EmptySeq DEF Mentions, LastIs, AllRunning

\* What one more element says.
LEMMA AppendSays ==
  ASSUME NEW S, NEW s \in Seq(S), NEW e \in S, NEW t
  PROVE  /\ Mentions(Append(s, e), t) <=> e.task = t \/ Mentions(s, t)
         /\ \A r : (IF e.task = t THEN e.pub = r ELSE LastIs(s, t, r)) => LastIs(Append(s, e), t, r)
         /\ AllRunning(s, t) /\ (e.task = t => e.pub.state = "running") => AllRunning(Append(s, e), t)
<1>1. Len(s) \in Nat
  BY LenProperties
<1>2. PICK u : u = Append(s, e)
  OBVIOUS
<1>3. /\ Len(u) = Len(s) + 1 /\ u[Len(s) + 1] = e
      /\ \A i \in 1..Len(s) : u[i] = s[i]
  BY <1>2, AppendProperties
<1>4. \A i : i \in 1..Len(u) <=> i \in 1..Len(s) \/ i = Len(s) + 1
  BY <1>1, <1>3
<1>5. Mentions(u, t) <=> e.task = t \/ Mentions(s, t)
  BY <1>3, <1>4 DEF Mentions
<1>6. ASSUME NEW r, IF e.task = t THEN e.pub = r ELSE LastIs(s, t, r) PROVE LastIs(u, t, r)
  <2> SUFFICES ASSUME NEW i \in 1..Len(u), u[i].task = t,
                      \A j \in 1..Len(u) : j > i => u[j].task # t
               PROVE  u[i].pub = r
    BY DEF LastIs
  <2>1. CASE i = Len(s) + 1
    BY <1>3, <1>6, <2>1
  <2>2. CASE i \in 1..Len(s)
    <3>1. e.task # t
      BY <1>1, <1>3, <1>4, <2>2
    <3>2. \A j \in 1..Len(s) : j > i => s[j].task # t
      BY <1>3, <1>4
    <3> QED
      BY <1>3, <1>6, <2>2, <3>1, <3>2 DEF LastIs
  <2> QED
    BY <1>4, <2>1, <2>2
<1>7. AllRunning(s, t) /\ (e.task = t => e.pub.state = "running") => AllRunning(u, t)
  BY <1>3, <1>4 DEF AllRunning
<1> QED
  BY <1>2, <1>5, <1>6, <1>7

\* What is said without the first element.
LEMMA TailSays ==
  ASSUME NEW S, NEW s \in Seq(S), s # <<>>, NEW t
  PROVE  /\ Mentions(s, t) <=> Head(s).task = t \/ Mentions(Tail(s), t)
         /\ \A r : LastIs(s, t, r) => LastIs(Tail(s), t, r)
         /\ \A r : LastIs(s, t, r) /\ Head(s).task = t /\ ~Mentions(Tail(s), t) => Head(s).pub = r
         /\ AllRunning(s, t) => AllRunning(Tail(s), t) /\ (Head(s).task = t => Head(s).pub.state = "running")
<1>1. Len(s) \in Nat \ {0}
  BY LenProperties, EmptySeq
<1>2. PICK u : u = Tail(s)
  OBVIOUS
<1>3. /\ Len(u) = Len(s) - 1 /\ \A i \in 1..Len(u) : u[i] = s[i + 1]
      /\ Head(s) = s[1]
  BY <1>2, HeadTailProperties
<1>4. \A i \in 1..Len(s) : i = 1 \/ (i - 1 \in 1..Len(u) /\ u[i - 1] = s[i])
  BY <1>1, <1>3
<1>5. \A i \in 1..Len(u) : i + 1 \in 1..Len(s)
  BY <1>1, <1>3
<1>6. 1 \in 1..Len(s)
  BY <1>1
<1>7. Mentions(s, t) <=> Head(s).task = t \/ Mentions(u, t)
  BY <1>3, <1>4, <1>5, <1>6 DEF Mentions
<1>8. ASSUME NEW r, LastIs(s, t, r) PROVE LastIs(u, t, r)
  <2> SUFFICES ASSUME NEW i \in 1..Len(u), u[i].task = t,
                      \A j \in 1..Len(u) : j > i => u[j].task # t
               PROVE  u[i].pub = r
    BY DEF LastIs
  <2>1. ASSUME NEW j \in 1..Len(s), j > i + 1 PROVE s[j].task # t
    BY <1>4, <2>1
  <2> QED
    BY <1>3, <1>5, <1>8, <2>1 DEF LastIs
<1>9. ASSUME NEW r, LastIs(s, t, r), Head(s).task = t, ~Mentions(u, t) PROVE Head(s).pub = r
  <2>1. ASSUME NEW j \in 1..Len(s), j > 1 PROVE s[j].task # t
    BY <1>4, <1>9, <2>1 DEF Mentions
  <2> QED
    BY <1>3, <1>6, <1>9, <2>1 DEF LastIs
<1>10. AllRunning(s, t) => AllRunning(u, t) /\ (Head(s).task = t => Head(s).pub.state = "running")
  BY <1>3, <1>5, <1>6 DEF AllRunning
<1> QED
  BY <1>2, <1>7, <1>8, <1>9, <1>10

\* What two sequences say, one after the other.
LEMMA ConcatSays ==
  ASSUME NEW S, NEW s \in Seq(S), NEW u \in Seq(S), NEW t
  PROVE  /\ s \o u \in Seq(S)
         /\ Mentions(s, t) \/ Mentions(u, t) => Mentions(s \o u, t)
         /\ AllRunning(s, t) /\ AllRunning(u, t) => AllRunning(s \o u, t)
<1>1. Len(s) \in Nat /\ Len(u) \in Nat
  BY LenProperties
<1>2. PICK v : v = s \o u
  OBVIOUS
<1>3. /\ v \in Seq(S) /\ Len(v) = Len(s) + Len(u)
      /\ \A i \in 1..Len(s) + Len(u) : v[i] = IF i <= Len(s) THEN s[i] ELSE u[i - Len(s)]
  BY <1>2, ConcatProperties
<1>4. \A i \in 1..Len(s) : i \in 1..Len(v) /\ v[i] = s[i]
  BY <1>1, <1>3
<1>5. \A i \in 1..Len(u) : i + Len(s) \in 1..Len(v) /\ v[i + Len(s)] = u[i]
  <2> SUFFICES ASSUME NEW i \in 1..Len(u)
               PROVE  i + Len(s) \in 1..Len(v) /\ v[i + Len(s)] = u[i]
    OBVIOUS
  <2>1. i + Len(s) \in 1..(Len(s) + Len(u)) /\ ~(i + Len(s) <= Len(s)) /\ (i + Len(s)) - Len(s) = i
    BY <1>1
  <2> QED
    BY <1>3, <2>1
<1>6. \A i \in 1..Len(v) : \/ i \in 1..Len(s) /\ v[i] = s[i]
                           \/ i - Len(s) \in 1..Len(u) /\ v[i] = u[i - Len(s)]
  BY <1>1, <1>3
<1>7. Mentions(s, t) \/ Mentions(u, t) => Mentions(v, t)
  BY <1>4, <1>5 DEF Mentions
<1>8. AllRunning(s, t) /\ AllRunning(u, t) => AllRunning(v, t)
  <2> SUFFICES ASSUME AllRunning(s, t), AllRunning(u, t), NEW i \in 1..Len(v), v[i].task = t
               PROVE  v[i].pub.state = "running"
    BY DEF AllRunning
  <2>1. CASE i \in 1..Len(s) /\ v[i] = s[i]
    BY <2>1 DEF AllRunning
  <2>2. CASE i - Len(s) \in 1..Len(u) /\ v[i] = u[i - Len(s)]
    <3>1. PICK k \in 1..Len(u) : v[i] = u[k]
      BY <2>2
    <3> QED
      BY <3>1 DEF AllRunning
  <2> QED
    BY <1>6, <2>1, <2>2
<1> QED
  BY <1>2, <1>3, <1>7, <1>8

\* The listing of a finite set has all its elements and no others.
LEMMA SetToSeqLists ==
  ASSUME NEW S, IsFiniteSet(S)
  PROVE  /\ SetToSeq(S) \in Seq(S)
         /\ \A x \in S : \E i \in 1..Len(SetToSeq(S)) : SetToSeq(S)[i] = x
<1> DEFINE n == Cardinality(S)
<1>1. n \in Nat /\ ExistsBijection(1..n, S)
  BY FS_CardinalityType
<1>2. \E f \in [1..n -> S] : IsInjective(f)
  BY <1>1 DEF ExistsBijection, Bijection, Injection
<1>3. PICK f \in [1..n -> S] : f = SetToSeq(S) /\ IsInjective(f)
  BY <1>2 DEF SetToSeq
<1>4. f \in Injection(1..n, S)
  BY <1>3 DEF Injection
<1>5. IsFiniteSet(1..n) /\ Cardinality(1..n) = n
  BY <1>1, FS_Interval
<1>6. f \in Surjection(1..n, S)
  BY <1>4, <1>5, FS_Injection
<1>7. f \in Seq(S) /\ Len(f) = n
  BY <1>1, <1>3, SeqDef, LenProperties
<1>8. \A x \in S : \E i \in 1..n : f[i] = x
  BY <1>6 DEF Surjection
<1> QED
  BY <1>3, <1>7, <1>8

--------------------------------------------------------------------------------
(* The registry, watched by a page.                                          *)

\* A step of the whole is a step of the registry, or the page's handler throws
\* away a channel that Close has closed.
LEMMA RegistryMoves ==
  ASSUME [StreamNext]_<<vars, streamVars>>
  PROVE  \/ [Next]_vars
         \/ /\ UNCHANGED <<registryVars, subs, lossy>>
            /\ queue' = [queue EXCEPT ![Sub] = <<>>]
<1>1. CASE ManagerStep
  BY <1>1 DEF ManagerStep, Next
<1>2. CASE PageStep
  <2>1. ASSUME NEW f \in Fetches, Open(f) PROVE Next
    BY <2>1, StreamAssumption DEF Open, Next, SubscriberStep
  <2>2. CASE Forward
    BY <2>2, StreamAssumption DEF Forward, Next, SubscriberStep
  <2>3. CASE Disconnect
    BY <2>3, StreamAssumption DEF Disconnect, Next, SubscriberStep
  <2> QED
    BY <1>2, <2>1, <2>2, <2>3 DEF PageStep, Mount, ListTasks, seedActiveTasks, FetchFails, Seed, applyEvent
<1> QED
  BY <1>1, <1>2 DEF StreamNext

\* The registry's invariants hold with a page as they do without one, and the
\* registry is finite.
LEMMA RegistryStep ==
  ASSUME RegistryInv, [StreamNext]_<<vars, streamVars>>
  PROVE  RegistryInv'
<1>1. CASE [Next]_vars
  <2>1. TypeOK' /\ PlaceInv' /\ AcceptedCancelWins'
    BY <1>1, TypeStep, PlaceStep DEF RegistryInv
  <2>2. tasks' \subseteq tasks \/ \E t \in Tasks : tasks' = tasks \cup {t}
    <3>1. ASSUME NEW t \in Tasks, RunStep(t) \/ CancelStep(t) \/ RetentionElapses(t)
          PROVE  tasks' = tasks \/ tasks' = tasks \cup {t}
      BY <3>1 DEF RunStep, Start, AnnounceStart, UpdateMessage, AnnounceUpdate, RunReturns, Finish,
           AnnounceEnd, CancelStep, AcceptCancel, CancelCtx, OnCancelReturns, RetentionElapses
    <3>2. ASSUME NEW s \in Subs, SubscriberStep(s) PROVE tasks' = tasks
      BY <3>2 DEF SubscriberStep, Subscribe, Receive, Unsubscribe, registryVars
    <3>3. CASE gcOnce \/ CloseManager \/ UNCHANGED vars
      BY <3>3 DEF gcOnce, CloseManager, vars, registryVars
    <3> QED
      BY <1>1, <3>1, <3>2, <3>3 DEF Next
  <2>3. IsFiniteSet(tasks')
    BY <2>2, FS_Subset, FS_AddElement DEF RegistryInv
  <2> QED
    BY <2>1, <2>3 DEF RegistryInv
<1>2. CASE UNCHANGED <<registryVars, subs, lossy>> /\ queue' = [queue EXCEPT ![Sub] = <<>>]
  <2>1. <<>> \in Seq(Event) /\ Len(<<>>) = 0
    BY EmptySeq
  <2>2. /\ queue \in [Subs -> Seq(Event)] /\ \A s \in Subs : Len(queue[s]) <= SubscriberBuffer
        /\ queue' \in [Subs -> Seq(Event)]
        /\ \A s \in Subs : queue'[s] = queue[s] \/ queue'[s] = <<>>
    BY <1>2, <2>1 DEF RegistryInv, TypeOK
  <2>3. TypeOK'
    BY <1>2, <2>1, <2>2, BufferAssumption DEF RegistryInv, TypeOK, registryVars
  <2>4. PlaceInv' /\ AcceptedCancelWins'
    BY <1>2 DEF RegistryInv, PlaceInv, AcceptedCancelWins, registryVars
  <2> QED
    BY <1>2, <2>3, <2>4 DEF RegistryInv, registryVars
<1> QED
  BY <1>1, <1>2, RegistryMoves

\* The parts of the invariant that a step of the page or of the registry has
\* to keep.
PageInv == QueueInv /\ OpenInv /\ FreshInv /\ ListedInv /\ ToldInv /\ StreamComplete

\* Announced, in the words of this module.
LEMMA AnnouncedMeans ==
  ASSUME TypeOK, NEW t
  PROVE  Announced(t) <=> ~Pending(t) /\ ~Mentions(queue[Sub], t)
<1>1. queue[Sub] \in Seq(Event)
  BY StreamAssumption DEF TypeOK
<1>2. DOMAIN queue[Sub] = 1..Len(queue[Sub])
  BY <1>1, LenProperties
<1> QED
  BY <1>2 DEF Announced, Pending, Mentions

\* A goroutine changes its task's record and has it still to announce, or goes
\* on without touching the record.
LEMMA RecordMoves ==
  ASSUME StreamInv, TypeOK', NEW t \in Tasks, Silent, UNCHANGED streamVars,
         \A u \in Tasks \ {t} : pub'[u] = pub[u] /\ run'[u] = run[u],
         \/ run'[t] \in {"registered", "updating", "ending"}
         \/ pub'[t] = pub[t] /\ ~Pending(t),
         pub'[t].state \in {"none", "running"} => pub[t].state \in {"none", "running"}
  PROVE  PageInv'
<1>1. /\ QueueInv /\ OpenInv /\ FreshInv /\ ListedInv /\ ToldInv /\ StreamComplete
      /\ TypeOK /\ Mine \subseteq Tasks
  BY StreamAssumption DEF StreamInv, StreamTypeOK
<1>2. /\ subs' = subs /\ queue' = queue /\ lossy' = lossy
      /\ conn' = conn /\ wire' = wire /\ sent' = sent /\ fetch' = fetch /\ view' = view
  BY DEF Silent, streamVars
<1>3. ASSUME NEW u \in Tasks, ~Pending(u)' PROVE ~Pending(u) /\ pub'[u] = pub[u]
  BY <1>3 DEF Pending
<1>4. QueueInv'
  BY <1>1, <1>2, <1>3 DEF QueueInv, LastIs
<1>5. FreshInv'
  BY <1>1, <1>2 DEF FreshInv, NotEnded, AllRunning
<1>6. OpenInv' /\ ListedInv' /\ ToldInv'
  BY <1>1, <1>2 DEF OpenInv, ListedInv, ToldInv, Mentions
<1>7. StreamComplete'
  <2> SUFFICES ASSUME conn' = "streaming", Sub \in subs' \ lossy', NEW u \in Mine, Announced(u)'
               PROVE  /\ sent'[u] # Unknown => sent'[u] = pub'[u]
                      /\ pub'[u].state = "running" => sent'[u] = pub'[u]
    BY DEF StreamComplete
  <2>1. ~Pending(u)' /\ ~Mentions(queue[Sub], u)
    BY <1>2, AnnouncedMeans DEF Announced, Pending, Mentions
  <2>2. Announced(u) /\ pub'[u] = pub[u]
    BY <1>1, <1>3, <2>1, AnnouncedMeans
  <2> QED
    BY <1>1, <1>2, <2>2 DEF StreamComplete
<1> QED
  BY <1>4, <1>5, <1>6, <1>7 DEF PageInv

\* A goroutine announces its task's record: if the page's channel has room, it
\* is the last event there about the task; if not, the page has lost one.
LEMMA AnnouncementMoves ==
  ASSUME StreamInv, TypeOK', NEW t \in Tasks, NEW type \in {"started", "updated", "ended"},
         Broadcast(type, t), UNCHANGED <<pub, streamVars>>,
         \A u \in Tasks \ {t} : run'[u] = run[u],
         pub[t].state # "none"
  PROVE  PageInv'
<1>1. /\ QueueInv /\ OpenInv /\ FreshInv /\ ListedInv /\ ToldInv /\ StreamComplete
      /\ TypeOK /\ Mine \subseteq Tasks /\ Sub \in Subs /\ queue[Sub] \in Seq(Event)
  BY StreamAssumption DEF StreamInv, StreamTypeOK, TypeOK
<1>2. /\ subs' = subs /\ pub' = pub
      /\ conn' = conn /\ wire' = wire /\ sent' = sent /\ fetch' = fetch /\ view' = view
  BY DEF Broadcast, streamVars
<1>3. PICK ev \in Event : ev = [type |-> type, task |-> t, pub |-> pub[t]] /\ ev.task = t /\ ev.pub = pub[t]
  <2>1. [type |-> type, task |-> t, pub |-> pub[t]] \in Event
    BY <1>1 DEF TypeOK, Event
  <2> QED
    BY <2>1
<1>4. queue'[Sub] = IF Sub \in subs /\ ~Full(Sub) THEN Append(queue[Sub], ev) ELSE queue[Sub]
  BY <1>1, <1>3 DEF Broadcast
<1>5. Sub \in subs' \ lossy' => Sub \in subs \ lossy /\ queue'[Sub] = Append(queue[Sub], ev)
  BY <1>1, <1>4 DEF Broadcast
<1>6. /\ \A u : Mentions(Append(queue[Sub], ev), u) <=> ev.task = u \/ Mentions(queue[Sub], u)
      /\ \A u, q : (IF ev.task = u THEN ev.pub = q ELSE LastIs(queue[Sub], u, q))
                    => LastIs(Append(queue[Sub], ev), u, q)
  BY <1>1, <1>3, AppendSays
<1>7. QueueInv'
  <2> SUFFICES ASSUME Sub \in subs' \ lossy', NEW u \in Tasks, ~Pending(u)'
               PROVE  LastIs(queue'[Sub], u, pub'[u])
    BY DEF QueueInv, LastIs
  <2>1. CASE u = t
    BY <1>2, <1>3, <1>5, <1>6, <2>1
  <2>2. CASE u # t
    <3>1. LastIs(queue[Sub], u, pub[u])
      BY <1>1, <1>5, <2>2 DEF QueueInv, Pending
    <3> QED
      BY <1>2, <1>3, <1>5, <1>6, <2>2, <3>1
  <2> QED
    BY <2>1, <2>2
<1>8. FreshInv'
  <2> SUFFICES ASSUME NEW u \in Tasks, pub[u].state \in {"none", "running"}
               PROVE  /\ view[u].state \in {"unknown", "running"}
                      /\ AllRunning(wire, u) /\ AllRunning(queue'[Sub], u)
    BY <1>2 DEF FreshInv, NotEnded, AllRunning
  <2>1. NotEnded(u)
    BY <1>1 DEF FreshInv
  <2>2. ev.task = u => ev.pub.state = "running"
    BY <1>3
  <2>3. AllRunning(Append(queue[Sub], ev), u)
    BY <1>1, <2>1, <2>2, AppendSays DEF NotEnded
  <2> QED
    BY <1>4, <2>1, <2>3 DEF NotEnded
<1>9. OpenInv' /\ ListedInv' /\ ToldInv'
  BY <1>1, <1>2 DEF OpenInv, ListedInv, ToldInv, Mentions
<1>10. StreamComplete'
  <2> SUFFICES ASSUME conn' = "streaming", Sub \in subs' \ lossy', NEW u \in Mine, Announced(u)'
               PROVE  /\ sent'[u] # Unknown => sent'[u] = pub'[u]
                      /\ pub'[u].state = "running" => sent'[u] = pub'[u]
    BY DEF StreamComplete
  <2>1. ~Pending(u)' /\ ~Mentions(queue'[Sub], u)
    <3>1. DOMAIN queue'[Sub] = 1..Len(queue'[Sub])
      BY <1>1, LenProperties DEF TypeOK
    <3> QED
      BY <3>1 DEF Announced, Pending, Mentions
  <2>2. u # t /\ ~Mentions(queue[Sub], u)
    BY <1>3, <1>5, <1>6, <2>1
  <2>3. Announced(u)
    BY <1>1, <2>1, <2>2, AnnouncedMeans DEF Pending
  <2> QED
    BY <1>1, <1>2, <1>5, <2>3 DEF StreamComplete
<1> QED
  BY <1>7, <1>8, <1>9, <1>10 DEF PageInv

\* A step that touches neither records nor the page; Close takes the subscriber
\* away.
LEMMA OtherMoves ==
  ASSUME StreamInv, UNCHANGED <<pub, run, queue, lossy, streamVars>>, subs' \subseteq subs
  PROVE  PageInv'
<1>1. /\ QueueInv /\ OpenInv /\ FreshInv /\ ListedInv /\ ToldInv /\ StreamComplete
      /\ pub' = pub /\ run' = run /\ queue' = queue /\ lossy' = lossy
      /\ conn' = conn /\ wire' = wire /\ sent' = sent /\ fetch' = fetch /\ view' = view
  BY DEF StreamInv, streamVars
<1>2. QueueInv' /\ OpenInv' /\ FreshInv' /\ ListedInv' /\ ToldInv'
  BY <1>1 DEF QueueInv, OpenInv, FreshInv, ListedInv, ToldInv, Pending, LastIs, NotEnded, AllRunning, Mentions
<1>3. StreamComplete'
  BY <1>1 DEF StreamComplete, Announced
<1> QED
  BY <1>2, <1>3 DEF PageInv

\* The registry's steps.
LEMMA ManagerKeeps ==
  ASSUME StreamInv, TypeOK', ManagerStep
  PROVE  PageInv'
<1>1. /\ TypeOK /\ PlaceInv /\ UNCHANGED streamVars
      /\ pub \in [Tasks -> PubRecords] /\ run \in [Tasks -> RunSteps]
  BY DEF StreamInv, RegistryInv, ManagerStep, TypeOK
<1>2. ASSUME NEW t \in Tasks, RunStep(t) PROVE PageInv'
  <2>1. ASSUME NEW c \in BOOLEAN, Start(t, c) PROVE PageInv'
    <3>1. pub[t].state = "none"
      BY <1>1, <2>1 DEF Start, PlaceInv
    <3> QED
      BY <1>1, <2>1, <3>1, RecordMoves DEF Start
  <2>2. ASSUME NEW m \in Messages, UpdateMessage(t, m) PROVE PageInv'
    BY <1>1, <2>2, RecordMoves DEF UpdateMessage
  <2>3. ASSUME NEW f \in BOOLEAN, RunReturns(t, f) PROVE PageInv'
    BY <1>1, <2>3, RecordMoves DEF RunReturns, Pending
  <2>4. CASE Finish(t)
    <3>1. t \in tasks /\ pub[t].state = "running"
      BY <1>1, <2>4 DEF Finish, PlaceInv
    <3> QED
      BY <1>1, <2>4, <3>1, RecordMoves DEF Finish
  <2>5. CASE AnnounceStart(t)
    <3>1. pub[t].state # "none"
      BY <1>1, <2>5 DEF AnnounceStart, PlaceInv
    <3> QED
      BY <1>1, <2>5, <3>1, AnnouncementMoves DEF AnnounceStart
  <2>6. CASE AnnounceUpdate(t)
    <3>1. pub[t].state # "none"
      BY <1>1, <2>6 DEF AnnounceUpdate, PlaceInv
    <3> QED
      BY <1>1, <2>6, <3>1, AnnouncementMoves DEF AnnounceUpdate
  <2>7. CASE AnnounceEnd(t)
    <3>1. pub[t].state # "none"
      BY <1>1, <2>7 DEF AnnounceEnd, PlaceInv, TerminalStates
    <3> QED
      BY <1>1, <2>7, <3>1, AnnouncementMoves DEF AnnounceEnd
  <2> QED
    BY <1>2, <2>1, <2>2, <2>3, <2>4, <2>5, <2>6, <2>7 DEF RunStep
<1>3. ASSUME NEW t \in Tasks, CancelStep(t) \/ RetentionElapses(t) PROVE PageInv'
  BY <1>1, <1>3, OtherMoves DEF CancelStep, AcceptCancel, CancelCtx, OnCancelReturns, RetentionElapses, Silent
<1>4. CASE gcOnce
  BY <1>1, <1>4, OtherMoves DEF gcOnce, Silent
<1>5. CASE CloseManager
  BY <1>1, <1>5, OtherMoves DEF CloseManager
<1> QED
  BY <1>2, <1>3, <1>4, <1>5 DEF ManagerStep

--------------------------------------------------------------------------------
(* The page.                                                                 *)

\* A request of the page that changes no more than its slot.
LEMMA SlotMoves ==
  ASSUME StreamInv, NEW f \in Fetches, UNCHANGED <<vars, conn, wire, sent, view>>, ListedInv'
  PROVE  PageInv'
<1>1. /\ QueueInv /\ OpenInv /\ FreshInv /\ ToldInv /\ StreamComplete
      /\ pub' = pub /\ run' = run /\ queue' = queue /\ lossy' = lossy /\ subs' = subs
      /\ conn' = conn /\ wire' = wire /\ sent' = sent /\ view' = view
  BY DEF StreamInv, vars, registryVars
<1>2. QueueInv' /\ OpenInv' /\ FreshInv' /\ ToldInv'
  BY <1>1 DEF QueueInv, OpenInv, FreshInv, ToldInv, Pending, LastIs, NotEnded, AllRunning, Mentions
<1>3. StreamComplete'
  BY <1>1 DEF StreamComplete, Announced
<1> QED
  BY <1>2, <1>3 DEF PageInv

\* What a listing answers: the records of running tasks.
LEMMA SnapshotsType ==
  ASSUME TypeOK, IsFiniteSet(tasks)
  PROVE  /\ Snapshots \in SUBSET News /\ \A a \in Snapshots : a.pub.state = "running"
         /\ IsFiniteSet(Snapshots)
         /\ \A t \in ActiveTasks : \E a \in Snapshots : a.task = t
<1>1. /\ \A t \in ActiveTasks : t \in Mine /\ pub[t] \in PubRecords /\ pub[t].state = "running"
      /\ ActiveTasks \subseteq tasks
  BY StreamAssumption DEF ActiveTasks, TypeOK
<1>2. Snapshots \in SUBSET News /\ \A a \in Snapshots : a.pub.state = "running"
  BY <1>1 DEF Snapshots, News
<1>3. \A t \in ActiveTasks : \E a \in Snapshots : a.task = t
  <2> SUFFICES ASSUME NEW t \in ActiveTasks PROVE \E a \in Snapshots : a.task = t
    OBVIOUS
  <2>1. [task |-> t, pub |-> pub[t]] \in Snapshots /\ [task |-> t, pub |-> pub[t]].task = t
    BY DEF Snapshots
  <2> QED
    BY <2>1
<1>4. IsFiniteSet(ActiveTasks)
  BY <1>1, FS_Subset
<1>5. [t \in ActiveTasks |-> [task |-> t, pub |-> pub[t]]] \in Surjection(ActiveTasks, Snapshots)
  BY DEF Surjection, Snapshots
<1>6. IsFiniteSet(Snapshots)
  BY <1>4, <1>5, FS_Surjection
<1> QED
  BY <1>2, <1>3, <1>6

\* Seed: the page is told of every running task.
LEMMA SeedKeeps ==
  ASSUME StreamInv, Seed
  PROVE  PageInv' /\ wire' \in Seq(News)
<1>1. /\ QueueInv /\ OpenInv /\ FreshInv /\ ListedInv
      /\ TypeOK /\ PlaceInv /\ IsFiniteSet(tasks) /\ Mine \subseteq Tasks
      /\ wire \in Seq(News) /\ conn = "opening"
  BY StreamAssumption DEF StreamInv, RegistryInv, StreamTypeOK, Seed
<1>2. /\ pub' = pub /\ run' = run /\ queue' = queue /\ lossy' = lossy /\ subs' = subs
      /\ conn' = "streaming" /\ fetch' = fetch /\ view' = view
      /\ \A t \in Tasks : sent'[t] = IF t \in ActiveTasks THEN pub[t] ELSE Unknown
  BY <1>1 DEF Seed, OpenInv, vars, registryVars
<1>3. PICK u : u = SetToSeq(Snapshots)
  OBVIOUS
<1>4. /\ u \in Seq(Snapshots)
      /\ \A a \in Snapshots : \E i \in 1..Len(u) : u[i] = a
  BY <1>1, <1>3, SnapshotsType, SetToSeqLists
<1>5. \A i \in 1..Len(u) : u[i] \in Snapshots
  BY <1>4, ElementOfSeq
<1>6. u \in Seq(News) /\ wire' = wire \o u
  <2>1. u \in Seq(News)
    BY <1>1, <1>4, SnapshotsType, SeqDef
  <2> QED
    BY <1>3, <2>1 DEF Seed
<1>7. \A t : AllRunning(u, t)
  BY <1>1, <1>5, SnapshotsType DEF AllRunning
<1>8. \A t \in ActiveTasks : Mentions(u, t)
  BY <1>1, <1>4, SnapshotsType DEF Mentions
<1>9. /\ wire' \in Seq(News)
      /\ \A t : AllRunning(wire, t) => AllRunning(wire', t)
      /\ \A t \in ActiveTasks : Mentions(wire', t)
  BY <1>1, <1>6, <1>7, <1>8, ConcatSays
<1>10. QueueInv' /\ OpenInv' /\ ListedInv'
  BY <1>1, <1>2 DEF QueueInv, OpenInv, ListedInv, Pending, LastIs
<1>11. FreshInv'
  <2> SUFFICES ASSUME NEW t \in Tasks, pub[t].state \in {"none", "running"}
               PROVE  /\ view[t].state \in {"unknown", "running"}
                      /\ AllRunning(wire', t) /\ AllRunning(queue[Sub], t)
    BY <1>2 DEF FreshInv, NotEnded, AllRunning
  <2> QED
    BY <1>1, <1>9 DEF FreshInv, NotEnded
<1>12. ToldInv'
  BY <1>1, <1>2, <1>9 DEF ToldInv, Mentions
<1>13. StreamComplete'
  <2> SUFFICES ASSUME NEW t \in Mine
               PROVE  /\ sent'[t] # Unknown => sent'[t] = pub'[t]
                      /\ pub'[t].state = "running" => sent'[t] = pub'[t]
    BY DEF StreamComplete
  <2>1. pub[t].state = "running" => t \in ActiveTasks
    <3>1. pub[t].state = "running" => t \in tasks
      BY <1>1 DEF PlaceInv, TypeOK, RunSteps, TerminalStates
    <3> QED
      BY <3>1 DEF ActiveTasks
  <2> QED
    BY <1>1, <1>2, <2>1
<1> QED
  BY <1>9, <1>10, <1>11, <1>12, <1>13 DEF PageInv

\* Forward: the event leaves the channel for the wire, or is nobody's business.
LEMMA ForwardKeeps ==
  ASSUME StreamInv, TypeOK', Forward
  PROVE  PageInv' /\ wire' \in Seq(News) /\ sent' \in [Tasks -> Seen]
<1>1. /\ QueueInv /\ FreshInv /\ ListedInv /\ ToldInv /\ StreamComplete
      /\ TypeOK /\ Mine \subseteq Tasks /\ Sub \in Subs
      /\ wire \in Seq(News) /\ sent \in [Tasks -> Seen] /\ conn = "streaming"
      /\ queue[Sub] \in Seq(Event) /\ queue[Sub] # <<>>
  BY StreamAssumption DEF StreamInv, StreamTypeOK, TypeOK, Forward, Receive
<1>2. /\ pub' = pub /\ run' = run /\ lossy' = lossy /\ subs' = subs
      /\ conn' = conn /\ fetch' = fetch /\ view' = view
      /\ queue'[Sub] = Tail(queue[Sub])
  BY <1>1 DEF Forward, Receive, TypeOK, registryVars
<1>3. PICK ev \in Event : ev = Head(queue[Sub])
  BY <1>1, HeadTailProperties
<1>4. PICK n : n = [task |-> ev.task, pub |-> ev.pub]
  OBVIOUS
<1>5. ev.task \in Tasks /\ ev.pub \in PubRecords /\ n.task = ev.task /\ n.pub = ev.pub
  BY <1>4 DEF Event
<1>6. /\ \A t : Mentions(queue[Sub], t) <=> ev.task = t \/ Mentions(queue'[Sub], t)
      /\ \A t, q : LastIs(queue[Sub], t, q) => LastIs(queue'[Sub], t, q)
      /\ \A t, q : LastIs(queue[Sub], t, q) /\ ev.task = t /\ ~Mentions(queue'[Sub], t) => ev.pub = q
      /\ \A t : AllRunning(queue[Sub], t) =>
                AllRunning(queue'[Sub], t) /\ (ev.task = t => ev.pub.state = "running")
  <2>1. PICK q : q = queue[Sub]
    OBVIOUS
  <2>2. q \in Seq(Event) /\ q # <<>> /\ ev = Head(q) /\ queue'[Sub] = Tail(q)
    BY <1>1, <1>2, <1>3, <2>1
  <2>3. /\ \A t : Mentions(q, t) <=> Head(q).task = t \/ Mentions(Tail(q), t)
        /\ \A t, r : LastIs(q, t, r) => LastIs(Tail(q), t, r)
        /\ \A t, r : LastIs(q, t, r) /\ Head(q).task = t /\ ~Mentions(Tail(q), t) => Head(q).pub = r
        /\ \A t : AllRunning(q, t) =>
                  AllRunning(Tail(q), t) /\ (Head(q).task = t => Head(q).pub.state = "running")
    BY <2>2, TailSays
  <2> QED
    BY <2>1, <2>2, <2>3
<1>7. /\ wire' = IF ev.task \in Mine THEN Append(wire, n) ELSE wire
      /\ sent' = IF ev.task \in Mine THEN [sent EXCEPT ![ev.task] = ev.pub] ELSE sent
  BY <1>3, <1>4 DEF Forward
<1>8. sent' \in [Tasks -> Seen]
  BY <1>1, <1>5, <1>7 DEF Seen
<1>9. ev.task \in Mine => n \in News
  BY <1>4, <1>5 DEF News
<1>10. /\ wire' \in Seq(News)
       /\ \A t : Mentions(wire, t) => Mentions(wire', t)
       /\ ev.task \in Mine => Mentions(wire', ev.task)
       /\ \A t : AllRunning(wire, t) /\ (ev.task = t => ev.pub.state = "running") => AllRunning(wire', t)
  <2>1. CASE ev.task \in Mine
    <3>1. wire' = Append(wire, n) /\ n \in News
      BY <1>7, <1>9, <2>1
    <3>2. /\ Append(wire, n) \in Seq(News)
          /\ \A t : Mentions(Append(wire, n), t) <=> n.task = t \/ Mentions(wire, t)
          /\ \A t : AllRunning(wire, t) /\ (n.task = t => n.pub.state = "running")
                       => AllRunning(Append(wire, n), t)
      BY <1>1, <3>1, AppendSays, AppendProperties
    <3> QED
      BY <1>5, <3>1, <3>2
  <2>2. CASE ev.task \notin Mine
    BY <1>1, <1>7, <2>2
  <2> QED
    BY <2>1, <2>2
<1>11. QueueInv'
  <2> SUFFICES ASSUME Sub \in subs \ lossy, NEW t \in Tasks, ~Pending(t)
               PROVE  LastIs(queue'[Sub], t, pub[t])
    BY <1>2 DEF QueueInv, LastIs, Pending
  <2> QED
    BY <1>1, <1>6 DEF QueueInv
<1>12. OpenInv' /\ ListedInv'
  BY <1>1, <1>2 DEF OpenInv, ListedInv
<1>13. FreshInv'
  <2> SUFFICES ASSUME NEW t \in Tasks, pub[t].state \in {"none", "running"}
               PROVE  /\ view[t].state \in {"unknown", "running"}
                      /\ AllRunning(wire', t) /\ AllRunning(queue'[Sub], t)
    BY <1>2 DEF FreshInv, NotEnded, AllRunning
  <2>1. NotEnded(t)
    BY <1>1 DEF FreshInv
  <2> QED
    BY <1>6, <1>10, <2>1 DEF NotEnded
<1>14. ToldInv'
  <2> SUFFICES ASSUME NEW t \in Mine, sent'[t] # Unknown
               PROVE  view[t].state # "unknown" \/ Mentions(wire', t)
    BY <1>2 DEF ToldInv, Mentions
  <2>1. CASE t = ev.task
    BY <1>10, <2>1
  <2>2. CASE t # ev.task
    <3>1. sent'[t] = sent[t]
      BY <1>1, <1>7, <2>2
    <3> QED
      BY <1>1, <1>10, <3>1 DEF ToldInv
  <2> QED
    BY <2>1, <2>2
<1>15. StreamComplete'
  <2> SUFFICES ASSUME Sub \in subs \ lossy, NEW t \in Mine, Announced(t)'
               PROVE  /\ sent'[t] # Unknown => sent'[t] = pub[t]
                      /\ pub[t].state = "running" => sent'[t] = pub[t]
    BY <1>2 DEF StreamComplete
  <2>1. ~Pending(t) /\ ~Mentions(queue'[Sub], t)
    <3>1. DOMAIN queue'[Sub] = 1..Len(queue'[Sub])
      BY <1>1, LenProperties DEF TypeOK
    <3> QED
      BY <1>2, <3>1 DEF Announced, Pending, Mentions
  <2>2. CASE t = ev.task
    <3>1. ev.pub = pub[t]
      BY <1>1, <1>6, <2>1, <2>2 DEF QueueInv
    <3> QED
      BY <1>1, <1>7, <2>2, <3>1
  <2>3. CASE t # ev.task
    <3>1. sent'[t] = sent[t]
      BY <1>1, <1>7, <2>3
    <3>2. Announced(t)
      BY <1>1, <1>6, <2>1, <2>3, AnnouncedMeans
    <3> QED
      BY <1>1, <3>1, <3>2 DEF StreamComplete
  <2> QED
    BY <2>2, <2>3
<1> QED
  BY <1>8, <1>10, <1>11, <1>12, <1>13, <1>14, <1>15 DEF PageInv

\* applyEvent: what was on the wire is known.
LEMMA ApplyKeeps ==
  ASSUME StreamInv, applyEvent
  PROVE  /\ PageInv' /\ wire' \in Seq(News) /\ view' \in [Tasks -> Seen]
         /\ \A t \in Tasks \ Mine : view'[t] = Unknown
<1>1. /\ QueueInv /\ OpenInv /\ FreshInv /\ ListedInv /\ ToldInv /\ StreamComplete
      /\ Mine \subseteq Tasks /\ view \in [Tasks -> Seen] /\ \A t \in Tasks \ Mine : view[t] = Unknown
      /\ wire \in Seq(News) /\ wire # <<>>
  BY StreamAssumption DEF StreamInv, StreamTypeOK, applyEvent
<1>2. /\ pub' = pub /\ run' = run /\ queue' = queue /\ lossy' = lossy /\ subs' = subs
      /\ conn' = conn /\ sent' = sent /\ fetch' = fetch
      /\ wire' = Tail(wire) /\ view' = [view EXCEPT ![Head(wire).task] = Head(wire).pub]
  BY DEF applyEvent, vars, registryVars
<1>3. PICK n \in News : n = Head(wire)
  BY <1>1, HeadTailProperties
<1>4. n.task \in Mine /\ n.pub \in PubRecords /\ n.pub.state # "unknown"
  BY DEF News, PubRecords, TerminalStates
<1>5. wire' \in Seq(News)
  BY <1>1, <1>2, HeadTailProperties
<1>6. /\ \A t : Mentions(wire, t) <=> n.task = t \/ Mentions(wire', t)
      /\ \A t : AllRunning(wire, t) => AllRunning(wire', t) /\ (n.task = t => n.pub.state = "running")
  <2>1. /\ \A t : Mentions(wire, t) <=> Head(wire).task = t \/ Mentions(Tail(wire), t)
        /\ \A t : AllRunning(wire, t) =>
                  AllRunning(Tail(wire), t) /\ (Head(wire).task = t => Head(wire).pub.state = "running")
    BY <1>1, TailSays
  <2> QED
    BY <1>2, <1>3, <2>1
<1>7. /\ view' \in [Tasks -> Seen] /\ \A t \in Tasks \ Mine : view'[t] = Unknown
      /\ view'[n.task] = n.pub /\ \A t \in Tasks \ {n.task} : view'[t] = view[t]
  BY <1>1, <1>2, <1>3, <1>4 DEF Seen
<1>8. QueueInv' /\ OpenInv' /\ ListedInv'
  BY <1>1, <1>2 DEF QueueInv, OpenInv, ListedInv, Pending, LastIs
<1>9. FreshInv'
  <2> SUFFICES ASSUME NEW t \in Tasks, pub[t].state \in {"none", "running"}
               PROVE  /\ view'[t].state \in {"unknown", "running"}
                      /\ AllRunning(wire', t) /\ AllRunning(queue[Sub], t)
    BY <1>2 DEF FreshInv, NotEnded, AllRunning
  <2>1. NotEnded(t)
    BY <1>1 DEF FreshInv
  <2> QED
    BY <1>6, <1>7, <2>1 DEF NotEnded
<1>10. ToldInv'
  <2> SUFFICES ASSUME conn = "streaming", NEW t \in Mine, sent[t] # Unknown
               PROVE  view'[t].state # "unknown" \/ Mentions(wire', t)
    BY <1>2 DEF ToldInv, Mentions
  <2>1. view[t].state # "unknown" \/ Mentions(wire, t)
    BY <1>1 DEF ToldInv
  <2> QED
    BY <1>1, <1>4, <1>6, <1>7, <2>1
<1>11. StreamComplete'
  BY <1>1, <1>2 DEF StreamComplete, Announced
<1> QED
  BY <1>5, <1>7, <1>8, <1>9, <1>10, <1>11 DEF PageInv

\* seedActiveTasks: a late answer makes the page believe that tasks run, never
\* that they have ended.
LEMMA AnswerKeeps ==
  ASSUME StreamInv, NEW f \in Fetches, seedActiveTasks(f)
  PROVE  /\ PageInv' /\ view' \in [Tasks -> Seen]
         /\ \A t \in Tasks \ Mine : view'[t] = Unknown
<1>1. /\ QueueInv /\ OpenInv /\ FreshInv /\ ListedInv /\ ToldInv /\ StreamComplete
      /\ Mine \subseteq Tasks /\ view \in [Tasks -> Seen] /\ \A t \in Tasks \ Mine : view[t] = Unknown
      /\ fetch \in [Fetches -> [step : {"idle", "asked", "answered"}, active : SUBSET News]]
  BY StreamAssumption DEF StreamInv, StreamTypeOK
<1>2. /\ pub' = pub /\ run' = run /\ queue' = queue /\ lossy' = lossy /\ subs' = subs
      /\ conn' = conn /\ sent' = sent /\ wire' = wire
      /\ fetch' = [fetch EXCEPT ![f] = Idle]
  BY DEF seedActiveTasks, vars, registryVars
<1>3. PICK A \in SUBSET News : A = fetch[f].active
  BY <1>1
<1>4. \A a \in A : a.task \in Mine /\ a.pub \in PubRecords /\ a.pub.state = "running"
  BY <1>1, <1>3 DEF News, ListedInv
<1>5. ASSUME NEW t \in Tasks
      PROVE  \/ view'[t] = view[t]
             \/ t \in Mine /\ view'[t] \in PubRecords /\ view'[t].state = "running"
  <2>1. CASE \E a \in A : a.task = t
    <3>1. view'[t] = (CHOOSE a \in A : a.task = t).pub
      BY <1>3, <2>1 DEF seedActiveTasks
    <3>2. PICK a \in A : a = (CHOOSE b \in A : b.task = t) /\ a.task = t
      BY <2>1
    <3> QED
      BY <1>4, <3>1, <3>2
  <2>2. CASE ~ \E a \in A : a.task = t
    BY <1>3, <2>2 DEF seedActiveTasks
  <2> QED
    BY <2>1, <2>2
<1>6. view' \in [Tasks -> Seen] /\ \A t \in Tasks \ Mine : view'[t] = Unknown
  <2>1. \A t \in Tasks : view'[t] \in Seen
    BY <1>1, <1>5 DEF Seen
  <2>2. view' = [t \in Tasks |-> view'[t]]
    BY DEF seedActiveTasks
  <2> QED
    BY <1>1, <1>5, <2>1, <2>2
<1>7. ListedInv'
  <2>1. \A g \in Fetches : fetch'[g].active \subseteq fetch[g].active
    BY <1>1, <1>2 DEF Idle
  <2> QED
    BY <1>1, <2>1 DEF ListedInv
<1>8. QueueInv' /\ OpenInv'
  BY <1>1, <1>2 DEF QueueInv, OpenInv, Pending, LastIs
<1>9. FreshInv'
  BY <1>1, <1>2, <1>5 DEF FreshInv, NotEnded, AllRunning
<1>10. ToldInv'
  <2> SUFFICES ASSUME conn = "streaming", NEW t \in Mine, sent[t] # Unknown
               PROVE  view'[t].state # "unknown" \/ Mentions(wire, t)
    BY <1>2 DEF ToldInv, Mentions
  <2>1. view[t].state # "unknown" \/ Mentions(wire, t)
    BY <1>1 DEF ToldInv
  <2> QED
    BY <1>1, <1>5, <2>1
<1>11. StreamComplete'
  BY <1>1, <1>2 DEF StreamComplete, Announced
<1> QED
  BY <1>6, <1>7, <1>8, <1>9, <1>10, <1>11 DEF PageInv

\* Open and Disconnect: an empty channel, and nothing sent on this connection.
LEMMA ConnectionKeeps ==
  ASSUME StreamInv,
         \/ \E f \in Fetches : Open(f)
         \/ Disconnect
  PROVE  PageInv'
<1>1. /\ FreshInv /\ ListedInv /\ Sub \in Subs /\ queue \in [Subs -> Seq(Event)]
      /\ fetch \in [Fetches -> [step : {"idle", "asked", "answered"}, active : SUBSET News]]
  BY StreamAssumption DEF StreamInv, StreamTypeOK, TypeOK
<1>2. /\ pub' = pub /\ view' = view /\ queue'[Sub] = <<>>
      /\ wire' = wire \/ wire' = <<>>
      /\ conn' = "off" \/ (conn' = "opening" /\ \A t \in Tasks : sent'[t] = Unknown)
  BY <1>1 DEF Open, Subscribe, Disconnect, Unsubscribe, registryVars
<1>3. QueueInv'
  <2>1. \A t : LastIs(queue'[Sub], t, pub'[t])
    BY <1>2, EmptySays
  <2> QED
    BY <2>1 DEF QueueInv, LastIs
<1>4. OpenInv' /\ ToldInv' /\ StreamComplete'
  BY <1>2 DEF OpenInv, ToldInv, StreamComplete
<1>5. ListedInv'
  <2>1. \A g \in Fetches : fetch'[g].active \subseteq fetch[g].active
    BY <1>1 DEF Open, Ask, Disconnect
  <2> QED
    BY <1>1, <2>1 DEF ListedInv
<1>6. FreshInv'
  <2> SUFFICES ASSUME NEW t \in Tasks, pub[t].state \in {"none", "running"}
               PROVE  /\ view[t].state \in {"unknown", "running"}
                      /\ AllRunning(wire', t) /\ AllRunning(queue'[Sub], t)
    BY <1>2 DEF FreshInv, NotEnded, AllRunning
  <2>1. NotEnded(t)
    BY <1>1 DEF FreshInv
  <2> QED
    BY <1>2, <2>1, EmptySays DEF NotEnded
<1> QED
  BY <1>3, <1>4, <1>5, <1>6 DEF PageInv

\* The page's requests.
LEMMA RequestsKeep ==
  ASSUME StreamInv, NEW f \in Fetches, Mount(f) \/ ListTasks(f) \/ FetchFails(f)
  PROVE  PageInv'
<1>1. /\ ListedInv /\ TypeOK /\ IsFiniteSet(tasks)
      /\ fetch \in [Fetches -> [step : {"idle", "asked", "answered"}, active : SUBSET News]]
  BY DEF StreamInv, RegistryInv, StreamTypeOK
<1>2. ListedInv'
  <2>1. \A g \in Fetches : fetch'[g].active \subseteq fetch[g].active \cup Snapshots
    BY <1>1 DEF Mount, Ask, ListTasks, FetchFails, Idle
  <2> QED
    BY <1>1, <2>1, SnapshotsType DEF ListedInv
<1> QED
  BY <1>2, SlotMoves DEF Mount, ListTasks, FetchFails

\* The types of the page's state.
LEMMA StreamTypeStep ==
  ASSUME StreamInv, [StreamNext]_<<vars, streamVars>>, TypeOK'
  PROVE  StreamTypeOK'
<1>1. /\ StreamTypeOK /\ TypeOK /\ IsFiniteSet(tasks) /\ Mine \subseteq Tasks
      /\ fetch \in [Fetches -> [step : {"idle", "asked", "answered"}, active : SUBSET News]]
  BY StreamAssumption DEF StreamInv, RegistryInv, StreamTypeOK
<1>2. Idle \in [step : {"idle", "asked", "answered"}, active : SUBSET News] /\ <<>> \in Seq(News)
  BY EmptySeq DEF Idle
<1>3. ASSUME NEW f \in Fetches, Open(f) PROVE StreamTypeOK'
  <2>1. sent' \in [Tasks -> Seen]
    BY <1>3 DEF Open, Seen
  <2>2. fetch' \in [Fetches -> [step : {"idle", "asked", "answered"}, active : SUBSET News]]
    BY <1>1, <1>3 DEF Open, Ask
  <2> QED
    BY <1>1, <1>3, <2>1, <2>2 DEF Open, StreamTypeOK
<1>4. ASSUME NEW f \in Fetches, Mount(f) \/ FetchFails(f) PROVE StreamTypeOK'
  <2>1. fetch' \in [Fetches -> [step : {"idle", "asked", "answered"}, active : SUBSET News]]
    BY <1>1, <1>2, <1>4 DEF Mount, Ask, FetchFails
  <2> QED
    BY <1>1, <1>4, <2>1 DEF Mount, FetchFails, StreamTypeOK
<1>5. ASSUME NEW f \in Fetches, ListTasks(f) PROVE StreamTypeOK'
  <2>1. [step |-> "answered", active |-> Snapshots]
          \in [step : {"idle", "asked", "answered"}, active : SUBSET News]
    BY <1>1, SnapshotsType
  <2>2. fetch' \in [Fetches -> [step : {"idle", "asked", "answered"}, active : SUBSET News]]
    BY <1>1, <1>5, <2>1 DEF ListTasks
  <2> QED
    BY <1>1, <1>5, <2>2 DEF ListTasks, StreamTypeOK
<1>6. ASSUME NEW f \in Fetches, seedActiveTasks(f) PROVE StreamTypeOK'
  <2>1. fetch' \in [Fetches -> [step : {"idle", "asked", "answered"}, active : SUBSET News]]
    BY <1>1, <1>2, <1>6 DEF seedActiveTasks
  <2> QED
    BY <1>1, <1>6, <2>1, AnswerKeeps DEF seedActiveTasks, StreamTypeOK
<1>7. CASE Seed
  <2>1. sent' \in [Tasks -> Seen]
    BY <1>1, <1>7 DEF Seed, StreamTypeOK, TypeOK, Seen
  <2>2. wire' \in Seq(News)
    BY <1>7, SeedKeeps
  <2> QED
    BY <1>1, <1>7, <2>1, <2>2 DEF Seed, StreamTypeOK
<1>8. CASE Forward
  <2>1. wire' \in Seq(News) /\ sent' \in [Tasks -> Seen]
    BY <1>8, ForwardKeeps
  <2> QED
    BY <1>1, <1>8, <2>1 DEF Forward, StreamTypeOK
<1>9. CASE applyEvent
  BY <1>1, <1>9, ApplyKeeps DEF applyEvent, StreamTypeOK
<1>10. CASE Disconnect
  BY <1>1, <1>2, <1>10 DEF Disconnect, StreamTypeOK
<1>11. CASE ManagerStep \/ UNCHANGED <<vars, streamVars>>
  BY <1>1, <1>11 DEF ManagerStep, streamVars, StreamTypeOK
<1> QED
  BY <1>3, <1>4, <1>5, <1>6, <1>7, <1>8, <1>9, <1>10, <1>11 DEF StreamNext, PageStep

--------------------------------------------------------------------------------
(* The theorems.                                                             *)

\* The invariant holds at the start.
LEMMA StreamInitInv == StreamInit => StreamInv
<1> SUFFICES ASSUME StreamInit PROVE StreamInv
  OBVIOUS
<1>1. Init /\ conn = "off" /\ wire = <<>> /\ Sub \in Subs
      /\ sent = [t \in Tasks |-> Unknown] /\ view = [t \in Tasks |-> Unknown]
  BY StreamAssumption DEF StreamInit
<1>2. RegistryInv
  BY <1>1, TypeInit, PlaceInit, FS_EmptySet DEF RegistryInv, Init
<1>3. /\ fetch \in [Fetches -> [step : {"idle", "asked", "answered"}, active : SUBSET News]]
      /\ \A f \in Fetches : fetch[f].active = {}
  BY DEF StreamInit, Idle
<1>4. StreamTypeOK
  <2>1. <<>> \in Seq(News)
    BY EmptySeq
  <2> QED
    BY <1>1, <1>2, <1>3, <2>1 DEF RegistryInv, StreamTypeOK, Seen
<1>5. queue[Sub] = <<>> /\ subs = {}
  BY <1>1 DEF Init
<1>6. QueueInv /\ OpenInv /\ ListedInv /\ ToldInv /\ StreamComplete
  BY <1>1, <1>3, <1>5 DEF QueueInv, OpenInv, ListedInv, ToldInv, StreamComplete
<1>7. FreshInv
  BY <1>1, <1>5, EmptySays DEF FreshInv, NotEnded, Unknown
<1> QED
  BY <1>2, <1>4, <1>6, <1>7 DEF StreamInv

\* And always.
LEMMA StreamInvariant == StreamSpec => []StreamInv
<1>1. StreamInv /\ [StreamNext]_<<vars, streamVars>> => StreamInv'
  <2> SUFFICES ASSUME StreamInv, [StreamNext]_<<vars, streamVars>> PROVE StreamInv'
    OBVIOUS
  <2>1. RegistryInv' /\ TypeOK'
    BY RegistryStep DEF StreamInv, RegistryInv
  <2>2. StreamTypeOK'
    BY <2>1, StreamTypeStep
  <2>3. PageInv'
    <3>1. CASE ManagerStep
      BY <2>1, <3>1, ManagerKeeps
    <3>2. CASE PageStep
      BY <2>1, <3>2, ConnectionKeeps, RequestsKeep, AnswerKeeps, SeedKeeps, ForwardKeeps, ApplyKeeps
      DEF PageStep
    <3>3. CASE UNCHANGED <<vars, streamVars>>
      BY <3>3, OtherMoves DEF vars, registryVars
    <3> QED
      BY <3>1, <3>2, <3>3 DEF StreamNext
  <2> QED
    BY <2>1, <2>2, <2>3 DEF StreamInv, PageInv
<1> QED
  BY <1>1, StreamInitInv, PTL DEF StreamSpec

\* A connection that lost no event has told the page the truth: subscribing
\* before listing leaves no gap, whatever starts, changes or ends between the
\* two and whenever the registry's goroutines announce it.
THEOREM NoGapInStream == StreamSpec => []StreamComplete
<1>1. StreamInv => StreamComplete
  BY DEF StreamInv
<1> QED
  BY <1>1, StreamInvariant, PTL

\* A settled page shows every running task of its user as running, however its
\* listings, its events and its reconnections were interleaved.
THEOREM LiveWorkIsShown == StreamSpec => []RunningShown
<1>1. StreamInv => RunningShown
  <2> SUFFICES ASSUME StreamInv, Settled, NEW t \in Mine, pub[t].state = "running"
               PROVE  view[t].state = "running"
    BY DEF RunningShown
  <2>1. t \in Tasks /\ conn = "streaming" /\ Sub \in subs \ lossy /\ wire = <<>> /\ Announced(t)
    BY StreamAssumption DEF Settled
  <2>2. sent[t] = pub[t]
    BY <2>1 DEF StreamInv, StreamComplete
  <2>3. sent[t] # Unknown
    BY <2>2 DEF Unknown
  <2>4. view[t].state # "unknown"
    BY <2>1, <2>3, EmptySays DEF StreamInv, ToldInv
  <2> QED
    BY <2>1, <2>4 DEF StreamInv, FreshInv, NotEnded
<1> QED
  BY <1>1, StreamInvariant, PTL
================================================================================
