---------------------------- MODULE SSHManagerProofs ----------------------------
(****************************************************************************)
(* Theorems about SSHManager, for every number of callers, loops, closers,  *)
(* health checkers, clients, retries, faults and restarts.                  *)
(****************************************************************************)
EXTENDS SSHManager, TLAPS

\* What EntryHasLiveLoop rests on: an idle loop is neither cancelled nor manual,
\* so a loop that triggerReconnect starts afresh is not either.
LoopInv ==
  /\ EntryHasLiveLoop
  /\ \A g \in Loops : pc[g] = "idle" => g \notin cancelled \cup manual

\* Who holds which client. A client that Connect is setting up is known to
\* nobody else; one whose keepalive is about to be started has one starter; one
\* that is being closed has left the map; one whose keepalive gave up is dead.
HoldInv ==
  /\ \A p \in Procs : pc[p] \in {"handshake", "silent", "install"} =>
       /\ mine[p] \in Clients /\ mine[p] # conns
       /\ \A q \in Procs \ {p} : mine[q] # mine[p]
  /\ \A p \in Procs : pc[p] = "start" =>
       /\ mine[p] \in Clients /\ beat[mine[p]] \in {"new", "newStopped"}
       /\ \A q \in Procs \ {p} : pc[q] = "start" => mine[q] # mine[p]
  /\ \A p \in Procs : pc[p] = "closing" => mine[p] \in Clients /\ mine[p] # conns
  /\ \A c \in Clients : beat[c] \in {"lost", "report"} => c \notin open

--------------------------------------------------------------------------------
(* The initial states.                                                       *)

\* A new SSHManager satisfies every part of the invariant.
LEMMA SSHInitInv ==
  SSHInit => SSHTypeOK /\ LoopInv /\ HoldInv /\ Monitored /\ NoLeakedClient /\ PinnedKey
<1> SUFFICES ASSUME SSHInit
             PROVE  SSHTypeOK /\ LoopInv /\ HoldInv /\ Monitored /\ NoLeakedClient /\ PinnedKey
  OBVIOUS
<1> USE SSHAssumption DEF SSHInit, Procs
<1>1. authorized \in BOOLEAN /\ quitting \in BOOLEAN
  OBVIOUS
<1>2. SSHTypeOK
  BY <1>1 DEF SSHTypeOK, Keys, Labels
<1>3. LoopInv /\ HoldInv
  BY DEF LoopInv, EntryHasLiveLoop, HoldInv
<1>4. Monitored /\ NoLeakedClient /\ PinnedKey
  BY DEF Monitored, NoLeakedClient, PinnedKey
<1> QED
  BY <1>2, <1>3, <1>4

--------------------------------------------------------------------------------
(* Type correctness.                                                         *)

\* Every step keeps the types; the two flags have steps of their own.
LEMMA SSHTypeStep == SSHTypeOK /\ [SSHNext]_sshVars => SSHTypeOK'
<1> SUFFICES ASSUME SSHTypeOK, [SSHNext]_sshVars PROVE SSHTypeOK'
  OBVIOUS
<1> USE SSHAssumption DEF SSHTypeOK, Procs, Keys, Labels, mapVars, loopVars, hostVars, Goto, Hold, Fault
<1>1. ASSUME NEW p \in Callers \cup Loops, Connect(p)
      PROVE  SSHTypeOK'
  BY <1>1 DEF Connect, RateLimited, ClearExisting, Dial, DialFails, Handshake, HandshakeFails,
       PeerSilent, SilentEnds, Install, StartKeepalive, ConnectFailed, Unreferenced, hostKeyCallback, StopBeat,
       ConnectReturns
<1>2. ASSUME NEW p \in Loops \cup Closers \cup Checkers, Close(p)
      PROVE  SSHTypeOK'
  BY <1>2 DEF Close, TakeEntry, CloseClient, CloseReturns, StopBeat
<1>3. ASSUME NEW p \in Callers,
             EnsureConnected(p) \/ IsConnected(p) \/ GetConnection(p) \/ NilClient(p)
               \/ UploadKeyFails(p)
      PROVE  SSHTypeOK'
  BY <1>3 DEF EnsureConnected, IsConnected, GetConnection, NilClient, UploadKeyFails
<1>4. ASSUME NEW p \in Callers, UploadKey(p)
      PROVE  SSHTypeOK'
  BY <1>4 DEF UploadKey
<1>5. ASSUME NEW g \in Loops,
             ReconnectWithBackoff(g) \/ ClearHostKey(g) \/ AttemptAborted(g) \/ AttemptFails(g)
               \/ Backoff(g) \/ GiveUp(g) \/ LeaveLoop(g) \/ RequestGone(g)
      PROVE  SSHTypeOK'
  BY <1>5 DEF ReconnectWithBackoff, ClearHostKey, AttemptAborted, AttemptFails, Backoff, GiveUp,
       LeaveLoop, RequestGone
<1>6. ASSUME NEW g \in Loops, Attempt(g)
      PROVE  SSHTypeOK'
  BY <1>6 DEF Attempt
<1>7. ASSUME NEW p \in Closers, CancelReconnection(p)
      PROVE  SSHTypeOK'
  BY <1>7 DEF CancelReconnection, CancelEntry
<1>8. ASSUME NEW p \in Closers, CloseAll(p)
      PROVE  SSHTypeOK'
  BY <1>8 DEF CloseAll, CancelEntry
<1>9. ASSUME Restart \/ UNCHANGED <<hostVars, open>>
      PROVE  key' \in Keys /\ authorized' \in BOOLEAN /\ open' \subseteq Clients
  <2>1. authorized' \in BOOLEAN
    BY <1>9 DEF Restart
  <2>2. key' \in Keys /\ open' \subseteq Clients
    BY <1>9 DEF Restart
  <2> QED
    BY <2>1, <2>2
<1>10. ASSUME NEW p \in Closers, RestartContainer(p)
       PROVE  SSHTypeOK'
  <2>1. key' \in Keys /\ authorized' \in BOOLEAN /\ open' \subseteq Clients
    BY <1>9, <1>10 DEF RestartContainer
  <2>2. quitting' \in BOOLEAN
    BY <1>10 DEF RestartContainer
  <2> QED
    BY <1>10, <2>1, <2>2 DEF RestartContainer
<1>11. ASSUME NEW p \in Closers, Exit(p)
       PROVE  SSHTypeOK'
  <2>1. authorized' \in BOOLEAN /\ quitting' \in BOOLEAN
    BY <1>11 DEF Exit
  <2>2. /\ conns' \in Clients \cup {None} /\ open' \subseteq Clients
        /\ beat' \in [Clients -> {"off", "new", "newStopped", "on", "stopped", "lost", "report"}]
        /\ reconnecting' \in Loops \cup {None} /\ hostKey' \in Keys \cup {None}
    BY <1>11 DEF Exit
  <2>3. /\ pc' \in [Procs -> Labels] /\ mine' \in [Procs -> Clients \cup {None}]
        /\ cancelled' \subseteq Loops /\ manual' \subseteq Loops
    BY <1>11 DEF Exit
  <2>4. tries' \in [Loops -> 0..MaxRetries]
    BY <1>11 DEF Exit
  <2>5. key' \in Keys /\ faults' \in 0..MaxFaults
    BY <1>11 DEF Exit
  <2> QED
    BY <2>1, <2>2, <2>3, <2>4, <2>5
<1>12. ASSUME NEW c \in Clients, keepalive(c) \/ NetworkBreaks(c)
       PROVE  SSHTypeOK'
  BY <1>12 DEF keepalive, KeepaliveStops, KeepaliveFails, RemoveDead, ReportDead, NetworkBreaks,
       triggerReconnect
<1>13. ASSUME NEW h \in Checkers,
              checkAllConnections(h) \/ HealthRead(h) \/ HealthPasses(h)
                \/ HealthFails(h) \/ HealthTrigger(h)
       PROVE  SSHTypeOK'
  BY <1>13 DEF checkAllConnections, HealthRead, HealthPasses, HealthFails, HealthTrigger,
       triggerReconnect
<1>14. CASE ContainerRestarts
  <2>1. key' \in Keys /\ authorized' \in BOOLEAN /\ open' \subseteq Clients
    BY <1>9, <1>14 DEF ContainerRestarts
  <2>2. quitting' \in BOOLEAN
    BY <1>14 DEF ContainerRestarts
  <2> QED
    BY <1>14, <2>1, <2>2 DEF ContainerRestarts
<1>15. CASE UNCHANGED sshVars
  BY <1>15 DEF sshVars
<1> QED
  BY <1>1, <1>2, <1>3, <1>4, <1>5, <1>6, <1>7, <1>8, <1>10, <1>11, <1>12, <1>13, <1>14, <1>15
  DEF SSHNext, Caller, reconnectWithBackoff, HealthChecker

\* Every variable of the connection manager keeps its type; in particular no
\* loop makes more than maxRetries attempts.
THEOREM SSHTypeCorrect == SSHSpec => []SSHTypeOK
<1>1. SSHInit => SSHTypeOK
  BY SSHInitInv
<1> QED
  BY <1>1, SSHTypeStep, PTL DEF SSHSpec

--------------------------------------------------------------------------------
(* The loop registered in m.reconnecting.                                    *)

\* Every step keeps the loops and their entry in agreement: a loop is cancelled
\* or manual only while it runs, and LeaveLoop clears the entry of its own.
LEMMA LoopStep ==
  SSHTypeOK /\ LoopInv /\ [SSHNext]_sshVars => LoopInv'
<1> SUFFICES ASSUME SSHTypeOK, LoopInv, [SSHNext]_sshVars PROVE LoopInv'
  OBVIOUS
<1> USE SSHAssumption DEF LoopInv, EntryHasLiveLoop, SSHTypeOK, Procs, Labels, loopVars, Goto
<1>1. ASSUME NEW p \in Callers \cup Loops, Connect(p)
      PROVE  LoopInv'
  BY <1>1 DEF Connect, RateLimited, ClearExisting, Dial, DialFails, Handshake, HandshakeFails,
       PeerSilent, SilentEnds, Install, StartKeepalive, ConnectFailed, Unreferenced, hostKeyCallback, StopBeat,
       ConnectReturns
<1>2. ASSUME NEW p \in Loops \cup Closers \cup Checkers, Close(p)
      PROVE  LoopInv'
  BY <1>2 DEF Close, TakeEntry, CloseClient, CloseReturns, StopBeat
<1>3. ASSUME NEW p \in Callers,
             EnsureConnected(p) \/ IsConnected(p) \/ GetConnection(p) \/ NilClient(p)
               \/ UploadKey(p) \/ UploadKeyFails(p)
      PROVE  LoopInv'
  BY <1>3 DEF EnsureConnected, IsConnected, GetConnection, NilClient, UploadKey, UploadKeyFails
<1>4. ASSUME NEW g \in Loops,
             ReconnectWithBackoff(g) \/ ClearHostKey(g) \/ Attempt(g) \/ AttemptAborted(g)
               \/ AttemptFails(g) \/ Backoff(g) \/ GiveUp(g) \/ LeaveLoop(g) \/ RequestGone(g)
      PROVE  LoopInv'
  BY <1>4 DEF ReconnectWithBackoff, ClearHostKey, Attempt, AttemptAborted, AttemptFails,
       Backoff, GiveUp, LeaveLoop, RequestGone
<1>5. ASSUME NEW p \in Closers,
             CancelReconnection(p) \/ RestartContainer(p) \/ CloseAll(p) \/ Exit(p)
      PROVE  LoopInv'
  BY <1>5 DEF CancelReconnection, RestartContainer, CloseAll, Exit, CancelEntry, Restart
<1>6. ASSUME NEW c \in Clients,
             KeepaliveStops(c) \/ KeepaliveFails(c) \/ RemoveDead(c) \/ ReportDead(c)
               \/ NetworkBreaks(c)
      PROVE  LoopInv'
  BY <1>6 DEF KeepaliveStops, KeepaliveFails, RemoveDead, ReportDead, NetworkBreaks,
       triggerReconnect
<1>7. ASSUME NEW h \in Checkers,
             checkAllConnections(h) \/ HealthRead(h) \/ HealthPasses(h) \/ HealthFails(h)
               \/ HealthTrigger(h)
      PROVE  LoopInv'
  BY <1>7 DEF checkAllConnections, HealthRead, HealthPasses, HealthFails, HealthTrigger,
       triggerReconnect
<1>8. CASE ContainerRestarts
  BY <1>8 DEF ContainerRestarts, Restart
<1>9. CASE UNCHANGED sshVars
  BY <1>9 DEF sshVars
<1> QED
  BY <1>1, <1>2, <1>3, <1>4, <1>5, <1>6, <1>7, <1>8, <1>9
  DEF SSHNext, Caller, reconnectWithBackoff, keepalive, HealthChecker

\* An entry of m.reconnecting always belongs to a loop that runs and was not
\* cancelled, so triggerReconnect never drops a call for a loop that is gone,
\* however loops, CancelReconnection and the deferred deletes overlap.
THEOREM NoStaleEntry == SSHSpec => []EntryHasLiveLoop
<1>1. SSHInit => SSHTypeOK /\ LoopInv
  BY SSHInitInv
<1>2. SSHTypeOK /\ LoopInv /\ [SSHNext]_sshVars => (SSHTypeOK /\ LoopInv)'
  BY SSHTypeStep, LoopStep
<1>3. LoopInv => EntryHasLiveLoop
  BY DEF LoopInv
<1> QED
  BY <1>1, <1>2, <1>3, PTL DEF SSHSpec

--------------------------------------------------------------------------------
(* Clients and their transports.                                             *)

\* Every step keeps clients apart: Connect hands out only clients nothing refers
\* to, and whoever takes the entry out of the map is its only owner.
LEMMA HoldStep ==
  SSHTypeOK /\ HoldInv /\ [SSHNext]_sshVars => HoldInv'
<1> SUFFICES ASSUME SSHTypeOK, HoldInv, [SSHNext]_sshVars PROVE HoldInv'
  OBVIOUS
<1> USE SSHAssumption DEF HoldInv, SSHTypeOK, Procs, Labels, mapVars, Goto, Hold
<1>1. ASSUME NEW p \in Callers \cup Loops, Connect(p)
      PROVE  HoldInv'
  <2>1. CASE RateLimited(p)
    BY <2>1 DEF RateLimited, ConnectFailed
  <2>2. CASE ClearExisting(p)
    BY <2>2 DEF ClearExisting
  <2>3. CASE Dial(p)
    BY <2>3 DEF Dial, Unreferenced
  <2>4. CASE DialFails(p)
    BY <2>4 DEF DialFails, ConnectFailed, Unreferenced
  <2>5. CASE Handshake(p)
    BY <2>5 DEF Handshake, hostKeyCallback
  <2>6. CASE HandshakeFails(p)
    BY <2>6 DEF HandshakeFails, hostKeyCallback, ConnectFailed
  <2>9. CASE PeerSilent(p)
    BY <2>9 DEF PeerSilent
  <2>10. CASE SilentEnds(p)
    BY <2>10 DEF SilentEnds, ConnectFailed
  <2>7. CASE Install(p)
    BY <2>7 DEF Install, StopBeat
  <2>8. CASE StartKeepalive(p)
    BY <2>8 DEF StartKeepalive, ConnectReturns
  <2> QED
    BY <1>1, <2>1, <2>2, <2>3, <2>4, <2>5, <2>6, <2>7, <2>8, <2>9, <2>10 DEF Connect
<1>2. ASSUME NEW p \in Loops \cup Closers \cup Checkers, Close(p)
      PROVE  HoldInv'
  <2>1. CASE TakeEntry(p)
    BY <2>1 DEF TakeEntry, CloseReturns
  <2>2. CASE CloseClient(p)
    BY <2>2 DEF CloseClient, CloseReturns, StopBeat
  <2> QED
    BY <1>2, <2>1, <2>2 DEF Close
<1>3. ASSUME NEW p \in Callers,
             EnsureConnected(p) \/ IsConnected(p) \/ GetConnection(p) \/ NilClient(p)
               \/ UploadKey(p) \/ UploadKeyFails(p)
      PROVE  HoldInv'
  BY <1>3 DEF EnsureConnected, IsConnected, GetConnection, NilClient, UploadKey, UploadKeyFails
<1>4. ASSUME NEW g \in Loops,
             ReconnectWithBackoff(g) \/ ClearHostKey(g) \/ Attempt(g) \/ AttemptAborted(g)
               \/ AttemptFails(g) \/ Backoff(g) \/ GiveUp(g) \/ LeaveLoop(g) \/ RequestGone(g)
      PROVE  HoldInv'
  BY <1>4 DEF ReconnectWithBackoff, ClearHostKey, Attempt, AttemptAborted, AttemptFails,
       Backoff, GiveUp, LeaveLoop, RequestGone
<1>5. ASSUME NEW p \in Closers,
             CancelReconnection(p) \/ RestartContainer(p) \/ CloseAll(p) \/ Exit(p)
      PROVE  HoldInv'
  BY <1>5 DEF CancelReconnection, RestartContainer, CloseAll, Exit, CancelEntry, Restart
<1>6. ASSUME NEW c \in Clients,
             KeepaliveStops(c) \/ KeepaliveFails(c) \/ RemoveDead(c) \/ ReportDead(c)
               \/ NetworkBreaks(c)
      PROVE  HoldInv'
  BY <1>6 DEF KeepaliveStops, KeepaliveFails, RemoveDead, ReportDead, NetworkBreaks,
       triggerReconnect
<1>7. ASSUME NEW h \in Checkers,
             checkAllConnections(h) \/ HealthRead(h) \/ HealthPasses(h) \/ HealthFails(h)
               \/ HealthTrigger(h)
      PROVE  HoldInv'
  BY <1>7 DEF checkAllConnections, HealthRead, HealthPasses, HealthFails, HealthTrigger,
       triggerReconnect
<1>8. CASE ContainerRestarts
  BY <1>8 DEF ContainerRestarts, Restart
<1>9. CASE UNCHANGED sshVars
  BY <1>9 DEF sshVars
<1> QED
  BY <1>1, <1>2, <1>3, <1>4, <1>5, <1>6, <1>7, <1>8, <1>9
  DEF SSHNext, Caller, reconnectWithBackoff, keepalive, HealthChecker

\* HoldInv is an invariant.
LEMMA Holding == SSHSpec => [](SSHTypeOK /\ HoldInv)
<1>1. SSHInit => SSHTypeOK /\ HoldInv
  BY SSHInitInv
<1> QED
  BY <1>1, SSHTypeStep, HoldStep, PTL DEF SSHSpec

\* Install stores a client whose keepalive is about to start; CloseClient and the
\* keepalive's own exits only stop clients that have left the map (HoldInv).
LEMMA WatchStep ==
  SSHTypeOK /\ HoldInv /\ Monitored /\ [SSHNext]_sshVars => Monitored'
<1> SUFFICES ASSUME SSHTypeOK, HoldInv, Monitored, [SSHNext]_sshVars PROVE Monitored'
  OBVIOUS
<1> USE SSHAssumption DEF Monitored, HoldInv, SSHTypeOK, Procs, Labels, mapVars, Goto, Hold
<1>1. ASSUME NEW p \in Callers \cup Loops, Connect(p)
      PROVE  Monitored'
  <2>1. CASE RateLimited(p)
    BY <2>1 DEF RateLimited, ConnectFailed
  <2>2. CASE ClearExisting(p)
    BY <2>2 DEF ClearExisting
  <2>3. CASE Dial(p)
    BY <2>3 DEF Dial, Unreferenced
  <2>4. CASE DialFails(p)
    BY <2>4 DEF DialFails, ConnectFailed, Unreferenced
  <2>5. CASE Handshake(p)
    BY <2>5 DEF Handshake, hostKeyCallback
  <2>6. CASE HandshakeFails(p)
    BY <2>6 DEF HandshakeFails, hostKeyCallback, ConnectFailed
  <2>9. CASE PeerSilent(p)
    BY <2>9 DEF PeerSilent
  <2>10. CASE SilentEnds(p)
    BY <2>10 DEF SilentEnds, ConnectFailed
  <2>7. CASE Install(p)
    BY <2>7 DEF Install, StopBeat
  <2>8. CASE StartKeepalive(p)
    BY <2>8 DEF StartKeepalive, ConnectReturns
  <2> QED
    BY <1>1, <2>1, <2>2, <2>3, <2>4, <2>5, <2>6, <2>7, <2>8, <2>9, <2>10 DEF Connect
<1>2. ASSUME NEW p \in Loops \cup Closers \cup Checkers, Close(p)
      PROVE  Monitored'
  <2>1. CASE TakeEntry(p)
    BY <2>1 DEF TakeEntry, CloseReturns
  <2>2. CASE CloseClient(p)
    BY <2>2 DEF CloseClient, CloseReturns, StopBeat
  <2> QED
    BY <1>2, <2>1, <2>2 DEF Close
<1>3. ASSUME NEW p \in Callers,
             EnsureConnected(p) \/ IsConnected(p) \/ GetConnection(p) \/ NilClient(p)
               \/ UploadKey(p) \/ UploadKeyFails(p)
      PROVE  Monitored'
  BY <1>3 DEF EnsureConnected, IsConnected, GetConnection, NilClient, UploadKey, UploadKeyFails
<1>4. ASSUME NEW g \in Loops,
             ReconnectWithBackoff(g) \/ ClearHostKey(g) \/ Attempt(g) \/ AttemptAborted(g)
               \/ AttemptFails(g) \/ Backoff(g) \/ GiveUp(g) \/ LeaveLoop(g) \/ RequestGone(g)
      PROVE  Monitored'
  BY <1>4 DEF ReconnectWithBackoff, ClearHostKey, Attempt, AttemptAborted, AttemptFails,
       Backoff, GiveUp, LeaveLoop, RequestGone
<1>5. ASSUME NEW p \in Closers,
             CancelReconnection(p) \/ RestartContainer(p) \/ CloseAll(p) \/ Exit(p)
      PROVE  Monitored'
  BY <1>5 DEF CancelReconnection, RestartContainer, CloseAll, Exit, CancelEntry, Restart
<1>6. ASSUME NEW c \in Clients,
             KeepaliveStops(c) \/ KeepaliveFails(c) \/ RemoveDead(c) \/ ReportDead(c)
               \/ NetworkBreaks(c)
      PROVE  Monitored'
  BY <1>6 DEF KeepaliveStops, KeepaliveFails, RemoveDead, ReportDead, NetworkBreaks,
       triggerReconnect
<1>7. ASSUME NEW h \in Checkers,
             checkAllConnections(h) \/ HealthRead(h) \/ HealthPasses(h) \/ HealthFails(h)
               \/ HealthTrigger(h)
      PROVE  Monitored'
  BY <1>7 DEF checkAllConnections, HealthRead, HealthPasses, HealthFails, HealthTrigger,
       triggerReconnect
<1>8. CASE ContainerRestarts
  BY <1>8 DEF ContainerRestarts, Restart
<1>9. CASE UNCHANGED sshVars
  BY <1>9 DEF sshVars
<1> QED
  BY <1>1, <1>2, <1>3, <1>4, <1>5, <1>6, <1>7, <1>8, <1>9
  DEF SSHNext, Caller, reconnectWithBackoff, keepalive, HealthChecker

\* The connection in the map always has a keepalive goroutine with a live
\* context, or one that its Connect is about to start.
THEOREM AlwaysMonitored == SSHSpec => []Monitored
<1>1. SSHInit => Monitored
  BY SSHInitInv
<1> QED
  BY <1>1, Holding, WatchStep, PTL DEF SSHSpec

\* A live transport passes from its Connect to the map and from the map to the
\* goroutine that closes it; RemoveDead only drops a dead one (HoldInv).
LEMMA LeakStep ==
  SSHTypeOK /\ HoldInv /\ NoLeakedClient /\ [SSHNext]_sshVars => NoLeakedClient'
<1> SUFFICES ASSUME SSHTypeOK, HoldInv, NoLeakedClient, [SSHNext]_sshVars PROVE NoLeakedClient'
  OBVIOUS
<1> USE SSHAssumption DEF NoLeakedClient, HoldInv, SSHTypeOK, Procs, Labels, mapVars, Goto, Hold
<1>1. ASSUME NEW p \in Callers \cup Loops, Connect(p)
      PROVE  NoLeakedClient'
  <2>1. CASE RateLimited(p)
    BY <2>1 DEF RateLimited, ConnectFailed
  <2>2. CASE ClearExisting(p)
    BY <2>2 DEF ClearExisting
  <2>3. CASE Dial(p)
    BY <2>3 DEF Dial, Unreferenced
  <2>4. CASE DialFails(p)
    BY <2>4 DEF DialFails, ConnectFailed, Unreferenced
  <2>5. CASE Handshake(p)
    BY <2>5 DEF Handshake, hostKeyCallback
  <2>6. CASE HandshakeFails(p)
    BY <2>6 DEF HandshakeFails, hostKeyCallback, ConnectFailed
  <2>9. CASE PeerSilent(p)
    BY <2>9 DEF PeerSilent
  <2>10. CASE SilentEnds(p)
    BY <2>10 DEF SilentEnds, ConnectFailed
  <2>7. CASE Install(p)
    BY <2>7 DEF Install, StopBeat
  <2>8. CASE StartKeepalive(p)
    BY <2>8 DEF StartKeepalive, ConnectReturns
  <2> QED
    BY <1>1, <2>1, <2>2, <2>3, <2>4, <2>5, <2>6, <2>7, <2>8, <2>9, <2>10 DEF Connect
<1>2. ASSUME NEW p \in Loops \cup Closers \cup Checkers, Close(p)
      PROVE  NoLeakedClient'
  <2>1. CASE TakeEntry(p)
    BY <2>1 DEF TakeEntry, CloseReturns
  <2>2. CASE CloseClient(p)
    BY <2>2 DEF CloseClient, CloseReturns, StopBeat
  <2> QED
    BY <1>2, <2>1, <2>2 DEF Close
<1>3. ASSUME NEW p \in Callers,
             EnsureConnected(p) \/ IsConnected(p) \/ GetConnection(p) \/ NilClient(p)
               \/ UploadKey(p) \/ UploadKeyFails(p)
      PROVE  NoLeakedClient'
  BY <1>3 DEF EnsureConnected, IsConnected, GetConnection, NilClient, UploadKey, UploadKeyFails
<1>4. ASSUME NEW g \in Loops,
             ReconnectWithBackoff(g) \/ ClearHostKey(g) \/ Attempt(g) \/ AttemptAborted(g)
               \/ AttemptFails(g) \/ Backoff(g) \/ GiveUp(g) \/ LeaveLoop(g) \/ RequestGone(g)
      PROVE  NoLeakedClient'
  BY <1>4 DEF ReconnectWithBackoff, ClearHostKey, Attempt, AttemptAborted, AttemptFails,
       Backoff, GiveUp, LeaveLoop, RequestGone
<1>5. ASSUME NEW p \in Closers,
             CancelReconnection(p) \/ RestartContainer(p) \/ CloseAll(p) \/ Exit(p)
      PROVE  NoLeakedClient'
  BY <1>5 DEF CancelReconnection, RestartContainer, CloseAll, Exit, CancelEntry, Restart
<1>6. ASSUME NEW c \in Clients,
             KeepaliveStops(c) \/ KeepaliveFails(c) \/ RemoveDead(c) \/ ReportDead(c)
               \/ NetworkBreaks(c)
      PROVE  NoLeakedClient'
  BY <1>6 DEF KeepaliveStops, KeepaliveFails, RemoveDead, ReportDead, NetworkBreaks,
       triggerReconnect
<1>7. ASSUME NEW h \in Checkers,
             checkAllConnections(h) \/ HealthRead(h) \/ HealthPasses(h) \/ HealthFails(h)
               \/ HealthTrigger(h)
      PROVE  NoLeakedClient'
  BY <1>7 DEF checkAllConnections, HealthRead, HealthPasses, HealthFails, HealthTrigger,
       triggerReconnect
<1>8. CASE ContainerRestarts
  BY <1>8 DEF ContainerRestarts, Restart
<1>9. CASE UNCHANGED sshVars
  BY <1>9 DEF sshVars
<1> QED
  BY <1>1, <1>2, <1>3, <1>4, <1>5, <1>6, <1>7, <1>8, <1>9
  DEF SSHNext, Caller, reconnectWithBackoff, keepalive, HealthChecker

\* No interleaving of Connect, Close, CloseAll, keepalives, health checks and
\* restarts loses the last reference to a live transport.
THEOREM NoTransportLeaks == SSHSpec => []NoLeakedClient
<1>1. SSHInit => NoLeakedClient
  BY SSHInitInv
<1> QED
  BY <1>1, Holding, LeakStep, PTL DEF SSHSpec

\* The stored key changes to None or to the container's key, and a container
\* that changes its key ends every transport.
LEMMA PinStep ==
  SSHTypeOK /\ PinnedKey /\ [SSHNext]_sshVars => PinnedKey'
<1> SUFFICES ASSUME SSHTypeOK, PinnedKey, [SSHNext]_sshVars PROVE PinnedKey'
  OBVIOUS
<1> USE SSHAssumption DEF PinnedKey, SSHTypeOK, Procs, Labels, mapVars, hostVars, Goto, Hold
<1>1. ASSUME NEW p \in Callers \cup Loops, Connect(p)
      PROVE  PinnedKey'
  BY <1>1 DEF Connect, RateLimited, ClearExisting, Dial, DialFails, Handshake, HandshakeFails,
       PeerSilent, SilentEnds, Install, StartKeepalive, ConnectFailed, Unreferenced, hostKeyCallback, StopBeat,
       ConnectReturns
<1>2. ASSUME NEW p \in Loops \cup Closers \cup Checkers, Close(p)
      PROVE  PinnedKey'
  BY <1>2 DEF Close, TakeEntry, CloseClient, CloseReturns, StopBeat
<1>3. ASSUME NEW p \in Callers,
             EnsureConnected(p) \/ IsConnected(p) \/ GetConnection(p) \/ NilClient(p)
               \/ UploadKey(p) \/ UploadKeyFails(p)
      PROVE  PinnedKey'
  BY <1>3 DEF EnsureConnected, IsConnected, GetConnection, NilClient, UploadKey, UploadKeyFails
<1>4. ASSUME NEW g \in Loops,
             ReconnectWithBackoff(g) \/ ClearHostKey(g) \/ Attempt(g) \/ AttemptAborted(g)
               \/ AttemptFails(g) \/ Backoff(g) \/ GiveUp(g) \/ LeaveLoop(g) \/ RequestGone(g)
      PROVE  PinnedKey'
  BY <1>4 DEF ReconnectWithBackoff, ClearHostKey, Attempt, AttemptAborted, AttemptFails,
       Backoff, GiveUp, LeaveLoop, RequestGone
<1>5. ASSUME NEW p \in Closers,
             CancelReconnection(p) \/ RestartContainer(p) \/ CloseAll(p) \/ Exit(p)
      PROVE  PinnedKey'
  BY <1>5 DEF CancelReconnection, RestartContainer, CloseAll, Exit, CancelEntry, Restart
<1>6. ASSUME NEW c \in Clients,
             KeepaliveStops(c) \/ KeepaliveFails(c) \/ RemoveDead(c) \/ ReportDead(c)
               \/ NetworkBreaks(c)
      PROVE  PinnedKey'
  BY <1>6 DEF KeepaliveStops, KeepaliveFails, RemoveDead, ReportDead, NetworkBreaks,
       triggerReconnect
<1>7. ASSUME NEW h \in Checkers,
             checkAllConnections(h) \/ HealthRead(h) \/ HealthPasses(h) \/ HealthFails(h)
               \/ HealthTrigger(h)
      PROVE  PinnedKey'
  BY <1>7 DEF checkAllConnections, HealthRead, HealthPasses, HealthFails, HealthTrigger,
       triggerReconnect
<1>8. CASE ContainerRestarts
  BY <1>8 DEF ContainerRestarts, Restart
<1>9. CASE UNCHANGED sshVars
  BY <1>9 DEF sshVars
<1> QED
  BY <1>1, <1>2, <1>3, <1>4, <1>5, <1>6, <1>7, <1>8, <1>9
  DEF SSHNext, Caller, reconnectWithBackoff, keepalive, HealthChecker

\* While an established transport lives, the stored host key is that of the
\* container at its other end, or none is stored.
THEOREM HostKeyPinned == SSHSpec => []PinnedKey
<1>1. SSHInit => PinnedKey
  BY SSHInitInv
<1> QED
  BY <1>1, SSHTypeCorrect, PinStep, PTL DEF SSHSpec

--------------------------------------------------------------------------------
(* Refinement of SSHConnection.                                              *)

\* The transports the users of the manager can know of: what the refinement
\* mapping substitutes for alive.
Established == open \ {mine[p] : p \in {q \in Procs : pc[q] \in {"handshake", "silent", "install"}}}

\* A transport that is not established is dead, or Connect is setting it up.
LEMMA EstablishedDef ==
  \A c : c \in Established <=>
         c \in open /\ \A p \in Procs : pc[p] \in {"handshake", "silent", "install"} => mine[p] # c
  BY DEF Established

\* Every step of the manager is a step of SSHConnection, or changes nothing its
\* users see: only Install makes a transport known, and it closes the one it
\* replaces in the same step.
LEMMA ConnStep ==
  SSHTypeOK /\ HoldInv /\ [SSHNext]_sshVars => [Conn!ConnNext]_(Conn!connVars)
<1> SUFFICES ASSUME SSHTypeOK, HoldInv, [SSHNext]_sshVars
             PROVE  [Conn!ConnNext]_(Conn!connVars)
  OBVIOUS
<1> DEFINE Quiet == conns' = conns /\ Established' \subseteq Established
<1>a. \A c : c \in Established' <=>
        c \in open' /\ \A p \in Procs : pc'[p] \in {"handshake", "silent", "install"} => mine'[p] # c
  BY DEF Established
<1>b. Quiet => Conn!ConnNext
  BY DEF Conn!ConnNext, Conn!ConnDie, Established
<1>c. conns' = None /\ Established' = Established /\ conns # None => Conn!ConnNext
  BY DEF Conn!ConnNext, Conn!ConnLeave, Established
<1>d. conns' = None /\ Established' = {} => Conn!ConnNext
  BY DEF Conn!ConnNext, Conn!ConnExit, Established
<1>e. ASSUME NEW c \in Clients, c # conns, c \notin Established, conns' = c,
             Established' \in {Established \ {conns}, (Established \ {conns}) \cup {c}}
      PROVE  Conn!ConnNext
  BY <1>e DEF Conn!ConnNext, Conn!ConnInstall, Established
<1> USE SSHAssumption DEF HoldInv, SSHTypeOK, Procs, Labels, mapVars, Goto, Hold
<1>1. ASSUME NEW p \in Callers \cup Loops, Connect(p)
      PROVE  Conn!ConnNext
  <2>1. CASE RateLimited(p)
    BY <2>1, <1>a, <1>b, EstablishedDef DEF RateLimited, ConnectFailed
  <2>2. CASE ClearExisting(p)
    BY <2>2, <1>a, <1>b, EstablishedDef DEF ClearExisting
  <2>3. CASE Dial(p)
    BY <2>3, <1>a, <1>b, EstablishedDef DEF Dial, Unreferenced
  <2>4. CASE DialFails(p)
    BY <2>4, <1>a, <1>b, EstablishedDef DEF DialFails, ConnectFailed, Unreferenced
  <2>5. CASE Handshake(p)
    BY <2>5, <1>a, <1>b, EstablishedDef DEF Handshake, hostKeyCallback
  <2>6. CASE HandshakeFails(p)
    BY <2>6, <1>a, <1>b, EstablishedDef DEF HandshakeFails, hostKeyCallback, ConnectFailed
  <2>9. CASE PeerSilent(p)
    BY <2>9, <1>a, <1>b, EstablishedDef DEF PeerSilent
  <2>10. CASE SilentEnds(p)
    BY <2>10, <1>a, <1>b, EstablishedDef DEF SilentEnds, ConnectFailed
  <2>7. CASE Install(p)
    <3>1. mine[p] \in Clients /\ mine[p] # conns /\ mine[p] \notin Established /\ conns' = mine[p]
      BY <2>7, EstablishedDef DEF Install
    <3>2. \A c : c # mine[p] => (c \in Established' <=> c \in Established \ {conns})
      BY <2>7, <1>a, EstablishedDef DEF Install
    <3>3. Established' \in {Established \ {conns}, (Established \ {conns}) \cup {mine[p]}}
      BY <3>1, <3>2
    <3> QED
      BY <3>1, <3>3, <1>e
  <2>8. CASE StartKeepalive(p)
    BY <2>8, <1>a, <1>b, EstablishedDef DEF StartKeepalive, ConnectReturns
  <2> QED
    BY <1>1, <2>1, <2>2, <2>3, <2>4, <2>5, <2>6, <2>7, <2>8, <2>9, <2>10 DEF Connect
<1>2. ASSUME NEW p \in Loops \cup Closers \cup Checkers, Close(p)
      PROVE  Conn!ConnNext
  <2>1. CASE TakeEntry(p)
    <3>1. \A c : c \in Established' <=> c \in Established
      BY <2>1, <1>a, EstablishedDef DEF TakeEntry, CloseReturns
    <3>2. Established' = Established
      BY <3>1 DEF Established
    <3>3. conns' = None
      BY <2>1 DEF TakeEntry
    <3> QED
      BY <3>2, <3>3, <1>b, <1>c
  <2>2. CASE CloseClient(p)
    BY <2>2, <1>a, <1>b, EstablishedDef DEF CloseClient, CloseReturns
  <2> QED
    BY <1>2, <2>1, <2>2 DEF Close
<1>3. ASSUME NEW p \in Callers,
             EnsureConnected(p) \/ IsConnected(p) \/ GetConnection(p) \/ NilClient(p)
               \/ UploadKey(p) \/ UploadKeyFails(p)
      PROVE  Conn!ConnNext
  BY <1>3, <1>a, <1>b, EstablishedDef
     DEF EnsureConnected, IsConnected, GetConnection, NilClient, UploadKey, UploadKeyFails
<1>4. ASSUME NEW g \in Loops,
             ReconnectWithBackoff(g) \/ ClearHostKey(g) \/ Attempt(g) \/ AttemptAborted(g)
               \/ AttemptFails(g) \/ Backoff(g) \/ GiveUp(g) \/ LeaveLoop(g) \/ RequestGone(g)
      PROVE  Conn!ConnNext
  BY <1>4, <1>a, <1>b, EstablishedDef
     DEF ReconnectWithBackoff, ClearHostKey, Attempt, AttemptAborted, AttemptFails,
       Backoff, GiveUp, LeaveLoop, RequestGone
<1>5. ASSUME NEW p \in Closers, CancelReconnection(p) \/ RestartContainer(p) \/ CloseAll(p)
      PROVE  Conn!ConnNext
  BY <1>5, <1>a, <1>b, EstablishedDef
     DEF CancelReconnection, RestartContainer, CloseAll, CancelEntry, Restart
<1>6. ASSUME NEW p \in Closers, Exit(p)
      PROVE  Conn!ConnNext
  BY <1>6, <1>a, <1>d DEF Exit
<1>7. ASSUME NEW c \in Clients,
             KeepaliveStops(c) \/ KeepaliveFails(c) \/ ReportDead(c) \/ NetworkBreaks(c)
      PROVE  Conn!ConnNext
  BY <1>7, <1>a, <1>b, EstablishedDef
     DEF KeepaliveStops, KeepaliveFails, ReportDead, NetworkBreaks, triggerReconnect
<1>8. ASSUME NEW c \in Clients, RemoveDead(c)
      PROVE  Conn!ConnNext
  <2>1. Established' = Established
    BY <1>8 DEF RemoveDead, Established
  <2> QED
    BY <1>8, <2>1, <1>b, <1>c DEF RemoveDead
<1>9. ASSUME NEW h \in Checkers,
             checkAllConnections(h) \/ HealthRead(h) \/ HealthPasses(h) \/ HealthFails(h)
               \/ HealthTrigger(h)
      PROVE  Conn!ConnNext
  BY <1>9, <1>a, <1>b, EstablishedDef
     DEF checkAllConnections, HealthRead, HealthPasses, HealthFails, HealthTrigger, triggerReconnect
<1>10. CASE ContainerRestarts
  BY <1>10, <1>a, <1>b, EstablishedDef DEF ContainerRestarts, Restart
<1>11. CASE UNCHANGED sshVars
  BY <1>11, <1>a, <1>b, EstablishedDef DEF sshVars
<1> QED
  BY <1>1, <1>2, <1>3, <1>4, <1>5, <1>6, <1>7, <1>8, <1>9, <1>10, <1>11
  DEF SSHNext, Caller, reconnectWithBackoff, keepalive, HealthChecker

\* The manager keeps the contract TunnelManager relies on, for any number of
\* goroutines that connect, close and reconnect.
THEOREM ManagerImplementsConnection == SSHSpec => ImplementsConnection
<1>1. SSHInit => Conn!ConnInit
  BY DEF SSHInit, Conn!ConnInit
<1> QED
  BY <1>1, ConnStep, Holding, PTL DEF SSHSpec, ImplementsConnection, Conn!ConnSpec

================================================================================
