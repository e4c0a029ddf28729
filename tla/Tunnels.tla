--------------------------------- MODULE Tunnels ---------------------------------
(****************************************************************************)
(* The SSH tunnels of one instance: internal/sshproxy tunnel.go and         *)
(* tunnel_health.go, over the connection SSHConnection describes.           *)
(*                                                                          *)
(* TunnelManager keys its maps by instance id, so the module is the slice   *)
(* of one id. Tunnels are created by the reconciler goroutine alone, and    *)
(* taken down by it, by the handler that stops or restarts the instance and *)
(* at shutdown. A tunnel keeps the client it was created over: the reverse  *)
(* tunnels (VNC, Gateway) listen on the control plane whatever becomes of   *)
(* the client, the agent listeners (CDP, LLMProxy) listen in the agent and  *)
(* their Accept fails when the client dies.                                 *)
(*                                                                          *)
(* A status is "error" or not: active and idle differ for display only. The *)
(* number of failed attempts only sets how long a backoff lasts.            *)
(****************************************************************************)
EXTENDS SSHConnection, Naturals, Sequences, FiniteSets

CONSTANTS
  MaxFaults     \* bound on failures and on stops and restarts of the instance

ASSUME TunnelAssumption ==
  None \notin Clients /\ MaxFaults \in Nat

VARIABLES
  tunnels,   \* the entry of tm.tunnels: a set of tunnels
  failed,    \* tunnels whose status is "error"
  loops,     \* tunnels whose listener is open and whose accept loop runs
  rpc,       \* where the reconciler is
  snap,      \* the slice areTunnelsHealthy read
  broken,    \* the reconciler's needsRecreation
  todo,      \* labels the reconciler has still to create
  taken,     \* tunnels out of the map that the reconciler / the handler is closing
  hpc,       \* where the handler is
  waiting,   \* tm.backoff has an entry whose nextRetry is in the future
  wanted,    \* the instance's row has a status the lister includes
  legacy,    \* the instance runs the legacy image, with its browser inside
  pinned,    \* the host key SSHManager stores: none, the container's, or a stale one
  relink,    \* the reconnection loop of SSHManager, and whether it is registered
  hung,      \* the reconciler waits for a peer that does not answer
  faults

reconVars == <<rpc, snap, broken, todo>>
envVars == <<wanted, legacy, hung>>
linkVars == <<client, alive, pinned, relink>>
tunnelVars == <<client, alive, tunnels, failed, loops, rpc, snap, broken, todo, taken, hpc,
                waiting, wanted, legacy, pinned, relink, hung, faults>>

AgentLabels == {"CDP", "LLMProxy"}
TunnelLabels == {"VNC", "Gateway"} \cup AgentLabels
AllTunnels == [label : TunnelLabels, via : Clients]

TunnelTypeOK ==
  /\ client \in Clients \cup {None} /\ alive \subseteq Clients
  /\ tunnels \subseteq AllTunnels /\ failed \subseteq AllTunnels /\ loops \subseteq AllTunnels
  /\ rpc \in {"idle", "read", "ping", "check", "ensure", "branch", "close", "create"}
  /\ snap \subseteq AllTunnels /\ broken \in BOOLEAN
  /\ todo \in Seq(TunnelLabels) /\ Len(todo) <= 3
  /\ taken \in [{"recon", "handler"} -> SUBSET AllTunnels]
  /\ hpc \in {"idle", "take", "close", "status"}
  /\ waiting \in BOOLEAN
  /\ wanted \in BOOLEAN /\ legacy \in BOOLEAN /\ hung \in BOOLEAN /\ faults \in 0..MaxFaults
  /\ pinned \in {"none", "current", "stale"} /\ relink \in {"none", "due", "unlisted", "begun"}

\* A control plane that has just started, beside an instance that runs.
TunnelInit ==
  /\ ConnInit
  /\ tunnels = {} /\ failed = {} /\ loops = {}
  /\ rpc = "idle" /\ snap = {} /\ broken = FALSE /\ todo = <<>>
  /\ taken = [p \in {"recon", "handler"} |-> {}]
  /\ hpc = "idle"
  /\ waiting = FALSE
  /\ wanted = TRUE /\ legacy \in BOOLEAN
  /\ pinned = "none" /\ relink = "none" /\ hung = FALSE
  /\ faults = 0

Fault == faults < MaxFaults /\ faults' = faults + 1

Closing == taken["recon"] \cup taken["handler"]

\* Client ids no tunnel refers to. They are interchangeable: a new client
\* takes one of them, and which one makes no difference.
UnusedClients ==
  {c \in Clients : c # client /\ c \notin alive /\
                   \A t \in tunnels \cup loops \cup snap \cup Closing : t.via # c}
FreshClients == {c \in UnusedClients : c = CHOOSE d \in UnusedClients : TRUE}

\* The reconciler moves from one label to another, unless it hangs.
ReconGoto(from, to) == ~hung /\ rpc = from /\ rpc' = to

--------------------------------------------------------------------------------
(* Stopping tunnels.                                                         *)

\* StopTunnelsForInstance under tm.mu: p takes the entry out of the map.
TakeTunnels(p) ==
  /\ taken' = [taken EXCEPT ![p] = tunnels]
  /\ tunnels' = {}

\* Seeded error: the contexts are cancelled, the listeners stay open.
CloseTunnels_ListenersKept(p) ==
  /\ taken' = [taken EXCEPT ![p] = {}]
  /\ UNCHANGED <<loops, failed>>

\* After the unlock: cancel every tunnel and close its listener; the accept
\* loops return.
CloseTunnels(p) ==
  /\ taken' = [taken EXCEPT ![p] = {}]
  /\ loops' = loops \ taken[p]
  /\ failed' = failed \ taken[p]

--------------------------------------------------------------------------------
(* The reconciler.                                                           *)

\* Seeded error: an instance that is not listed keeps its tunnels.
ReconcileStopped_Kept ==
  /\ ~wanted
  /\ ReconGoto("idle", "idle")
  /\ waiting' = FALSE
  /\ UNCHANGED <<tunnels, taken, snap, broken, todo, failed, loops, linkVars, hpc, envVars, faults>>

\* reconcile lists the instances and this one is not running: remove its
\* tunnels and its backoff state.
ReconcileStopped ==
  /\ ~wanted
  /\ ReconGoto("idle", IF tunnels = {} THEN "idle" ELSE "close")
  /\ TakeTunnels("recon")
  /\ todo' = <<>>
  /\ waiting' = FALSE
  /\ UNCHANGED <<snap, broken, failed, loops, linkVars, hpc, envVars, faults>>

\* It is running and not in backoff: StartTunnelsForInstance.
ReconcileRunning ==
  /\ wanted /\ ~waiting
  /\ ReconGoto("idle", "read")
  /\ UNCHANGED <<tunnels, taken, snap, broken, todo, failed, loops, linkVars, hpc, waiting, envVars, faults>>

\* areTunnelsHealthy reads the list; an empty one is not healthy.
ReadTunnels ==
  /\ ReconGoto("read", IF tunnels = {} THEN "ensure" ELSE "ping")
  /\ snap' = tunnels
  /\ broken' = (tunnels = {})
  /\ UNCHANGED <<tunnels, taken, todo, failed, loops, linkVars, hpc, waiting, envVars, faults>>

\* IsConnected probes the connection there is now, if any.
PingConnection ==
  /\ ReconGoto("ping", IF client \in alive THEN "check" ELSE "ensure")
  /\ broken' = (client \notin alive)
  /\ snap' = IF client \in alive THEN snap ELSE {}
  /\ UNCHANGED <<tunnels, taken, todo, failed, loops, linkVars, hpc, waiting, envVars, faults>>

\* Seeded error: the statuses are not looked at.
CheckStatuses_Skipped ==
  /\ ReconGoto("check", "ensure")
  /\ broken' = FALSE
  /\ snap' = {}
  /\ UNCHANGED <<tunnels, taken, todo, failed, loops, linkVars, hpc, waiting, envVars, faults>>

\* The statuses of the tunnels that were read.
CheckStatuses ==
  /\ ReconGoto("check", "ensure")
  /\ broken' = (snap \cap failed # {})
  /\ snap' = {}
  /\ UNCHANGED <<tunnels, taken, todo, failed, loops, linkVars, hpc, waiting, envVars, faults>>

\* SSHManager.Connect: the host key callback refuses the container while the
\* key stored is another's. Connect clears the key if the map has an entry.
Accepted == client # None \/ pinned # "stale"

\* A connection is made: its container's host key is the one that is stored.
ConnectionMade ==
  /\ Accepted
  /\ \E c \in FreshClients : ConnInstall(c) /\ c \in alive'
  /\ pinned' = "current"

\* EnsureConnected finds a live connection or makes one.
Ensured ==
  /\ ReconGoto("ensure", "branch")
  /\ \/ client \in alive /\ UNCHANGED <<connVars, pinned>>
     \/ client \notin alive /\ ConnectionMade
  /\ UNCHANGED relink
  /\ UNCHANGED <<snap, broken, tunnels, taken, todo, failed, loops, hpc, waiting, envVars, faults>>

\* EnsureConnected fails, for a passing reason or because the host key is
\* refused: recordFailure.
recordFailure ==
  /\ ReconGoto("ensure", "idle")
  /\ client \notin alive
  /\ Fault \/ (~Accepted /\ UNCHANGED faults)
  /\ waiting' = TRUE
  /\ UNCHANGED <<snap, broken, tunnels, taken, todo, failed, loops, linkVars, hpc, envVars>>

\* The labels of the tunnels that are there and not in error.
Present == {t.label : t \in tunnels \ failed}

\* Healthy: only the optional tunnels that are missing are created.
CreateMissing ==
  /\ ReconGoto("branch", "create") /\ ~broken
  /\ todo' = (IF "LLMProxy" \in Present THEN <<>> ELSE <<"LLMProxy">>)
             \o (IF legacy \/ "CDP" \in Present THEN <<>> ELSE <<"CDP">>)
  /\ UNCHANGED <<snap, broken, tunnels, taken, failed, loops, linkVars, hpc, waiting, envVars, faults>>

\* Unhealthy: tear down what is there, then create everything.
Recreate ==
  /\ ReconGoto("branch", IF tunnels = {} THEN "create" ELSE "close") /\ broken
  /\ TakeTunnels("recon")
  /\ todo' = <<IF legacy THEN "VNC" ELSE "CDP", "Gateway", "LLMProxy">>
  /\ UNCHANGED <<snap, broken, failed, loops, linkVars, hpc, waiting, envVars, faults>>

\* The reconciler's StopTunnelsForInstance ends.
ReconcilerCloses ==
  /\ ReconGoto("close", IF todo = <<>> THEN "idle" ELSE "create")
  /\ CloseTunnels("recon")
  /\ UNCHANGED <<snap, broken, todo, tunnels, linkVars, hpc, waiting, envVars, faults>>

\* CreateAgentListenerTunnelDial and CreateReverseTunnel: take the connection
\* there is, listen, add the tunnel, start its loop. An agent listener needs
\* a live client on which the port is free. (A tunnel that is still being
\* closed has its label and client to itself until it is: the two passes of
\* the reconciler that could clash are 60 s apart.)
CreateTunnel ==
  LET t == [label |-> Head(todo), via |-> client] IN
  /\ ReconGoto("create", "create") /\ todo # <<>>
  /\ client # None /\ t \notin loops \cup tunnels \cup Closing
  /\ t.label \in AgentLabels => client \in alive
  /\ tunnels' = tunnels \cup {t}
  /\ loops' = loops \cup {t}
  /\ failed' = failed \ {t}
  /\ todo' = Tail(todo)
  /\ UNCHANGED <<snap, broken, taken, linkVars, hpc, waiting, envVars, faults>>

\* It fails, which is only logged: there is no connection, it is dead, the
\* agent's port is taken, or either kind of listener fails for another reason.
CreateFails ==
  LET t == [label |-> Head(todo), via |-> client] IN
  /\ ReconGoto("create", "create") /\ todo # <<>>
  /\ \/ client = None /\ UNCHANGED faults
     \/ /\ t.label \in AgentLabels /\ (client \notin alive \/ t \in loops \cup tunnels)
        /\ UNCHANGED faults
     \/ Fault
  /\ todo' = Tail(todo)
  /\ UNCHANGED <<snap, broken, tunnels, loops, failed, taken, linkVars, hpc, waiting, envVars>>

\* StartTunnelsForInstance returns nil: clearBackoff.
Started ==
  /\ ReconGoto("create", "idle") /\ todo = <<>>
  /\ waiting' = FALSE
  /\ UNCHANGED <<snap, broken, todo, tunnels, loops, failed, taken, linkVars, hpc, envVars, faults>>

reconcile ==
  \/ ReconcileStopped \/ ReconcileRunning \/ ReadTunnels \/ PingConnection \/ CheckStatuses
  \/ Ensured \/ recordFailure \/ CreateMissing \/ Recreate \/ ReconcilerCloses
  \/ CreateTunnel \/ CreateFails \/ Started

\* The handshake, the keepalive probe and the request to listen have no deadline,
\* and one goroutine serves all instances: it waits for a silent peer, this
\* instance's or (at "idle") another's.
ReconcilerHangs ==
  /\ ~hung /\ rpc \in {"idle", "ping", "ensure", "create"}
  /\ Fault
  /\ hung' = TRUE /\ UNCHANGED <<wanted, legacy>>
  /\ UNCHANGED <<reconVars, tunnels, loops, failed, taken, linkVars, hpc, waiting>>

\* The peer answers or its transport ends, if ever; the reconciler goes on.
HangEnds ==
  /\ hung
  /\ hung' = FALSE /\ UNCHANGED <<wanted, legacy>>
  /\ UNCHANGED <<reconVars, tunnels, loops, failed, taken, linkVars, hpc, waiting, faults>>

\* nextRetry passes: isInBackoff is false from now on.
BackoffElapses ==
  /\ waiting
  /\ waiting' = FALSE
  /\ UNCHANGED <<reconVars, tunnels, loops, failed, taken, linkVars, hpc, envVars, faults>>

--------------------------------------------------------------------------------
(* Accept loops and the health checker.                                      *)

\* Accept fails and the context is not cancelled: status error; the loop ends
\* and closes the listener. An agent listener fails when its client dies.
AcceptFails(t) ==
  /\ t \in loops \ Closing
  /\ t.label \in AgentLabels /\ t.via \notin alive
  /\ loops' = loops \ {t}
  /\ failed' = failed \cup {t}
  /\ UNCHANGED <<reconVars, tunnels, taken, linkVars, hpc, waiting, envVars, faults>>

\* It fails for another reason.
AcceptBreaks(t) ==
  /\ t \in loops \ Closing
  /\ Fault
  /\ loops' = loops \ {t}
  /\ failed' = failed \cup {t}
  /\ UNCHANGED <<reconVars, tunnels, taken, linkVars, hpc, waiting, envVars>>

\* CheckTunnelHealth of the CDP tunnel, called when the browser's state
\* changes: whatever the status was, it becomes active or idle.
RefreshCDP(t) ==
  /\ t \in tunnels \cap failed /\ t.label = "CDP"
  /\ Fault
  /\ failed' = failed \ {t}
  /\ UNCHANGED <<reconVars, tunnels, loops, taken, linkVars, hpc, waiting, envVars>>

\* CheckTunnelHealth of a reverse tunnel: the TCP probe fails.
ProbeFails(t) ==
  /\ t \in tunnels \ failed /\ t.label \notin AgentLabels
  /\ Fault
  /\ failed' = failed \cup {t}
  /\ UNCHANGED <<reconVars, tunnels, loops, taken, linkVars, hpc, waiting, envVars>>

--------------------------------------------------------------------------------
(* The handlers that stop, restart, update, delete and start the instance.   *)

\* CancelReconnection deletes the loop's entry and closes the connection. A loop
\* that has not begun still begins.
HandlerCancels ==
  /\ hpc = "idle" /\ wanted /\ Fault
  /\ hpc' = "take"
  /\ client' = None /\ alive' = alive \ {client} /\ UNCHANGED pinned
  /\ relink' = CASE relink = "begun" -> "none" [] relink = "due" -> "unlisted" [] OTHER -> relink
  /\ UNCHANGED <<reconVars, tunnels, loops, failed, taken, waiting, envVars>>

\* StopTunnelsForInstance.
HandlerTakes ==
  /\ hpc = "take" /\ hpc' = "close"
  /\ TakeTunnels("handler")
  /\ UNCHANGED <<reconVars, loops, failed, linkVars, waiting, envVars, faults>>

HandlerCloses ==
  /\ hpc = "close" /\ hpc' = "status"
  /\ CloseTunnels("handler")
  /\ UNCHANGED <<reconVars, tunnels, linkVars, waiting, envVars, faults>>

\* The container that runs later has another host key than the one stored.
OtherKey == pinned' = IF pinned = "none" THEN "none" ELSE "stale"

\* The container goes down, with its connections; the row says stopped (or is
\* deleted), or restarting.
HandlerStops ==
  /\ hpc = "status" /\ hpc' = "idle"
  /\ alive' = {} /\ OtherKey /\ UNCHANGED <<client, relink>>
  /\ wanted' \in BOOLEAN /\ UNCHANGED <<legacy, hung>>
  /\ UNCHANGED <<reconVars, tunnels, loops, failed, taken, waiting, faults>>

Handler == HandlerTakes \/ HandlerCloses \/ HandlerStops

StartInstance ==
  /\ hpc = "idle" /\ ~wanted /\ Fault
  /\ wanted' = TRUE /\ UNCHANGED <<legacy, hung>>
  /\ UNCHANGED <<reconVars, tunnels, loops, failed, taken, linkVars, hpc, waiting>>

\* The browser migration moves the instance off the legacy image.
MigrateImage ==
  /\ legacy /\ Fault
  /\ legacy' = FALSE /\ UNCHANGED <<wanted, hung>>
  /\ UNCHANGED <<reconVars, tunnels, loops, failed, taken, linkVars, hpc, waiting>>

\* StopAll, and a new process.
StopAll ==
  /\ Fault
  /\ ConnExit
  /\ tunnels' = {} /\ loops' = {} /\ failed' = {}
  /\ rpc' = "idle" /\ snap' = {} /\ broken' = FALSE /\ todo' = <<>>
  /\ taken' = [p \in {"recon", "handler"} |-> {}]
  /\ hpc' = "idle" /\ waiting' = FALSE
  /\ pinned' = "none" /\ relink' = "none" /\ hung' = FALSE
  /\ UNCHANGED <<wanted, legacy>>

\* The SSH manager: the transport breaks, or all break as the container restarts
\* by itself.
ConnectionDrops ==
  /\ Fault
  /\ ConnDie /\ alive' # alive
  /\ UNCHANGED pinned \/ (alive' = {} /\ OtherKey)
  /\ UNCHANGED <<reconVars, tunnels, loops, failed, taken, relink, hpc, waiting, envVars>>

\* The keepalive drops the entry; triggerReconnect registers a loop, unless the
\* entry of an earlier one is there.
KeepaliveDrops ==
  /\ client \notin alive
  /\ ConnLeave
  /\ relink' = IF relink = "begun" THEN "begun" ELSE "due"
  /\ UNCHANGED <<reconVars, tunnels, loops, failed, taken, pinned, hpc, waiting, envVars, faults>>

\* The reconnect handler runs a loop that is not registered.
ManualReconnect ==
  /\ relink = "none" /\ relink' = "unlisted"
  /\ Fault
  /\ UNCHANGED <<reconVars, tunnels, loops, failed, taken, connVars, pinned, hpc, waiting, envVars>>

\* reconnectWithBackoff begins: Close, then ClearHostKey.
LoopBegins ==
  /\ relink \in {"due", "unlisted"}
  /\ relink' = IF relink = "due" THEN "begun" ELSE "none"
  /\ client' = None /\ alive' = alive \ {client} /\ pinned' = "none"
  /\ UNCHANGED <<reconVars, tunnels, loops, failed, taken, hpc, waiting, envVars, faults>>

\* A registered loop connects, in place of what was connected meanwhile, and
\* ends. (Other loops and other callers of EnsureConnected are left out: they do
\* what the reconciler does.)
LoopConnects ==
  /\ ConnectionMade /\ relink = "begun" /\ relink' = "none"
  /\ UNCHANGED <<reconVars, tunnels, loops, failed, taken, hpc, waiting, envVars, faults>>

\* It gives up.
LoopGivesUp ==
  /\ relink = "begun" /\ relink' = "none"
  /\ Fault \/ (~Accepted /\ UNCHANGED faults)
  /\ UNCHANGED <<reconVars, tunnels, loops, failed, taken, connVars, pinned, hpc, waiting, envVars>>

--------------------------------------------------------------------------------

TunnelNext ==
  \/ reconcile \/ BackoffElapses
  \/ \E t \in AllTunnels : AcceptFails(t) \/ AcceptBreaks(t) \/ RefreshCDP(t) \/ ProbeFails(t)
  \/ HandlerCancels \/ Handler \/ StartInstance \/ MigrateImage \/ StopAll
  \/ ReconcilerHangs \/ HangEnds
  \/ ConnectionDrops \/ KeepaliveDrops \/ ManualReconnect \/ LoopBegins
  \/ LoopConnects \/ LoopGivesUp

\* The 60 s ticker ticks, time passes, some pending Accept on a dead transport
\* returns, and a handler or a reconnection loop that has begun goes on. A wait
\* for a silent peer need not end.
TunnelFairness ==
  /\ WF_tunnelVars(reconcile) /\ WF_tunnelVars(BackoffElapses) /\ WF_tunnelVars(Handler)
  /\ WF_tunnelVars(LoopBegins)
  /\ WF_tunnelVars(\E t \in AllTunnels : AcceptFails(t))

TunnelSpec == TunnelInit /\ [][TunnelNext]_tunnelVars /\ TunnelFairness

--------------------------------------------------------------------------------

\* No listener leaks: an accept loop that runs belongs to a tunnel in the map,
\* which the next stop will find, or to one that is being closed, although
\* handlers and the reconciler take the map's entry apart concurrently.
NoOrphanListener ==
  loops \subseteq tunnels \cup Closing

\* "Removes tunnels for stopped/deleted instances": once the instance stays
\* stopped no tunnel of it stays open, even if the reconciler, having listed
\* it as running, created tunnels after the handler had stopped them; unless the
\* reconciler waits for a silent peer for good.
StoppedTunnelsGo ==
  <>[](~wanted) => <>[](loops = {} /\ tunnels = {}) \/ <>[]hung

\* The LLM proxy's agent listener is open on the connection there is.
LLMProxyUp ==
  \E t \in tunnels \cap loops : t.label = "LLMProxy" /\ t.via = client /\ client \in alive

\* The stored host key is not the container's, and nothing is left to clear it.
Refused == client = None /\ pinned = "stale" /\ relink \notin {"due", "unlisted"}

\* "Ensures tunnels exist for running instances", of the LLM proxy: once
\* the instance keeps running and failures stop, an agent listener for it is open
\* on the current connection. A tunnel on a replaced connection does not
\* count; only its Accept error tells the reconciler. It never comes back if the
\* reconciler waits for a silent peer for good, or if the host key of an earlier
\* container is stored and no reconnection loop is due.
LLMProxyHeals ==
  <>[]wanted => <>[]LLMProxyUp \/ <>[]hung \/ <>[]Refused

================================================================================
