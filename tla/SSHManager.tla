------------------------------- MODULE SSHManager -------------------------------
(****************************************************************************)
(* The SSH connection of one instance: internal/sshproxy manager.go,        *)
(* reconnect.go and health.go.                                              *)
(*                                                                          *)
(* SSHManager keys all its maps by instance id and no operation reads two   *)
(* ids at once, so the module is the slice of one id. Its goroutines are    *)
(* callers of EnsureConnected, reconnectWithBackoff loops, handlers that    *)
(* call CancelReconnection and then stop the container, the shutdown path,  *)
(* the health checker, and one keepalive goroutine per installed client.    *)
(* Each lock (m.mu, m.reconnMu, hostKeyMu) is held within one step only, so *)
(* a step of this module is one critical section. The display state kept by *)
(* state.go and the event log are left out: no step reads them.             *)
(*                                                                          *)
(* Client ids stand for *ssh.Client values and are reused once nothing      *)
(* refers to them, as are the ids of finished goroutines.                   *)
(****************************************************************************)
EXTENDS Naturals, FiniteSets

CONSTANTS
  Callers,      \* goroutines that call EnsureConnected
  Loops,        \* goroutines that run reconnectWithBackoff
  Closers,      \* goroutines that call CancelReconnection or CloseAll
  Checkers,     \* the health checker goroutine
  Clients,
  None,
  MaxRetries,   \* the maxRetries argument (10, or 3 for a manual reconnect)
  MaxFaults,    \* bound on transient failures
  MaxRestarts   \* bound on container restarts

ASSUME SSHAssumption ==
  /\ None \notin Clients \cup Loops
  /\ \A p \in Callers : p \notin Loops \cup Closers \cup Checkers
  /\ \A p \in Loops : p \notin Closers \cup Checkers
  /\ \A p \in Closers : p \notin Checkers
  /\ MaxRetries \in Nat \ {0} /\ MaxFaults \in Nat /\ MaxRestarts \in Nat

VARIABLES
  conns,        \* the entry of m.conns: a client or None
  open,         \* clients whose transport is alive at both ends
  beat,         \* the keepalive goroutine and context of each client
  reconnecting, \* the loop whose cancel function is in m.reconnecting, or None
  hostKey,      \* the entry of m.hostKeys, or None
  pc,           \* where each goroutine is
  mine,         \* the client a goroutine holds in a local variable
  cancelled,    \* loops whose context is done
  manual,       \* loops started by the reconnect handler
  tries,        \* the attempt number of each loop
  quitting,     \* CloseAll has begun
  key,          \* the host key of the agent container that runs
  authorized,   \* its authorized_keys holds the control plane's key
  faults

mapVars == <<conns, hostKey>>
loopVars == <<reconnecting, cancelled, manual, tries>>
hostVars == <<key, authorized>>
sshVars == <<conns, open, beat, reconnecting, hostKey, pc, mine, cancelled, manual, tries,
             quitting, key, authorized, faults>>

Procs == Callers \cup Loops \cup Closers \cup Checkers
Keys == 0..MaxRestarts

Labels == {"idle", "connect", "dial", "handshake", "silent", "install", "start", "close",
           "closing", "ping", "fetch", "nil", "upload", "forget", "attempt", "retry", "leave",
           "stop", "exit", "list", "probe", "trigger"}

SSHTypeOK ==
  /\ conns \in Clients \cup {None}
  /\ open \subseteq Clients
  /\ beat \in [Clients -> {"off", "new", "newStopped", "on", "stopped", "lost", "report"}]
  /\ reconnecting \in Loops \cup {None}
  /\ hostKey \in Keys \cup {None}
  /\ pc \in [Procs -> Labels]
  /\ mine \in [Procs -> Clients \cup {None}]
  /\ cancelled \subseteq Loops
  /\ manual \subseteq Loops
  /\ tries \in [Loops -> 0..MaxRetries]
  /\ quitting \in BOOLEAN
  /\ key \in Keys
  /\ authorized \in BOOLEAN
  /\ faults \in 0..MaxFaults

\* An SSHManager as NewSSHManager returns it, and a container that runs.
SSHInit ==
  /\ conns = None
  /\ open = {}
  /\ beat = [c \in Clients |-> "off"]
  /\ reconnecting = None
  /\ hostKey = None
  /\ pc = [p \in Procs |-> "idle"]
  /\ mine = [p \in Procs |-> None]
  /\ cancelled = {}
  /\ manual = {}
  /\ tries = [g \in Loops |-> 0]
  /\ quitting = FALSE
  /\ key = 0
  /\ authorized = FALSE
  /\ faults = 0

\* Goroutine p moves from one label to another.
Goto(p, from, to) == pc[p] = from /\ pc' = [pc EXCEPT ![p] = to]

\* p's local variable is assigned.
Hold(p, c) == mine' = [mine EXCEPT ![p] = c]

\* A transient failure: a broken transport, a slow command, an orchestrator
\* error, a refusal by the rate limiter, a request whose client goes away.
Fault == faults < MaxFaults /\ faults' = faults + 1

\* Clients nothing refers to any more.
Unreferenced ==
  {c \in Clients : c \notin open /\ c # conns /\ beat[c] = "off" /\ \A p \in Procs : mine[p] # c}

\* mc.cancel(): the keepalive context of client c is cancelled, before or
\* after its goroutine has started.
StopBeat(c) ==
  [beat EXCEPT ![c] = CASE @ = "new" -> "newStopped" [] @ = "on" -> "stopped" [] OTHER -> @]

--------------------------------------------------------------------------------
(* Connect, run by callers and by loops.                                     *)

\* Where a caller or a loop goes on when Connect returns.
ConnectFailed(p) == IF p \in Loops THEN "retry" ELSE "idle"
ConnectReturns(p) == IF p \in Loops THEN "leave" ELSE "idle"

\* rateLimiter.Allow refuses the attempt.
RateLimited(p) ==
  /\ Fault
  /\ Goto(p, "connect", ConnectFailed(p))
  /\ UNCHANGED <<mapVars, open, beat, mine, loopVars, quitting, hostVars>>

\* Allow passes. If the map has an entry, the stored host key is cleared.
ClearExisting(p) ==
  /\ Goto(p, "connect", "dial")
  /\ hostKey' = IF conns = None THEN hostKey ELSE None
  /\ UNCHANGED <<conns, open, beat, mine, loopVars, quitting, hostVars, faults>>

\* DialContext succeeds: the container listens and the context is not done.
Dial(p) ==
  /\ Goto(p, "dial", "handshake")
  /\ p \notin cancelled
  /\ \E c \in Unreferenced : Hold(p, c) /\ open' = open \cup {c}
  /\ UNCHANGED <<mapVars, beat, loopVars, quitting, hostVars, faults>>

\* The dial fails. (It also fails when all client ids are in use.)
DialFails(p) ==
  /\ Goto(p, "dial", ConnectFailed(p))
  /\ \/ (p \in cancelled \/ Unreferenced = {}) /\ UNCHANGED faults
     \/ Fault
  /\ UNCHANGED <<mapVars, open, beat, mine, loopVars, quitting, hostVars>>

\* Seeded error: a key other than the stored one is accepted.
hostKeyCallback_AcceptsAny == TRUE

\* hostKeyCallback: trust on first use, refuse a key other than the stored one.
hostKeyCallback == hostKey \in {None, key}

\* NewClientConn: the host key is checked, and stored on first use, before
\* the control plane's key is authenticated.
Handshake(p) ==
  /\ Goto(p, "handshake", "install")
  /\ mine[p] \in open /\ hostKeyCallback /\ authorized
  /\ hostKey' = IF hostKey = None THEN key ELSE hostKey
  /\ UNCHANGED <<conns, open, beat, mine, loopVars, quitting, hostVars, faults>>

\* The handshake fails: netConn.Close, return the error.
HandshakeFails(p) ==
  /\ Goto(p, "handshake", ConnectFailed(p))
  /\ \/ (mine[p] \notin open \/ ~hostKeyCallback) /\ UNCHANGED <<hostKey, faults>>
     \/ /\ mine[p] \in open /\ hostKeyCallback
        /\ \/ ~authorized /\ UNCHANGED faults
           \/ Fault
        /\ hostKey' = IF hostKey = None THEN key ELSE hostKey
  /\ open' = open \ {mine[p]}
  /\ Hold(p, None)
  /\ UNCHANGED <<conns, beat, loopVars, quitting, hostVars>>

\* The peer has accepted the connection and falls silent, before or after it
\* has presented its host key.
PeerSilent(p) ==
  /\ Goto(p, "handshake", "silent")
  /\ mine[p] \in open
  /\ hostKey' \in {hostKey} \cup (IF hostKey = None THEN {key} ELSE {})
  /\ UNCHANGED <<conns, open, beat, mine, loopVars, quitting, hostVars, faults>>

\* NewClientConn has no context and sets no deadline (the Timeout of
\* ssh.ClientConfig is used by ssh.Dial only): the handshake with a silent peer
\* ends with its transport.
SilentEnds(p) ==
  /\ Goto(p, "silent", ConnectFailed(p))
  /\ mine[p] \notin open
  /\ Hold(p, None)
  /\ UNCHANGED <<mapVars, open, beat, loopVars, quitting, hostVars, faults>>

\* Seeded error: the connection that was there is replaced but not closed.
Install_KeepsOld(p) ==
  /\ Goto(p, "install", "start")
  /\ conns' = mine[p]
  /\ beat' = [beat EXCEPT ![mine[p]] = "new"]
  /\ UNCHANGED <<open, hostKey, mine, loopVars, quitting, hostVars, faults>>

\* Under m.mu: stop and close the connection that is there, store the new one.
Install(p) ==
  /\ Goto(p, "install", "start")
  /\ conns' = mine[p]
  /\ open' = open \ {conns}
  /\ beat' = [(IF conns = None THEN beat ELSE StopBeat(conns)) EXCEPT ![mine[p]] = "new"]
  /\ UNCHANGED <<hostKey, mine, loopVars, quitting, hostVars, faults>>

\* After the unlock: start the keepalive goroutine and return.
StartKeepalive(p) ==
  /\ Goto(p, "start", ConnectReturns(p))
  /\ beat' = [beat EXCEPT ![mine[p]] = IF @ = "new" THEN "on" ELSE "stopped"]
  /\ Hold(p, None)
  /\ UNCHANGED <<mapVars, open, loopVars, quitting, hostVars, faults>>

Connect(p) ==
  \/ RateLimited(p) \/ ClearExisting(p) \/ Dial(p) \/ DialFails(p)
  \/ Handshake(p) \/ HandshakeFails(p) \/ PeerSilent(p) \/ SilentEnds(p) \/ Install(p) \/ StartKeepalive(p)

--------------------------------------------------------------------------------
(* Close, run by loops, closers and the health checker.                      *)

\* Where Close, or the body of CloseAll, returns to.
CloseReturns(p) ==
  CASE p \in Loops -> "forget"
    [] p \in Closers -> IF quitting THEN "exit" ELSE "stop"
    [] OTHER -> "trigger"

\* Under m.mu: nothing to close, or take the entry out of the map.
TakeEntry(p) ==
  /\ Goto(p, "close", IF conns = None THEN CloseReturns(p) ELSE "closing")
  /\ Hold(p, conns)
  /\ conns' = None
  /\ UNCHANGED <<open, beat, hostKey, loopVars, quitting, hostVars, faults>>

\* After the unlock: cancel the keepalive and close the client.
CloseClient(p) ==
  /\ Goto(p, "closing", CloseReturns(p))
  /\ beat' = StopBeat(mine[p])
  /\ open' = open \ {mine[p]}
  /\ Hold(p, None)
  /\ UNCHANGED <<mapVars, loopVars, quitting, hostVars, faults>>

Close(p) == TakeEntry(p) \/ CloseClient(p)

--------------------------------------------------------------------------------
(* EnsureConnected.                                                          *)

\* IsConnected reads the entry.
EnsureConnected(p) ==
  /\ Goto(p, "idle", IF conns = None THEN "upload" ELSE "ping")
  /\ Hold(p, conns)
  /\ UNCHANGED <<mapVars, open, beat, loopVars, quitting, hostVars, faults>>

\* IsConnected sends a keepalive over the client it read.
IsConnected(p) ==
  /\ Goto(p, "ping", IF mine[p] \in open THEN "fetch" ELSE "upload")
  /\ Hold(p, None)
  /\ UNCHANGED <<mapVars, open, beat, loopVars, quitting, hostVars, faults>>

\* It answered: EnsureConnected returns what GetConnection finds, and no error.
\* "nil" is a caller that was handed a nil client.
GetConnection(p) ==
  /\ Goto(p, "fetch", IF conns = None THEN "nil" ELSE "idle")
  /\ UNCHANGED <<mapVars, open, beat, mine, loopVars, quitting, hostVars, faults>>

\* The caller with the nil client fails.
NilClient(p) ==
  /\ Goto(p, "nil", "idle")
  /\ UNCHANGED <<mapVars, open, beat, mine, loopVars, quitting, hostVars, faults>>

\* GetSSHAddress and ConfigureSSHAccess succeed: the key is in authorized_keys.
UploadKey(p) ==
  /\ Goto(p, "upload", "connect")
  /\ authorized' = TRUE
  /\ UNCHANGED <<mapVars, open, beat, mine, loopVars, quitting, key, faults>>

\* One of them fails, the caller's context is done or the source address is
\* not allowed: return the error.
UploadKeyFails(p) ==
  /\ Goto(p, "upload", "idle")
  /\ Fault
  /\ UNCHANGED <<mapVars, open, beat, mine, loopVars, quitting, hostVars>>

Caller(p) ==
  \/ EnsureConnected(p) \/ IsConnected(p) \/ GetConnection(p) \/ NilClient(p)
  \/ UploadKey(p) \/ UploadKeyFails(p) \/ Connect(p)

--------------------------------------------------------------------------------
(* Reconnection: triggerReconnect, ReconnectWithBackoff, reconnectWithBackoff. *)

\* triggerReconnect, called by a goroutine that moves the counters to pcs:
\* dropped while an entry is there, otherwise a new loop is registered. The
\* loop begins with Close.
triggerReconnect(pcs) ==
  \/ /\ reconnecting # None
     /\ pc' = pcs
     /\ UNCHANGED loopVars
  \/ /\ reconnecting = None
     /\ \E g \in Loops :
          /\ pcs[g] = "idle"
          /\ pc' = [pcs EXCEPT ![g] = "close"]
          /\ reconnecting' = g
     /\ UNCHANGED <<cancelled, manual, tries>>

\* The reconnect handler runs the loop itself, without an entry.
ReconnectWithBackoff(g) ==
  /\ Goto(g, "idle", "close")
  /\ manual' = manual \cup {g}
  /\ UNCHANGED <<mapVars, open, beat, mine, reconnecting, cancelled, tries, quitting, hostVars, faults>>

\* After Close: ClearHostKey, then the first attempt.
ClearHostKey(g) ==
  /\ Goto(g, "forget", "attempt")
  /\ hostKey' = None
  /\ tries' = [tries EXCEPT ![g] = 1]
  /\ UNCHANGED <<conns, open, beat, mine, reconnecting, cancelled, manual, quitting, hostVars, faults>>

\* The context is not done, the key upload and the address lookup succeed.
Attempt(g) ==
  /\ Goto(g, "attempt", "connect")
  /\ g \notin cancelled
  /\ authorized' = TRUE
  /\ UNCHANGED <<mapVars, open, beat, mine, loopVars, quitting, key, faults>>

\* The context is done, or the container is not found: return at once.
AttemptAborted(g) ==
  /\ Goto(g, "attempt", "leave")
  /\ \/ g \in cancelled /\ UNCHANGED faults
     \/ g \notin cancelled /\ Fault
  /\ UNCHANGED <<mapVars, open, beat, mine, loopVars, quitting, hostVars>>

\* The key upload or the address lookup fails for another reason.
AttemptFails(g) ==
  /\ Goto(g, "attempt", "retry")
  /\ g \notin cancelled
  /\ Fault
  /\ UNCHANGED <<mapVars, open, beat, mine, loopVars, quitting, hostVars>>

\* The backoff elapses.
Backoff(g) ==
  /\ Goto(g, "retry", "attempt")
  /\ tries[g] < MaxRetries
  /\ tries' = [tries EXCEPT ![g] = @ + 1]
  /\ UNCHANGED <<mapVars, open, beat, mine, reconnecting, cancelled, manual, quitting, hostVars, faults>>

\* Seeded error: after the last attempt the loop waits for its context as well.
GiveUp_Waits(g) ==
  /\ Goto(g, "retry", "leave")
  /\ g \in cancelled
  /\ UNCHANGED <<mapVars, open, beat, mine, loopVars, quitting, hostVars, faults>>

\* The context is done during the backoff, or all retries are exhausted.
GiveUp(g) ==
  /\ Goto(g, "retry", "leave")
  /\ tries[g] = MaxRetries \/ g \in cancelled
  /\ UNCHANGED <<mapVars, open, beat, mine, loopVars, quitting, hostVars, faults>>

\* Seeded error: the deferred function does not delete the entry.
LeaveLoop_EntryKept(g) ==
  /\ Goto(g, "leave", "idle")
  /\ manual' = manual \ {g}
  /\ cancelled' = cancelled \ {g}
  /\ tries' = [tries EXCEPT ![g] = 0]
  /\ UNCHANGED <<mapVars, open, beat, mine, reconnecting, quitting, hostVars, faults>>

\* The loop returns; the deferred function of triggerReconnect's goroutine
\* deletes the entry of the instance, whichever loop registered it.
LeaveLoop(g) ==
  /\ Goto(g, "leave", "idle")
  /\ reconnecting' = IF g \in manual THEN reconnecting ELSE None
  /\ manual' = manual \ {g}
  /\ cancelled' = cancelled \ {g}
  /\ tries' = [tries EXCEPT ![g] = 0]
  /\ UNCHANGED <<mapVars, open, beat, mine, quitting, hostVars, faults>>

reconnectWithBackoff(g) ==
  \/ Close(g) \/ ClearHostKey(g) \/ Attempt(g) \/ AttemptAborted(g) \/ AttemptFails(g)
  \/ Connect(g) \/ Backoff(g) \/ GiveUp(g) \/ LeaveLoop(g)

\* The HTTP request of a manual loop goes away.
RequestGone(g) ==
  /\ g \in manual \ cancelled
  /\ cancelled' = cancelled \cup {g}
  /\ Fault
  /\ UNCHANGED <<mapVars, open, beat, pc, mine, reconnecting, manual, tries, quitting, hostVars>>

--------------------------------------------------------------------------------
(* CancelReconnection and CloseAll.                                          *)

\* Under reconnMu: cancel the registered loop and delete its entry; then Close.
CancelEntry(p) ==
  /\ Goto(p, "idle", "close")
  /\ cancelled' = IF reconnecting = None THEN cancelled ELSE cancelled \cup {reconnecting}
  /\ reconnecting' = None
  /\ UNCHANGED <<mapVars, open, beat, mine, manual, tries, hostVars, faults>>

CancelReconnection(p) == CancelEntry(p) /\ ~quitting /\ UNCHANGED quitting

\* The container ends, with its transports, and another one starts: with a
\* new host key and without authorized_keys. (While it is down, what needs it
\* fails with a Fault.)
Restart ==
  /\ key < MaxRestarts
  /\ key' = key + 1
  /\ authorized' = FALSE
  /\ open' = {}

\* The handler that cancelled restarts the container, or stops it and it is
\* started later, or the orchestrator fails.
RestartContainer(p) ==
  /\ Goto(p, "stop", "idle")
  /\ Restart \/ UNCHANGED <<hostVars, open>>
  /\ UNCHANGED <<mapVars, beat, mine, loopVars, quitting, faults>>

\* Shutdown: the health checker is stopped, then as CancelReconnection.
CloseAll(p) == CancelEntry(p) /\ ~quitting /\ quitting' = TRUE

\* The process ends; another one starts with NewSSHManager.
Exit(p) ==
  /\ pc[p] = "exit"
  /\ conns' = None /\ open' = {} /\ beat' = [c \in Clients |-> "off"]
  /\ reconnecting' = None /\ hostKey' = None
  /\ pc' = [q \in Procs |-> "idle"] /\ mine' = [q \in Procs |-> None]
  /\ cancelled' = {} /\ manual' = {} /\ tries' = [g \in Loops |-> 0]
  /\ quitting' = FALSE
  /\ UNCHANGED <<hostVars, faults>>

--------------------------------------------------------------------------------
(* The keepalive goroutine of a client.                                      *)

KeepaliveStops(c) ==
  /\ beat[c] = "stopped"
  /\ beat' = [beat EXCEPT ![c] = "off"]
  /\ UNCHANGED <<mapVars, open, pc, mine, loopVars, quitting, hostVars, faults>>

\* A tick finds the transport dead, even if the context was just cancelled.
KeepaliveFails(c) ==
  /\ beat[c] \in {"on", "stopped"} /\ c \notin open
  /\ beat' = [beat EXCEPT ![c] = "lost"]
  /\ UNCHANGED <<mapVars, open, pc, mine, loopVars, quitting, hostVars, faults>>

\* Under m.mu: the entry is deleted if it is still this client's.
RemoveDead(c) ==
  /\ beat[c] = "lost"
  /\ conns' = IF conns = c THEN None ELSE conns
  /\ beat' = [beat EXCEPT ![c] = "report"]
  /\ UNCHANGED <<open, hostKey, pc, mine, loopVars, quitting, hostVars, faults>>

\* triggerReconnect, return.
ReportDead(c) ==
  /\ beat[c] = "report"
  /\ beat' = [beat EXCEPT ![c] = "off"]
  /\ triggerReconnect(pc)
  /\ UNCHANGED <<mapVars, open, mine, quitting, hostVars, faults>>

keepalive(c) == KeepaliveStops(c) \/ KeepaliveFails(c) \/ RemoveDead(c) \/ ReportDead(c)

--------------------------------------------------------------------------------
(* The health checker: checkAllConnections and HealthCheck.                  *)

\* A tick lists the connections; CloseAll has stopped the ticker.
checkAllConnections(h) ==
  /\ ~quitting /\ conns # None
  /\ Goto(h, "idle", "list")
  /\ UNCHANGED <<mapVars, open, beat, mine, loopVars, quitting, hostVars, faults>>

\* HealthCheck reads the entry; one that has gone is a failure too.
HealthRead(h) ==
  /\ Goto(h, "list", IF conns = None THEN "close" ELSE "probe")
  /\ Hold(h, conns)
  /\ UNCHANGED <<mapVars, open, beat, loopVars, quitting, hostVars, faults>>

HealthPasses(h) ==
  /\ Goto(h, "probe", "idle")
  /\ mine[h] \in open
  /\ Hold(h, None)
  /\ UNCHANGED <<mapVars, open, beat, loopVars, quitting, hostVars, faults>>

\* The command fails or times out; Close follows.
HealthFails(h) ==
  /\ Goto(h, "probe", "close")
  /\ \/ mine[h] \notin open /\ UNCHANGED faults
     \/ Fault
  /\ Hold(h, None)
  /\ UNCHANGED <<mapVars, open, beat, loopVars, quitting, hostVars>>

\* After Close: triggerReconnect.
HealthTrigger(h) ==
  /\ pc[h] = "trigger"
  /\ triggerReconnect([pc EXCEPT ![h] = "idle"])
  /\ UNCHANGED <<mapVars, open, beat, mine, quitting, hostVars, faults>>

HealthChecker(h) ==
  \/ checkAllConnections(h) \/ HealthRead(h) \/ HealthPasses(h) \/ HealthFails(h) \/ Close(h)
  \/ HealthTrigger(h)

--------------------------------------------------------------------------------
(* The environment: the network and the agent container.                     *)

NetworkBreaks(c) ==
  /\ c \in open
  /\ Fault
  /\ open' = open \ {c}
  /\ UNCHANGED <<mapVars, beat, pc, mine, loopVars, quitting, hostVars>>

\* The container restarts by itself.
ContainerRestarts ==
  /\ Restart
  /\ UNCHANGED <<mapVars, beat, pc, mine, loopVars, quitting, faults>>

--------------------------------------------------------------------------------

SSHNext ==
  \/ \E p \in Callers : Caller(p)
  \/ \E g \in Loops : reconnectWithBackoff(g) \/ ReconnectWithBackoff(g) \/ RequestGone(g)
  \/ \E p \in Closers : CancelReconnection(p) \/ CloseAll(p) \/ Close(p) \/ RestartContainer(p) \/ Exit(p)
  \/ \E h \in Checkers : HealthChecker(h)
  \/ \E c \in Clients : keepalive(c) \/ NetworkBreaks(c)
  \/ ContainerRestarts

\* Goroutines that run go on running; tickers tick; the tunnel manager's
\* 60 s reconciliation keeps calling EnsureConnected. Requests, failures,
\* container restarts and the end of the process may or may not come.
SSHFairness ==
  /\ \A p \in Callers : WF_sshVars(Caller(p))
  /\ \A g \in Loops : WF_sshVars(reconnectWithBackoff(g))
  /\ \A p \in Closers : WF_sshVars(Close(p) \/ RestartContainer(p))
  /\ \A h \in Checkers : WF_sshVars(HealthChecker(h))
  /\ \A c \in Clients : WF_sshVars(keepalive(c))

SSHSpec == SSHInit /\ [][SSHNext]_sshVars /\ SSHFairness

--------------------------------------------------------------------------------

\* No connection leaks: a live transport belongs to the entry of the map, or
\* to a goroutine that is about to install it or to close it. Connect closes
\* what it replaces and what it fails to set up, Close and CloseAll what they
\* take out.
NoLeakedClient ==
  \A c \in open : \/ conns = c
                  \/ \E p \in Procs : mine[p] = c /\ pc[p] \in {"handshake", "silent", "install", "closing"}

\* The connection in the map is watched: its keepalive goroutine runs with a
\* live context, or the Connect that stored it is about to start it. Otherwise
\* a connection that dies would stay in the map.
Monitored ==
  conns # None =>
    \/ beat[conns] \in {"on", "lost"}
    \/ beat[conns] = "new" /\ \E p \in Procs : pc[p] = "start" /\ mine[p] = conns

\* Trust on first use: while a connection whose handshake is over is alive,
\* the stored host key is the one its container presented, or was cleared.
PinnedKey ==
  \A c \in open : (\A p \in Procs : mine[p] = c => pc[p] \notin {"handshake", "silent"})
                  => hostKey \in {None, key}

\* An entry of m.reconnecting belongs to a loop that runs and was not
\* cancelled. A stale entry would make triggerReconnect drop every later call
\* and the instance would never reconnect by itself.
EntryHasLiveLoop ==
  reconnecting # None => pc[reconnecting] # "idle" /\ reconnecting \notin cancelled \cup manual

Conn == INSTANCE SSHConnection WITH
  client <- conns,
  alive <- open \ {mine[p] : p \in {q \in Procs : pc[q] \in {"handshake", "silent", "install"}}}

\* The manager implements SSHConnection, the contract its users rely on: a
\* client that is replaced is closed with the same step that stores the new
\* one, and nothing but a Connect makes a transport appear.
ImplementsConnection == Conn!ConnSpec

\* Every reconnection loop ends (connected, given up, aborted or cancelled),
\* unless a peer that has accepted its connection stays silent for good.
ReconnectEnds ==
  \A g \in Loops : <>[](pc[g] # "idle") => <>[](pc[g] = "silent")

\* What EnsureConnected's comment promises, "the single entry point for
\* obtaining an SSH connection": a call without an error returns a client.
EnsureReturnsClient ==
  \A p \in Callers : pc[p] # "nil"


================================================================================
