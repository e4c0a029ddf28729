----------------------------- MODULE SSHConnection -----------------------------
(****************************************************************************)
(* What internal/sshproxy's SSHManager promises its users about one         *)
(* instance: the entry of m.conns and the transports that are alive. It is  *)
(* what TunnelManager relies on; SSHManager is shown to implement it.       *)
(****************************************************************************)

CONSTANTS Clients, None

VARIABLES
  client,   \* the client GetConnection returns, or None
  alive     \* clients whose transport is alive, from their Install on

connVars == <<client, alive>>

ConnInit == client = None /\ alive = {}

\* Connect stores a client, which may have died since its handshake, and
\* closes the one that was there.
ConnInstall(c) ==
  /\ c # client /\ c \notin alive
  /\ client' = c
  /\ alive' \in {alive \ {client}, (alive \ {client}) \cup {c}}

\* Close or the keepalive goroutine takes the entry out; the client it held
\* is closed later, if it is not dead already.
ConnLeave ==
  /\ client # None
  /\ client' = None
  /\ UNCHANGED alive

\* Transports end: closed by their owner, broken, or gone with the container.
ConnDie ==
  /\ alive' \in SUBSET alive
  /\ UNCHANGED client

\* The process ends and another one starts.
ConnExit == client' = None /\ alive' = {}

ConnNext == (\E c \in Clients : ConnInstall(c)) \/ ConnLeave \/ ConnDie \/ ConnExit

ConnSpec == ConnInit /\ [][ConnNext]_connVars

================================================================================
