-------------------------------- MODULE Terminal -------------------------------
(****************************************************************************)
(* Terminal sessions: internal/sshterminal and the WebSocket handler        *)
(* handlers/terminal.go, for one instance.                                  *)
(*                                                                          *)
(* A session is a shell with a pump that reads its output, and outlives     *)
(* the client that opened it. Clients come and go, the reaper and the close *)
(* handler remove sessions under the manager's lock and close them outside  *)
(* it, and the pump hands output to whoever was attached when it read it.   *)
(* Output is a sequence of numbered chunks; input and resizing, which       *)
(* change no state here, and the rate limiter are left out.                 *)
(****************************************************************************)
EXTENDS Naturals

CONSTANTS
  Sockets,     \* WebSocket connections
  Sessions,    \* session ids
  MaxChunks,   \* bound on the output of a shell
  Scrollback   \* chunks the scrollback buffer holds

Nobody == "nobody"
NoSession == "none"

ASSUME TerminalAssumption ==
  /\ MaxChunks \in Nat /\ Scrollback \in Nat \ {0}
  /\ Nobody \notin Sockets /\ NoSession \notin Sessions

VARIABLES
  sessions,    \* ids in the manager's map
  closing,     \* sessions out of the map whose close has still to run
  ms,          \* the managed sessions
  pump,        \* the chunk each pump has read and not written, and for whom
  socket       \* the handler of each connection

termVars == <<sessions, closing, ms, pump, socket>>

NoMS == [shell |-> "none", done |-> FALSE, attached |-> FALSE, detached |-> FALSE,
         writer |-> Nobody, written |-> 0]
Resting == [chunk |-> 0, to |-> Nobody]
Outside == [pc |-> "outside", session |-> NoSession, history |-> {}, from |-> 0, got |-> {}]
Gone == [Outside EXCEPT !.pc = "gone"]

ManagedSessions ==
  [shell : {"none", "up", "down"}, done : BOOLEAN, attached : BOOLEAN, detached : BOOLEAN,
   writer : Sockets \cup {Nobody}, written : 0..MaxChunks]
Handlers ==
  [pc : {"outside", "info", "attach", "replay", "relay", "detach", "gone"},
   session : Sessions \cup {NoSession}, history : SUBSET Nat,
   from : Nat, got : SUBSET Nat]

TermTypeOK ==
  /\ sessions \subseteq Sessions /\ closing \subseteq Sessions
  /\ ms \in [Sessions -> ManagedSessions]
  /\ pump \in [Sessions -> [chunk : Nat, to : Sockets \cup {Nobody}]]
  /\ socket \in [Sockets -> Handlers]

TermInit ==
  /\ sessions = {} /\ closing = {}
  /\ ms = [s \in Sessions |-> NoMS]
  /\ pump = [s \in Sessions |-> Resting]
  /\ socket = [c \in Sockets |-> Outside]

\* The ring buffer: the last chunks written, in order.
HistoryBytes(s) == {n \in 1..ms[s].written : n + Scrollback > ms[s].written}

--------------------------------------------------------------------------------
(* The handler of a connection.                                              *)

\* CreateSession: a shell, its pump, and the entry in the map.
CreateSession(c, s) ==
  /\ socket[c].pc = "outside" /\ ms[s] = NoMS
  /\ ms' = [ms EXCEPT ![s] = [NoMS EXCEPT !.shell = "up"]]
  /\ sessions' = sessions \cup {s}
  /\ socket' = [socket EXCEPT ![c] = [socket[c] EXCEPT !.pc = "info", !.session = s]]
  /\ UNCHANGED <<closing, pump>>

\* GetSession and IsAttached: an attached session is refused.
Reconnect(c, s) ==
  /\ socket[c].pc = "outside" /\ s \in sessions
  /\ socket' = [socket EXCEPT ![c] =
       IF ms[s].attached THEN Gone ELSE [socket[c] EXCEPT !.pc = "info", !.session = s]]
  /\ UNCHANGED <<sessions, closing, ms, pump>>

\* session_info is sent; if that fails the handler returns.
SendInfo(c) ==
  /\ socket[c].pc = "info"
  /\ \/ socket' = [socket EXCEPT ![c] = [socket[c] EXCEPT !.pc = "attach"]]
     \/ socket' = [socket EXCEPT ![c] = Gone]
  /\ UNCHANGED <<sessions, closing, ms, pump>>

\* Seeded error: the history is read before the lock is taken for the writer.
Attach_HistoryFirst(c) ==
  LET s == socket[c].session IN
  \/ /\ socket[c].pc = "attach"
     /\ socket' = [socket EXCEPT ![c] =
          [socket[c] EXCEPT !.pc = "attaching", !.history = HistoryBytes(s), !.from = ms[s].written]]
     /\ UNCHANGED <<sessions, closing, ms, pump>>
  \/ /\ socket[c].pc = "attaching"
     /\ ms' = [ms EXCEPT ![s] =
          [ms[s] EXCEPT !.attached = TRUE, !.detached = FALSE, !.writer = c]]
     /\ socket' = [socket EXCEPT ![c] = [socket[c] EXCEPT !.pc = "replay"]]
     /\ UNCHANGED <<sessions, closing, pump>>

\* Under the session's lock: become the writer and take the history.
Attach(c) ==
  LET s == socket[c].session IN
  /\ socket[c].pc = "attach"
  /\ ms' = [ms EXCEPT ![s] =
       [ms[s] EXCEPT !.attached = TRUE, !.detached = FALSE, !.writer = c]]
  /\ socket' = [socket EXCEPT ![c] =
       [socket[c] EXCEPT !.pc = "replay", !.history = HistoryBytes(s), !.from = ms[s].written]]
  /\ UNCHANGED <<sessions, closing, pump>>

Replay(c) ==
  /\ socket[c].pc = "replay"
  /\ \/ socket' = [socket EXCEPT ![c] =
          [socket[c] EXCEPT !.pc = "relay", !.got = socket[c].got \cup socket[c].history, !.history = {}]]
     \/ socket' = [socket EXCEPT ![c] = [socket[c] EXCEPT !.pc = "detach"]]
  /\ UNCHANGED <<sessions, closing, ms, pump>>

\* The client goes away.
Leave(c) ==
  /\ socket[c].pc = "relay"
  /\ socket' = [socket EXCEPT ![c] = [socket[c] EXCEPT !.pc = "detach"]]
  /\ UNCHANGED <<sessions, closing, ms, pump>>

\* The watcher of Done cancels the relay.
SessionDone(c) ==
  /\ socket[c].pc = "relay" /\ ms[socket[c].session].done
  /\ socket' = [socket EXCEPT ![c] = [socket[c] EXCEPT !.pc = "detach"]]
  /\ UNCHANGED <<sessions, closing, ms, pump>>

\* Deferred, whoever the writer is by now.
Detach(c) ==
  LET s == socket[c].session IN
  /\ socket[c].pc = "detach"
  /\ ms' = [ms EXCEPT ![s] =
       [ms[s] EXCEPT !.attached = FALSE, !.detached = TRUE, !.writer = Nobody]]
  /\ socket' = [socket EXCEPT ![c] = Gone]
  /\ UNCHANGED <<sessions, closing, pump>>

--------------------------------------------------------------------------------
(* The pump of a session, and its shell.                                     *)

\* A chunk goes to the history, and the writer is read, under the lock.
PumpReads(s) ==
  /\ ms[s].shell = "up" /\ pump[s] = Resting /\ ms[s].written < MaxChunks
  /\ ms' = [ms EXCEPT ![s] = [ms[s] EXCEPT !.written = ms[s].written + 1]]
  /\ pump' = [pump EXCEPT ![s] = [chunk |-> ms[s].written + 1, to |-> ms[s].writer]]
  /\ UNCHANGED <<sessions, closing, socket>>

\* Outside the lock; a client that has gone loses it.
PumpWrites(s) ==
  /\ pump[s] # Resting
  /\ pump' = [pump EXCEPT ![s] = Resting]
  /\ socket' = [c \in Sockets |->
       IF c = pump[s].to /\ socket[c].session = s
       THEN [socket[c] EXCEPT !.got = socket[c].got \cup {pump[s].chunk}] ELSE socket[c]]
  /\ UNCHANGED <<sessions, closing, ms>>

\* Reading fails once the shell is down: close(done).
PumpEnds(s) ==
  /\ ms[s].shell = "down" /\ pump[s] = Resting /\ ~ms[s].done
  /\ ms' = [ms EXCEPT ![s] = [ms[s] EXCEPT !.done = TRUE]]
  /\ UNCHANGED <<sessions, closing, pump, socket>>

\* The user leaves the shell, or the SSH connection is lost.
ShellExits(s) ==
  /\ ms[s].shell = "up"
  /\ ms' = [ms EXCEPT ![s] = [ms[s] EXCEPT !.shell = "down"]]
  /\ UNCHANGED <<sessions, closing, pump, socket>>

--------------------------------------------------------------------------------
(* Removing sessions: out of the map under its lock, closed outside it.      *)

RemoveSession(s) ==
  /\ sessions' = sessions \ {s}
  /\ closing' = closing \cup {s}
  /\ UNCHANGED <<ms, pump, socket>>

CloseSession(s) == s \in sessions /\ RemoveSession(s)

\* Detached for longer than the timeout. A session that no client has ever
\* attached has no detachedAt.
reapIdle(s) == s \in sessions /\ ~ms[s].attached /\ ms[s].detached /\ RemoveSession(s)

\* Seeded error: the writer is dropped, the shell is not.
CloseManaged_ShellKept(s) ==
  /\ s \in closing
  /\ closing' = closing \ {s}
  /\ ms' = [ms EXCEPT ![s].writer = Nobody]
  /\ UNCHANGED <<sessions, pump, socket>>

CloseManaged(s) ==
  /\ s \in closing
  /\ closing' = closing \ {s}
  /\ ms' = [ms EXCEPT ![s] = [ms[s] EXCEPT !.writer = Nobody, !.shell = "down"]]
  /\ UNCHANGED <<sessions, pump, socket>>

--------------------------------------------------------------------------------
HandlerStep(c) ==
  SendInfo(c) \/ Attach(c) \/ Replay(c) \/ SessionDone(c) \/ Detach(c)

SessionStep(s) == PumpWrites(s) \/ PumpEnds(s) \/ CloseManaged(s)

TermNext ==
  \/ \E c \in Sockets :
       \/ \E s \in Sessions : CreateSession(c, s) \/ Reconnect(c, s)
       \/ HandlerStep(c)
       \/ Leave(c)
  \/ \E s \in Sessions :
       \/ PumpReads(s) \/ SessionStep(s)
       \/ ShellExits(s) \/ CloseSession(s) \/ reapIdle(s)

\* Goroutines go on, writes to a client return.
TermFairness ==
  /\ \A c \in Sockets : WF_termVars(HandlerStep(c))
  /\ \A s \in Sessions : WF_termVars(SessionStep(s))

TermSpec == TermInit /\ [][TermNext]_termVars /\ TermFairness

--------------------------------------------------------------------------------
(* Properties.                                                               *)

\* A client that is the writer of its session misses no output and gets none
\* twice: what it got live, what the pump is writing to it and the history it
\* has still to replay make up, without overlap, the scrollback it found and
\* everything since (Attach and pumpOutput share the session's lock).
OutputOnce ==
  \A c \in Sockets :
    LET s == socket[c].session
        live == IF s # NoSession /\ pump[s].to = c THEN {pump[s].chunk} ELSE {} IN
    s # NoSession /\ socket[c].pc \in {"replay", "relay"} /\ ms[s].writer = c =>
      /\ live \cap socket[c].got = {} /\ socket[c].history \cap (socket[c].got \cup live) = {}
      /\ {n \in 1..ms[s].written : n + Scrollback > socket[c].from}
           = socket[c].got \cup live \cup socket[c].history

\* A client of a session that was closed, reaped or whose shell has ended is
\* let go, even if it attached after the session left the map (close ends the
\* shell, the pump closes done, the relay is cancelled).
RelayEnds ==
  \A c \in Sockets : \A s \in Sessions :
    ~ <>[](socket[c].session = s /\ (s \notin sessions \/ ms[s].shell = "down"))

================================================================================
