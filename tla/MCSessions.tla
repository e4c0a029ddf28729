------------------------------- MODULE MCSessions ------------------------------
(****************************************************************************)
(* Model checking of what stays open beyond a request: the page that        *)
(* watches the tasks, the terminal sessions of an instance and its SSH      *)
(* connection, with a caller, a reconnection loop, the health checker and a *)
(* peer that may fall silent.                                               *)
(*                                                                          *)
(* Each has its own state, and no step of one reads what another writes, so *)
(* that one run checks the three: a behaviour picks one of them and the     *)
(* others rest, with none of their fair actions enabled.                    *)
(****************************************************************************)
EXTENDS TaskStream, Terminal, SSHManager

VARIABLE part

all == <<vars, streamVars, termVars, sshVars, part>>

\* While the connection is not the part that moves nobody asks for it.
ConnectionRests ==
  /\ conns = None /\ open = {} /\ hostKey = None /\ reconnecting = None
  /\ beat = [c \in Clients |-> "off"]
  /\ pc = [p \in Procs |-> IF p \in Loops THEN "idle" ELSE "rest"]
  /\ mine = [p \in Procs |-> None]
  /\ cancelled = {} /\ manual = {} /\ tries = [g \in Loops |-> 0]
  /\ quitting = FALSE /\ key = 0 /\ authorized = FALSE /\ faults = 0

SessionsInit ==
  /\ StreamInit /\ TermInit
  /\ \/ part \in {"page", "terminal"} /\ ConnectionRests
     \/ part = "connection" /\ SSHInit

SessionsNext ==
  /\ \/ part = "page" /\ StreamNext /\ UNCHANGED <<sshVars, termVars>>
     \/ part = "terminal" /\ TermNext /\ UNCHANGED <<vars, streamVars, sshVars>>
     \/ part = "connection" /\ SSHNext /\ UNCHANGED <<vars, streamVars, termVars>>
  /\ UNCHANGED part

SessionsSpec ==
  SessionsInit /\ [][SessionsNext]_all /\ Fairness /\ TermFairness /\ SSHFairness
================================================================================
