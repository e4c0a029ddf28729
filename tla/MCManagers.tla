------------------------------- MODULE MCManagers ------------------------------
(****************************************************************************)
(* Model checking of the managers whose safety rests on their own locks:    *)
(* the task registry, the connection of an instance with loops, handlers    *)
(* and restarts that overlap, and the tokens behind the LLM gateway.        *)
(*                                                                          *)
(* Each has its own state, and no step of one reads what another writes, so *)
(* that one run checks the three: a behaviour picks one of them and the     *)
(* others rest. Nothing is asked here that needs fairness.                  *)
(****************************************************************************)
EXTENDS TaskManager, SSHManager, CodexOAuth, TLC

VARIABLE part

all == <<vars, sshVars, oauthVars, part>>

ManagersInit == Init /\ SSHInit /\ OAuthInit /\ part \in {"tasks", "connection", "gateway"}

ManagersNext ==
  /\ \/ part = "tasks" /\ Next /\ UNCHANGED <<sshVars, oauthVars>>
     \/ part = "connection" /\ SSHNext /\ UNCHANGED <<vars, oauthVars>>
     \/ part = "gateway" /\ OAuthNext /\ UNCHANGED <<vars, sshVars>>
  /\ UNCHANGED part

ManagersSpec == ManagersInit /\ [][ManagersNext]_all

\* Tasks, loops and clients are never told apart or chosen.
Symmetry == Permutations(Tasks) \cup Permutations(Loops) \cup Permutations(Clients)
================================================================================
