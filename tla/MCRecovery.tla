------------------------------- MODULE MCRecovery ------------------------------
(****************************************************************************)
(* Model checking of the parts that put right what failures left: the       *)
(* tunnels of an instance and their reconciler, the backups with the sweep  *)
(* after a crash, and the rotation of the key pair with the uploads that    *)
(* heal it.                                                                 *)
(*                                                                          *)
(* Each has its own state, and no step of one reads what another writes, so *)
(* that one run checks the three: a behaviour picks one of them and the     *)
(* others rest, with none of their fair actions enabled.                    *)
(****************************************************************************)
EXTENDS Backup, Tunnels, KeyRotation

VARIABLE part

all == <<allVars, tunnelVars, keyVars, part>>

\* While the tunnels are not the part that moves the reconciler hangs.
TunnelsRest ==
  /\ ConnInit
  /\ tunnels = {} /\ failed = {} /\ loops = {}
  /\ rpc = "idle" /\ snap = {} /\ broken = FALSE /\ todo = <<>>
  /\ taken = [p \in {"recon", "handler"} |-> {}]
  /\ hpc = "idle" /\ waiting = FALSE /\ wanted = TRUE /\ legacy = FALSE
  /\ pinned = "none" /\ relink = "none" /\ hung = TRUE /\ faults = 0

\* While keys are not the part that moves every agent is connected.
RecoveryInit ==
  /\ BackupInit /\ KeyInit
  /\ \/ part = "tunnels" /\ TunnelInit /\ linked = Agents
     \/ part = "backups" /\ TunnelsRest /\ linked = Agents
     \/ part = "keys" /\ TunnelsRest

RecoveryNext ==
  /\ \/ part = "tunnels" /\ TunnelNext /\ UNCHANGED <<allVars, keyVars>>
     \/ part = "backups" /\ BackupNext /\ UNCHANGED <<tunnelVars, keyVars>>
     \/ part = "keys" /\ KeyNext /\ UNCHANGED <<tunnelVars, allVars>>
  /\ UNCHANGED part

RecoverySpec ==
  RecoveryInit /\ [][RecoveryNext]_all /\ TunnelFairness /\ BackupFairness /\ KeyFairness
================================================================================
