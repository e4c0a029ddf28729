------------------------------ MODULE KeyRotation ------------------------------
(****************************************************************************)
(* Rotation of the control plane's SSH key pair: internal/sshkeys and its   *)
(* callers in handlers/rotation.go, with the key files of sshproxy/keys.go. *)
(*                                                                          *)
(* A rotation appends the new key to every agent, swaps the two files, puts *)
(* the pair into the SSH manager, and removes the old key where the new one *)
(* works. Meanwhile agents that have no connection are connected, which     *)
(* overwrites their authorized_keys with the manager's public key; requests *)
(* and file operations fail, the process may crash between any two steps,   *)
(* and nothing keeps the daily job and a request, or two requests, apart.   *)
(****************************************************************************)
EXTENDS Integers

CONSTANTS
  Agents,        \* running instances
  MaxRotations,  \* bound on rotations
  MaxSlips       \* bound on failed operations and crashes

ASSUME RotationAssumption == MaxRotations \in Nat /\ MaxSlips \in Nat

\* Rotation r makes key r; key 0 is there at the start.
Rotations == 1..MaxRotations
Keys == 0..MaxRotations
NoKey == -1

VARIABLES
  authorized,  \* keys in the authorized_keys of each agent
  files,       \* ssh_key and ssh_key.pub, and their .old copies
  manager,     \* signer and public key of the SSH manager
  rotation,    \* each rotation, and how far it is with each agent
  linked,      \* agents with a healthy connection, which survives new keys
  upload,      \* the public key each EnsureConnected is about to upload
  dialing,     \* agents whose EnsureConnected is in Connect
  slips,
  restarted,   \* history: the process has been restarted
  unsafe       \* history: rotations overlapped, a restore failed, or the
               \* process crashed while the files were being written

keyVars == <<authorized, files, manager, rotation, linked, upload, dialing, slips, restarted, unsafe>>

\* What EnsureConnected keeps.
ensureVars == <<linked, upload, dialing>>

RotationPhases == {"idle", "append", "backup", "backupPub", "save", "savePub", "restore",
           "restorePub", "reload", "test", "over"}

KeyTypeOK ==
  /\ authorized \in [Agents -> SUBSET Keys]
  /\ files \in [key : Keys \cup {NoKey}, pub : Keys \cup {NoKey},
                oldKey : Keys \cup {NoKey}, oldPub : Keys \cup {NoKey}]
  /\ manager \in [signer : Keys \cup {NoKey}, public : Keys \cup {NoKey}]
  /\ rotation \in [Rotations -> [pc : RotationPhases,
       agent : [Agents -> {"todo", "appended", "failed", "tested", "ok"}]]]
  /\ linked \subseteq Agents /\ upload \in [Agents -> Keys \cup {NoKey}] /\ dialing \subseteq Agents

\* A process that has not rotated a key; some agents are connected.
KeyInit ==
  /\ authorized = [a \in Agents |-> {0}]
  /\ files = [key |-> 0, pub |-> 0, oldKey |-> NoKey, oldPub |-> NoKey]
  /\ manager = [signer |-> 0, public |-> 0]
  /\ rotation = [r \in Rotations |-> [pc |-> "idle", agent |-> [a \in Agents |-> "todo"]]]
  /\ linked \in SUBSET Agents /\ upload = [a \in Agents |-> NoKey] /\ dialing = {}
  /\ slips = 0 /\ restarted = FALSE /\ unsafe = FALSE

InProgress(r) == rotation[r].pc \notin {"idle", "over"}

Slip == slips < MaxSlips /\ slips' = slips + 1

Goes(r, pc) == rotation' = [rotation EXCEPT ![r].pc = pc]
Over(r) == rotation' = [rotation EXCEPT ![r] = [pc |-> "over", agent |-> [a \in Agents |-> "todo"]]]
AgentGoes(r, a, s) == rotation' = [rotation EXCEPT ![r].agent[a] = s]

--------------------------------------------------------------------------------
(* RotateGlobalKeyPair.                                                      *)

\* A request or the daily job; rotations are numbered as they start.
Rotate(r) ==
  /\ rotation[r].pc = "idle" /\ \A q \in 1..(r - 1) : rotation[q].pc # "idle"
  /\ Goes(r, "append")
  /\ unsafe' = (unsafe \/ \E q \in Rotations : InProgress(q))
  /\ UNCHANGED <<authorized, files, manager, ensureVars, slips, restarted>>

\* Both keys work from here on.
appendPublicKey(r, a) ==
  /\ rotation[r].pc = "append" /\ rotation[r].agent[a] = "todo"
  /\ authorized' = [authorized EXCEPT ![a] = @ \cup {r}]
  /\ AgentGoes(r, a, "appended")
  /\ UNCHANGED <<files, manager, ensureVars, slips, restarted, unsafe>>

AppendFails(r, a) ==
  /\ rotation[r].pc = "append" /\ rotation[r].agent[a] = "todo" /\ Slip
  /\ AgentGoes(r, a, "failed")
  /\ UNCHANGED <<authorized, files, manager, ensureVars, restarted, unsafe>>

Appended(r) ==
  /\ rotation[r].pc = "append" /\ \A a \in Agents : rotation[r].agent[a] # "todo"
  /\ Goes(r, "backup")
  /\ UNCHANGED <<authorized, files, manager, ensureVars, slips, restarted, unsafe>>

BackUp(r) ==
  /\ \/ /\ rotation[r].pc = "backup"
        /\ files' = [files EXCEPT !.oldKey = files.key] /\ Goes(r, "backupPub")
     \/ /\ rotation[r].pc = "backupPub"
        /\ files' = [files EXCEPT !.oldPub = files.pub] /\ Goes(r, "save")
  /\ UNCHANGED <<authorized, manager, ensureVars, slips, restarted, unsafe>>

BackUpFails(r) ==
  /\ rotation[r].pc \in {"backup", "backupPub"} /\ Slip
  /\ files' = IF rotation[r].pc = "backupPub" THEN [files EXCEPT !.oldKey = NoKey] ELSE files
  /\ Over(r)
  /\ UNCHANGED <<authorized, manager, ensureVars, restarted, unsafe>>

SaveKeyPair(r) ==
  /\ \/ /\ rotation[r].pc = "save"
        /\ files' = [files EXCEPT !.key = r] /\ Goes(r, "savePub")
     \/ /\ rotation[r].pc = "savePub"
        /\ files' = [files EXCEPT !.pub = r] /\ Goes(r, "reload")
  /\ UNCHANGED <<authorized, manager, ensureVars, slips, restarted, unsafe>>

\* A failed write leaves the file as it was, or empty.
SaveFails(r) ==
  /\ Slip
  /\ \/ rotation[r].pc = "save" /\ \E k \in {files.key, NoKey} : files' = [files EXCEPT !.key = k]
     \/ rotation[r].pc = "savePub" /\ \E k \in {files.pub, NoKey} : files' = [files EXCEPT !.pub = k]
  /\ Goes(r, "restore")
  /\ UNCHANGED <<authorized, manager, ensureVars, restarted, unsafe>>

\* Seeded error: only the private key comes back.
restoreFile_KeyOnly(r) ==
  /\ rotation[r].pc = "restore"
  /\ files' = [files EXCEPT !.key = files.oldKey, !.oldKey = NoKey]
  /\ Over(r)
  /\ UNCHANGED <<authorized, manager, ensureVars, slips, restarted, unsafe>>

restoreFile(r) ==
  /\ \/ /\ rotation[r].pc = "restore"
        /\ files' = [files EXCEPT !.key = files.oldKey, !.oldKey = NoKey]
        /\ Goes(r, "restorePub")
     \/ /\ rotation[r].pc = "restorePub"
        /\ files' = [files EXCEPT !.pub = files.oldPub, !.oldPub = NoKey]
        /\ Over(r)
  /\ UNCHANGED <<authorized, manager, ensureVars, slips, restarted, unsafe>>

\* Logged only.
RestoreFails(r) ==
  /\ rotation[r].pc \in {"restore", "restorePub"} /\ Slip
  /\ IF rotation[r].pc = "restore" THEN Goes(r, "restorePub") ELSE Over(r)
  /\ unsafe' = TRUE
  /\ UNCHANGED <<authorized, files, manager, ensureVars, restarted>>


ReloadKeys(r) ==
  /\ rotation[r].pc = "reload"
  /\ manager' = [signer |-> r, public |-> r]
  /\ Goes(r, "test")
  /\ UNCHANGED <<authorized, files, ensureVars, slips, restarted, unsafe>>

\* Log in with the new key; agents that did not get it are skipped.
TestConnection(r, a) ==
  /\ rotation[r].pc = "test" /\ rotation[r].agent[a] = "appended"
  /\ \/ r \in authorized[a] /\ AgentGoes(r, a, "tested") /\ UNCHANGED slips
     \/ r \notin authorized[a] /\ AgentGoes(r, a, "failed") /\ UNCHANGED slips
     \/ Slip /\ AgentGoes(r, a, "failed")
  /\ UNCHANGED <<authorized, files, manager, ensureVars, restarted, unsafe>>

\* ConfigureSSHAccess: only the new key is left. A failure is logged only.
RemoveOldKey(r, a) ==
  /\ rotation[r].pc = "test" /\ rotation[r].agent[a] = "tested"
  /\ \/ authorized' = [authorized EXCEPT ![a] = {r}] /\ UNCHANGED slips
     \/ Slip /\ UNCHANGED authorized
  /\ AgentGoes(r, a, "ok")
  /\ UNCHANGED <<files, manager, ensureVars, restarted, unsafe>>

\* The backup goes when every agent has the new key.
FinishRotation(r) ==
  /\ rotation[r].pc = "test"
  /\ \A a \in Agents : rotation[r].agent[a] \in {"ok", "failed"}
  /\ files' = IF \A a \in Agents : rotation[r].agent[a] = "ok"
              THEN [files EXCEPT !.oldKey = NoKey, !.oldPub = NoKey] ELSE files
  /\ Over(r)
  /\ UNCHANGED <<authorized, manager, ensureVars, slips, restarted, unsafe>>

--------------------------------------------------------------------------------
(* The rest of the process.                                                  *)

\* EnsureConnected, from the 60 s reconciliation of the tunnels, a request or
\* a reconnection: a healthy connection is returned as it is; otherwise
\* getPublicKey is read for ConfigureSSHAccess.
ReadPublicKey(a) ==
  /\ a \notin linked \cup dialing /\ upload[a] = NoKey /\ manager.public # NoKey
  /\ upload' = [upload EXCEPT ![a] = manager.public]
  /\ UNCHANGED <<authorized, files, manager, rotation, linked, dialing, slips, restarted, unsafe>>

\* ConfigureSSHAccess overwrites authorized_keys, or fails.
Upload(a) ==
  /\ upload[a] # NoKey
  /\ \/ /\ authorized' = [authorized EXCEPT ![a] = {upload[a]}]
        /\ dialing' = dialing \cup {a}
        /\ UNCHANGED slips
     \/ Slip /\ UNCHANGED <<authorized, dialing>>
  /\ upload' = [upload EXCEPT ![a] = NoKey]
  /\ UNCHANGED <<files, manager, rotation, linked, restarted, unsafe>>

\* Connect logs in with the signer of the moment, and fails if the agent does
\* not accept it or for a reason of its own.
Connect(a) ==
  /\ a \in dialing
  /\ dialing' = dialing \ {a}
  /\ \/ linked' = (IF manager.signer \in authorized[a] THEN linked \cup {a} ELSE linked) /\ UNCHANGED slips
     \/ Slip /\ UNCHANGED linked
  /\ UNCHANGED <<authorized, files, manager, rotation, upload, restarted, unsafe>>

\* The connection breaks, or is closed with its instance's loop.
LinkLost(a) ==
  /\ a \in linked
  /\ linked' = linked \ {a}
  /\ UNCHANGED <<authorized, files, manager, rotation, upload, dialing, slips, restarted, unsafe>>

\* Crash and boot: EnsureKeyPair loads the two files, as they are.
Restart ==
  /\ Slip
  /\ manager' = [signer |-> files.key, public |-> files.pub]
  /\ rotation' = [r \in Rotations |->
       IF InProgress(r) THEN [pc |-> "over", agent |-> [a \in Agents |-> "todo"]] ELSE rotation[r]]
  /\ linked' = {} /\ upload' = [a \in Agents |-> NoKey] /\ dialing' = {}
  /\ restarted' = TRUE
  /\ unsafe' = (unsafe \/ \E r \in Rotations : rotation[r].pc \in {"savePub", "restore", "restorePub"})
  /\ UNCHANGED <<authorized, files>>

--------------------------------------------------------------------------------
KeyNext ==
  \/ \E r \in Rotations :
       \/ Rotate(r)
       \/ Appended(r)
       \/ BackUp(r) \/ BackUpFails(r)
       \/ SaveKeyPair(r) \/ SaveFails(r)
       \/ restoreFile(r) \/ RestoreFails(r)
       \/ ReloadKeys(r)
       \/ FinishRotation(r)
       \/ \E a \in Agents :
            \/ appendPublicKey(r, a) \/ AppendFails(r, a)
            \/ TestConnection(r, a) \/ RemoveOldKey(r, a)
  \/ \E a \in Agents : ReadPublicKey(a) \/ Upload(a) \/ Connect(a) \/ LinkLost(a)
  \/ Restart

\* The tunnel reconciler keeps calling EnsureConnected, and the orchestrator
\* answers. Nothing makes Connect end: its handshake has no deadline.
KeyFairness == \A a \in Agents : WF_keyVars(ReadPublicKey(a)) /\ WF_keyVars(Upload(a))

KeySpec == KeyInit /\ [][KeyNext]_keyVars /\ KeyFairness

--------------------------------------------------------------------------------
(* Properties.                                                               *)

\* Between rotations the two key files and the manager hold one and the same
\* pair, whatever failed: a rotation that gives up puts both files back. Not
\* so after overlapping rotations, a failed restore, or a crash between the
\* two writes of SaveKeyPair.
KeysInSync ==
  ~unsafe /\ (\A r \in Rotations : ~InProgress(r)) =>
    /\ files.key = files.pub
    /\ manager = [signer |-> files.key, public |-> files.pub]

================================================================================
