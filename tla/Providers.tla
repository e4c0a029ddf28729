-------------------------------- MODULE Providers -------------------------------
(****************************************************************************)
(* Which LLM providers an instance may use: the providers table and its     *)
(* handlers (handlers/providers.go), the list of enabled providers on the   *)
(* instance's row (UpdateInstance), the team's whitelist, the gateway keys  *)
(* (llmgateway/keys.go) and the configuration of the agent that holds the   *)
(* keys (ConfigureInstance).                                                *)
(*                                                                          *)
(* A gateway key has to be in two places: in the table the gateway reads    *)
(* and in the agent's own configuration. The handlers bring the table up to *)
(* date, read what the agent shall have, and leave the push over SSH to a   *)
(* goroutine; nobody checks later what the agent has. The module follows    *)
(* one instance. Ids of providers are not reused.                           *)
(****************************************************************************)
EXTENDS Naturals

CONSTANTS
  Globals,        \* ids of global providers
  Owned,          \* ids of providers that belong to the instance
  ConsoleOps,     \* requests of the console in progress together
  MaxOps,         \* bound on these requests
  MaxPushFaults   \* bound on database errors, failed pushes and crashes

VARIABLES
  provs, known,  \* the providers there are, and that there have been
  enabled,       \* the instance's row: EnabledProviders
  whitelist,     \* the whitelist of its team; empty: no restriction
  gwKey,         \* llm_gateway_keys: the key of each provider, 0 if none
  keysMade,      \* keys are numbered as they are made
  agentKey,      \* models.providers in the agent's configuration
  up,            \* is the container running
  op,            \* the requests in progress, with their goroutines
  ops, pushFaults,
  dirty          \* the agent may have missed what the table says

provVars == <<provs, known, enabled, whitelist, gwKey, keysMade, agentKey, up,
              op, ops, pushFaults, dirty>>

Provs == Globals \cup Owned
NoKeys == [p \in Provs |-> 0]
NoOp == [pc |-> "idle", after |-> "", ids |-> {}, push |-> NoKeys, alone |-> FALSE]

ProvidersInit ==
  /\ provs = {} /\ known = {} /\ enabled = {} /\ whitelist = {}
  /\ gwKey = NoKeys /\ keysMade = 0 /\ agentKey = NoKeys
  /\ up = TRUE
  /\ op = [c \in ConsoleOps |-> NoOp]
  /\ ops = 0 /\ pushFaults = 0 /\ dirty = FALSE

Goto(c, place) == op' = [op EXCEPT ![c].pc = place]

\* A request begins: from here on no other one in progress is alone.
BeginOp(c, rec) ==
  /\ op[c].pc = "idle" /\ ops < MaxOps
  /\ ops' = ops + 1
  /\ op' = [d \in ConsoleOps |->
       IF d = c THEN [rec EXCEPT !.alone = \A e \in ConsoleOps : op[e].pc = "idle"]
                ELSE [op[d] EXCEPT !.alone = FALSE]]

\* A request ends; the agent has what it read for it, or has missed it.
EndOp(c, reached) ==
  /\ op' = [op EXCEPT ![c] = NoOp]
  /\ dirty' = ~(reached /\ op[c].alone)

--------------------------------------------------------------------------------
(* The handlers.                                                             *)

\* UpdateInstance with a list of providers. The list may name providers that
\* have been deleted: DeleteProvider leaves it alone. If the row cannot be
\* written the handler goes on all the same.
UpdateInstance(c) ==
  /\ \E en \in SUBSET (known \cap Globals) :
       /\ \/ enabled' = en /\ UNCHANGED pushFaults
          \/ UNCHANGED enabled /\ pushFaults < MaxPushFaults /\ pushFaults' = pushFaults + 1
       /\ BeginOp(c, [NoOp EXCEPT !.pc = "ids", !.after = "fields", !.ids = en])
  /\ UNCHANGED <<provs, known, whitelist, gwKey, keysMade, agentKey, up, dirty>>

\* List and keys are written when the handler comes to the request's other
\* fields: it answers a caller who may not set them, an empty name, a bad
\* quantity or resolution, and bad or unsaved environment variables with an
\* error, and pushes nothing.
UpdateRejected(c) ==
  /\ op[c].pc = "fields"
  /\ EndOp(c, FALSE)
  /\ UNCHANGED <<provs, known, enabled, whitelist, gwKey, keysMade, agentKey, up, ops, pushFaults>>

\* UpdateInstance without one: the other settings are written, and the
\* configuration is pushed all the same (a restart for new environment
\* variables is an operation of Instances).
UpdateSettings(c) ==
  /\ BeginOp(c, [NoOp EXCEPT !.pc = "resolve"])
  /\ UNCHANGED <<provs, known, enabled, whitelist, gwKey, keysMade, agentKey, up, pushFaults, dirty>>

\* CreateProvider: one of the instance's own makes its key at once, and
\* reconfigures the instance.
CreateProvider(c) ==
  /\ \E p \in Provs \ known :
       /\ provs' = provs \cup {p} /\ known' = known \cup {p}
       /\ IF p \in Owned
          THEN BeginOp(c, [NoOp EXCEPT !.pc = "ids", !.after = "reconfigure", !.ids = enabled])
          ELSE ops < MaxOps /\ ops' = ops + 1 /\ UNCHANGED op
  /\ UNCHANGED <<enabled, whitelist, gwKey, keysMade, agentKey, up, pushFaults, dirty>>

\* UpdateProvider, after the save (CodexOAuth): an own provider's instance is
\* reconfigured, and each instance that has a global one enabled.
UpdateProvider(c) ==
  /\ \E p \in provs :
       /\ p \in Owned \/ p \in enabled
       /\ BeginOp(c, [NoOp EXCEPT !.pc = "reconfigure"])
  /\ UNCHANGED <<provs, known, enabled, whitelist, gwKey, keysMade, agentKey, up, pushFaults, dirty>>

\* DeleteProvider: the keys first ...
DeleteProvider(c) ==
  /\ \E p \in provs :
       /\ gwKey' = [gwKey EXCEPT ![p] = 0]
       /\ BeginOp(c, [NoOp EXCEPT !.pc = "delete", !.ids = {p}])
  /\ UNCHANGED <<provs, known, enabled, whitelist, keysMade, agentKey, up, pushFaults, dirty>>

\* ... then the row. Only the owner of the provider is reconfigured.
DeleteProviderRow(c) ==
  /\ op[c].pc = "delete"
  /\ provs' = provs \ op[c].ids
  /\ op' = [op EXCEPT ![c] = IF op[c].ids \cap Owned # {} THEN [op[c] EXCEPT !.pc = "reconfigure"] ELSE NoOp]
  /\ UNCHANGED <<known, enabled, whitelist, gwKey, keysMade, agentKey, up, ops, pushFaults, dirty>>

\* No instance is told, and no key changes.
SetTeamProviders ==
  /\ \E w \in SUBSET (provs \cap Globals) : w # whitelist /\ whitelist' = w
  /\ ops < MaxOps /\ ops' = ops + 1
  /\ UNCHANGED <<provs, known, enabled, gwKey, keysMade, agentKey, up, op, pushFaults, dirty>>

\* StartInstance and StopInstance leave the configuration on its volume.
StartStop ==
  /\ ops < MaxOps /\ ops' = ops + 1
  /\ up' = ~up
  /\ UNCHANGED <<provs, known, enabled, whitelist, gwKey, keysMade, agentKey, op, pushFaults, dirty>>

--------------------------------------------------------------------------------
(* What they share.                                                          *)

\* reconfigureInstanceAsync and a round of pushProviderUpdateToInstances: only
\* a running instance gets keys and a push.
Reconfigure(c) ==
  /\ op[c].pc = "reconfigure"
  /\ IF up
     THEN /\ op' = [op EXCEPT ![c] = [op[c] EXCEPT !.pc = "ids", !.after = "resolve", !.ids = enabled]]
          /\ UNCHANGED dirty
     ELSE EndOp(c, FALSE)
  /\ UNCHANGED <<provs, known, enabled, whitelist, gwKey, keysMade, agentKey, up, ops, pushFaults>>

allProviderIDsForInstance(en) ==
  (IF whitelist = {} THEN en ELSE en \cap whitelist) \cup (provs \cap Owned)

ReadIds(c) ==
  /\ op[c].pc = "ids"
  /\ op' = [op EXCEPT ![c] = [op[c] EXCEPT !.pc = "create", !.ids = allProviderIDsForInstance(op[c].ids)]]
  /\ UNCHANGED <<provs, known, enabled, whitelist, gwKey, keysMade, agentKey, up, ops, pushFaults, dirty>>

\* EnsureKeysForInstance: the keys that are missing. An insert can fail, on the
\* unique index too when another call made the key in between: the rest of the
\* function is skipped, and its callers go on.
CreateKeys(c) ==
  /\ op[c].pc = "create"
  /\ LET missing == {p \in op[c].ids : gwKey[p] = 0} IN
     \E new \in SUBSET missing :
       /\ new # missing => pushFaults < MaxPushFaults
       /\ pushFaults' = IF new = missing THEN pushFaults ELSE pushFaults + 1
       /\ gwKey' = [p \in Provs |-> IF p \in new THEN keysMade + 1 ELSE gwKey[p]]
       /\ keysMade' = IF new = {} THEN keysMade ELSE keysMade + 1
       /\ Goto(c, IF new = missing THEN "prune" ELSE op[c].after)
  /\ UNCHANGED <<provs, known, enabled, whitelist, agentKey, up, ops, dirty>>

\* ... and the keys of all other providers go.
PruneKeys(c) ==
  /\ op[c].pc = "prune"
  /\ gwKey' = [p \in Provs |-> IF p \in op[c].ids THEN gwKey[p] ELSE 0]
  /\ Goto(c, op[c].after)
  /\ UNCHANGED <<provs, known, enabled, whitelist, keysMade, agentKey, up, ops, pushFaults, dirty>>

\* Seeded error: only the global providers are read.
resolveGatewayProviders_GlobalOnly ==
  [p \in Provs |-> IF p \in provs /\ p \in enabled THEN gwKey[p] ELSE 0]

resolveGatewayProviders ==
  [p \in Provs |-> IF p \in provs /\ p \in enabled \cup Owned THEN gwKey[p] ELSE 0]

\* The goroutine gets what the rows say now.
Resolve(c) ==
  /\ op[c].pc \in {"fields", "resolve"}
  /\ IF up
     THEN /\ op' = [op EXCEPT ![c] = [op[c] EXCEPT !.pc = "unset", !.ids = {}, !.push = resolveGatewayProviders]]
          /\ UNCHANGED dirty
     ELSE EndOp(c, FALSE)
  /\ UNCHANGED <<provs, known, enabled, whitelist, gwKey, keysMade, agentKey, up, ops, pushFaults>>

--------------------------------------------------------------------------------
(* ConfigureInstance, in the goroutine, once it has an SSH connection.       *)

\* buildOpenClawProvidersJSON: the providers it has an entry for, each with its
\* key; without one the JSON is empty. Models and API types are left out.
Entries(push) == {p \in Provs : push[p] # 0}

\* Without a provider to set, the providers of the agent are left as they are.
\* Otherwise they are cleared: setting them merges into what is there.
Unset(c) ==
  /\ op[c].pc = "unset" /\ up
  /\ IF Entries(op[c].push) = {}
     THEN EndOp(c, TRUE) /\ UNCHANGED agentKey
     ELSE agentKey' = NoKeys /\ Goto(c, "set") /\ UNCHANGED dirty
  /\ UNCHANGED <<provs, known, enabled, whitelist, gwKey, keysMade, up, ops, pushFaults>>

\* The providers are set and the agent's gateway restarts with them.
Set(c) ==
  /\ op[c].pc = "set" /\ up
  /\ agentKey' = [p \in Provs |-> IF p \in Entries(op[c].push) THEN op[c].push[p] ELSE agentKey[p]]
  /\ EndOp(c, TRUE)
  /\ UNCHANGED <<provs, known, enabled, whitelist, gwKey, keysMade, up, ops, pushFaults>>

\* No connection within 30 seconds, or a command that fails: it is logged.
PushFails(c) ==
  /\ op[c].pc \in {"unset", "set"}
  /\ \/ ~up /\ UNCHANGED pushFaults
     \/ pushFaults < MaxPushFaults /\ pushFaults' = pushFaults + 1
  /\ EndOp(c, FALSE)
  /\ UNCHANGED <<provs, known, enabled, whitelist, gwKey, keysMade, agentKey, up, ops>>

\* The control plane restarts; the pushes it had under way are not made up for.
ControlPlaneRestart ==
  /\ pushFaults < MaxPushFaults /\ pushFaults' = pushFaults + 1
  /\ \E c \in ConsoleOps : op[c].pc # "idle"
  /\ op' = [c \in ConsoleOps |-> NoOp]
  /\ dirty' = TRUE
  /\ UNCHANGED <<provs, known, enabled, whitelist, gwKey, keysMade, agentKey, up, ops>>

ProvidersNext ==
  \/ \E c \in ConsoleOps :
       \/ UpdateInstance(c) \/ UpdateRejected(c) \/ UpdateSettings(c)
       \/ CreateProvider(c) \/ UpdateProvider(c)
       \/ DeleteProvider(c) \/ DeleteProviderRow(c)
       \/ Reconfigure(c) \/ ReadIds(c) \/ CreateKeys(c) \/ PruneKeys(c) \/ Resolve(c)
       \/ Unset(c) \/ Set(c) \/ PushFails(c)
  \/ SetTeamProviders \/ StartStop \/ ControlPlaneRestart

ProvidersSpec == ProvidersInit /\ [][ProvidersNext]_provVars

--------------------------------------------------------------------------------
OpRecords ==
  [pc : {"idle", "delete", "reconfigure", "ids", "create", "prune", "fields", "resolve", "unset", "set"},
   after : {"", "fields", "resolve", "reconfigure"}, ids : SUBSET Provs, push : [Provs -> Nat], alone : BOOLEAN]

ProvidersTypeOK ==
  /\ provs \subseteq known /\ known \subseteq Provs
  /\ enabled \subseteq Globals /\ whitelist \subseteq Globals
  /\ gwKey \in [Provs -> 0..keysMade] /\ agentKey \in [Provs -> 0..keysMade]
  /\ op \in [ConsoleOps -> OpRecords]

\* The agent of an instance holds, for every provider the instance may use,
\* the key the gateway accepts: a key once pushed stays in force however often
\* the handlers ensure the keys again, and the last handler's push brings the
\* keys of all of them. Overlapping requests, an update that was refused after
\* it had written the keys, a push that failed and an instance that was not
\* running leave it behind, and nothing but the next request makes up for it.
PushedKeyWorks ==
  (\A c \in ConsoleOps : op[c].pc = "idle") /\ ~dirty =>
    \A p \in provs \cap (enabled \cup Owned) : gwKey[p] # 0 => agentKey[p] = gwKey[p]
================================================================================
