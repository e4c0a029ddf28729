------------------------------ MODULE Orchestrator ------------------------------
(****************************************************************************)
(* The container orchestrators (internal/orchestrator): what the calls of   *)
(* the ContainerOrchestrator interface do to a workload and to its volumes, *)
(* on Docker and on Kubernetes.                                             *)
(*                                                                          *)
(* An interface call is a plan: the sequence of API requests it makes. The  *)
(* modules that use the orchestrator run a plan one request at a time, so   *)
(* that other requests, failures and crashes fall between two of them.      *)
(* Images, ports, resources, environment and labels are left out.           *)
(****************************************************************************)
EXTENDS Naturals, Sequences

CONSTANTS
  Workloads,   \* names of containers / Deployments
  Backends     \* the backends InitOrchestrator may find

ASSUME BackendsAssumption == Backends \subseteq {"docker", "kubernetes"}

VARIABLES
  backend,     \* the current orchestrator
  workload,    \* each container or Deployment: none, down, starting or up
  volumes      \* workloads whose data volumes (PVCs) exist

orchVars == <<backend, workload, volumes>>

OrchTypeOK ==
  /\ backend \in Backends
  /\ workload \in [Workloads -> {"none", "down", "starting", "up"}]
  /\ volumes \subseteq Workloads

\* The requests the plans are made of.
Requests ==
  {"pull", "createVolume", "createPVC", "ensureVolume", "init", "createContainer",
   "createDeployment", "upsert", "expose", "restrict", "unexpose", "start", "startCopy",
   "startSource", "stop", "halt", "haltSource", "copy", "remove", "discard", "delete", "wipe"}

\* The first backend that answers; it stays for the life of the process.
InitOrchestrator == backend \in Backends

OnDocker == backend = "docker"

--------------------------------------------------------------------------------
(* Requests: the states a request can leave a workload in. None: refused.    *)

\* Create and start a container: the name must be free.
CreateContainer(s) == IF s = "none" THEN {"starting"} ELSE {}

CreateDeployment(s) == IF s = "none" THEN {"starting"} ELSE {}

\* Get, then create, or replace the spec: one replica, whatever there was. A pod
\* that is up stays if its template is the same.
UpsertDeployment(s) == IF s = "up" THEN {"starting", "up"} ELSE {"starting"}

\* ContainerStart, or replicas = 1: there must be something to start.
StartRequest(s) == IF s = "none" THEN {} ELSE IF s = "down" THEN {"starting"} ELSE {s}

\* ContainerStop, or replicas = 0.
StopRequest(s) == IF s = "none" THEN {} ELSE {"down"}

\* The Source requests act on the workload a clone is copied from.
AfterRequest(req, s) ==
  CASE req = "createContainer" -> CreateContainer(s)
    [] req = "createDeployment" -> CreateDeployment(s)
    [] req = "upsert" -> UpsertDeployment(s)
    [] req \in {"start", "startCopy", "startSource"} -> StartRequest(s)
    [] req \in {"stop", "halt", "haltSource"} -> StopRequest(s)
    [] req \in {"remove", "discard", "delete"} -> {"none"}
    [] OTHER -> {s}

\* Docker hands out a volume that is there; Kubernetes refuses to create it
\* twice, unless the caller looked first (ensureVolume).
VolumesAfter(req, w) ==
  CASE req \in {"createVolume", "createPVC", "ensureVolume"} -> volumes \cup {w}
    [] req = "wipe" -> volumes \ {w}
    [] OTHER -> volumes

Refused(req, w) ==
  \/ req = "createPVC" /\ w \in volumes
  \/ AfterRequest(req, workload[w]) = {}

Perform(req, w) ==
  /\ ~Refused(req, w)
  /\ \E s \in AfterRequest(req, workload[w]) : workload' = [workload EXCEPT ![w] = s]
  /\ volumes' = VolumesAfter(req, w)
  /\ UNCHANGED backend

\* A failed request changes nothing, but a container may be created and then
\* not start.
Fail(req, w) ==
  /\ \/ UNCHANGED workload
     \/ /\ req = "createContainer" /\ workload[w] = "none"
        /\ workload' = [workload EXCEPT ![w] = "down"]
  /\ UNCHANGED <<backend, volumes>>

\* Requests whose error is dropped or only logged: the plan goes on.
ErrorIgnored(req) ==
  \/ req \in {"halt", "haltSource", "copy", "startCopy", "startSource", "discard", "createVolume"}
  \/ OnDocker /\ req \in {"delete", "wipe"}

--------------------------------------------------------------------------------
(* Plans.                                                                    *)

\* Pull the image: on an error the call fails.
ensureImage == <<"pull">>

DockerCreate == ensureImage \o <<"createVolume", "createContainer">>

KubernetesCreate == <<"createPVC", "createDeployment">>

CreatePlan == IF OnDocker THEN DockerCreate ELSE KubernetesCreate

\* Seeded error: recreating the container from nothing.
DockerRestart_Wipes == <<"stop", "remove", "wipe", "createContainer">>

DockerRestart == <<"stop", "remove", "createContainer">>

KubernetesRestart == <<"upsert">>

RestartPlan == IF OnDocker THEN DockerRestart ELSE KubernetesRestart

DockerUpdateImage == ensureImage \o <<"halt", "remove", "createContainer">>

UpdateImagePlan == IF OnDocker THEN DockerUpdateImage ELSE KubernetesRestart

DockerDelete == <<"delete", "wipe">>

KubernetesDelete == <<"delete", "wipe">>

DeletePlan == IF OnDocker THEN DockerDelete ELSE KubernetesDelete

\* A helper container or pod mounts both volumes and copies one to the other.
\* One that a cancelled context leaves behind keeps them in use: removing them
\* is then a request that fails.
copyVolume == <<"copy">>

copyPVC == <<"copy">>

\* Copying takes the copy down, on Kubernetes the source too.
DockerClone == <<"halt">> \o copyVolume \o <<"startCopy">>

KubernetesClone == <<"haltSource", "halt">> \o copyPVC \o <<"startSource", "startCopy">>

ClonePlan == CreatePlan \o (IF OnDocker THEN DockerClone ELSE KubernetesClone)

\* Apply and DeleteWorkload, for workloads other than an instance.
applyVolumesDocker == <<"ensureVolume">>

\* A helper container prepares the volumes: on an error Apply fails.
runInitContainer == <<"init">>

DockerApply ==
  ensureImage \o applyVolumesDocker \o <<"halt", "discard">> \o runInitContainer
    \o <<"createContainer">>

applyVolumes == <<"ensureVolume">>

applyDeployment == <<"upsert">>

\* The Service and the NetworkPolicy: created, or updated where they are.
applyService == <<"expose">>

applyNetworkPolicy == <<"restrict">>

KubernetesApply ==
  applyVolumes \o applyDeployment \o applyService \o applyNetworkPolicy

ApplyPlan == IF OnDocker THEN DockerApply ELSE KubernetesApply

DockerDeleteWorkload == <<"halt", "delete", "wipe">>

KubernetesDeleteWorkload == <<"delete", "unexpose", "wipe">>

DeleteWorkloadPlan == IF OnDocker THEN DockerDeleteWorkload ELSE KubernetesDeleteWorkload

--------------------------------------------------------------------------------
(* Status, as the control plane sees it: no container, a container that has  *)
(* exited and a Deployment without pods are all stopped.                     *)

DockerStatus(s) ==
  [none |-> "stopped", down |-> "stopped", starting |-> "creating", up |-> "running"][s]

KubernetesStatus(s) ==
  IF s \in {"none", "down"} THEN "stopped" ELSE IF s = "up" THEN "running" ELSE "creating"

GetInstanceStatus(w) ==
  IF OnDocker THEN DockerStatus(workload[w]) ELSE KubernetesStatus(workload[w])

\* The health check passes.
WorkloadReady(w) ==
  /\ workload[w] = "starting"
  /\ workload' = [workload EXCEPT ![w] = "up"]
  /\ UNCHANGED <<backend, volumes>>
================================================================================
