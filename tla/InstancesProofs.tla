---------------------------- MODULE InstancesProofs ----------------------------
(****************************************************************************)
(* Theorems about Instances, for every number of instances and operations   *)
(* and every bound on failures and crashes.                                 *)
(****************************************************************************)
EXTENDS Instances, SequenceTheorems, TLAPS

\* What the plans of each kind of operation can ask for. Only a removal wipes
\* volumes; only a clone has a context that can be cancelled.
Harmless == (Requests \ {"wipe"}) \cup {"mark"}

PlanOK(a) ==
  /\ a.kind \in Removers => a.todo \in {<<"delete", "wipe">>, <<"wipe">>, <<>>}
  /\ a.kind \notin Removers => a.todo \in Seq(Harmless)
  /\ a.kind \in {"start", "stop", "list"} => a.todo \in Seq({"start", "stop"})
  /\ a.kind # "clone" => a.ctx = "live"

PlanInv == \A o \in Ops : Active(o) => PlanOK(op[o])

\* Nothing works on an instance before its row is there, and an instance is
\* cloned once.
FirstInv ==
  /\ \A o \in Ops : Active(o) => row[op[o].inst] # "absent"
  /\ \A o, p \in Ops :
       /\ Active(o) /\ op[o].kind = "clone" /\ Active(p) /\ op[p].kind = "clone"
       /\ op[o].inst = op[p].inst
       => o = p

\* What NoOrphanWorkload rests on, for an instance whose removal nothing spoils:
\* while it is removed, and after, nobody builds it but a clone that has been
\* cancelled; and the container goes first, then the volumes.
UnbuiltInv ==
  \A o \in Ops : Active(o) /\ op[o].kind \in Builders /\ op[o].inst \notin tainted =>
    /\ op[o].ctx # "landing"
    /\ row[op[o].inst] = "gone" \/ Busy(op[o].inst, Removers)
       => op[o].kind = "clone" /\ op[o].ctx = "cancelled"

RemovedInv ==
  \A o \in Ops : Active(o) /\ op[o].kind \in Removers /\ op[o].inst \notin tainted =>
    /\ op[o].todo # <<"delete", "wipe">> => workload[op[o].inst] = "none"
    /\ op[o].todo = <<>> => op[o].inst \notin volumes

InstInv ==
  InstTypeOK /\ PlanInv /\ FirstInv /\ UnbuiltInv /\ RemovedInv /\ NoOrphanWorkload /\ CreatingHasTask

--------------------------------------------------------------------------------
(* Plans.                                                                    *)

\* No plan but that of a removal wipes volumes.
LEMMA HarmlessPlans ==
  /\ CreatePlan \in Seq(Harmless) /\ ClonePlan \in Seq(Harmless)
  /\ RestartPlan \in Seq(Harmless) /\ UpdateImagePlan \in Seq(Harmless)
  /\ <<"mark">> \o RestartPlan \in Seq(Harmless)
  /\ <<"mark">> \o UpdateImagePlan \in Seq(Harmless)
  /\ <<"start">> \in Seq(Harmless) /\ <<"stop">> \in Seq(Harmless) /\ <<>> \in Seq(Harmless)
  /\ <<"start">> \in Seq({"start", "stop"}) /\ <<"stop">> \in Seq({"start", "stop"})
  /\ <<>> \in Seq({"start", "stop"})
<1>1. \A q \in {"pull", "createVolume", "createContainer", "createPVC", "createDeployment", "stop",
                "remove", "upsert", "halt", "copy", "startCopy", "haltSource", "startSource",
                "start", "mark"} : q \in Harmless
  BY DEF Harmless, Requests
<1>2. \A a, b, c \in Harmless : /\ <<>> \in Seq(Harmless) /\ <<a>> \in Seq(Harmless)
                               /\ <<a, b>> \in Seq(Harmless) /\ <<a, b, c>> \in Seq(Harmless)
  OBVIOUS
<1>3. \A s, t \in Seq(Harmless) : s \o t \in Seq(Harmless)
  OBVIOUS
<1>4. CreatePlan \in Seq(Harmless)
  BY <1>1, <1>2, <1>3 DEF CreatePlan, DockerCreate, KubernetesCreate, ensureImage
<1>5. ClonePlan \in Seq(Harmless)
  BY <1>1, <1>2, <1>3, <1>4 DEF ClonePlan, DockerClone, KubernetesClone, copyVolume, copyPVC
<1>6. RestartPlan \in Seq(Harmless)
  BY <1>1, <1>2, <1>3 DEF RestartPlan, DockerRestart, KubernetesRestart
<1>7. UpdateImagePlan \in Seq(Harmless)
  BY <1>1, <1>2, <1>3 DEF UpdateImagePlan, DockerUpdateImage, KubernetesRestart, ensureImage
<1>8. <<"mark">> \o RestartPlan \in Seq(Harmless) /\ <<"mark">> \o UpdateImagePlan \in Seq(Harmless)
  BY <1>1, <1>2, <1>3, <1>6, <1>7
<1>9. <<"start">> \in Seq(Harmless) /\ <<"stop">> \in Seq(Harmless) /\ <<>> \in Seq(Harmless)
  BY <1>1, <1>2
<1>10. /\ <<"start">> \in Seq({"start", "stop"}) /\ <<"stop">> \in Seq({"start", "stop"})
       /\ <<>> \in Seq({"start", "stop"})
  OBVIOUS
<1> QED
  BY <1>4, <1>5, <1>6, <1>7, <1>8, <1>9, <1>10

\* A removal deletes the container, then the volumes.
LEMMA RemovalPlan ==
  /\ DeletePlan = <<"delete", "wipe">>
  /\ Head(<<"delete", "wipe">>) = "delete" /\ Tail(<<"delete", "wipe">>) = <<"wipe">>
  /\ Head(<<"wipe">>) = "wipe" /\ Tail(<<"wipe">>) = <<>>
  /\ <<"delete", "wipe">> # <<"wipe">> /\ <<"delete", "wipe">> # <<>> /\ <<"wipe">> # <<>>
  BY DEF DeletePlan, DockerDelete, KubernetesDelete

\* A plan is a sequence of requests and of the mark a restart leaves.
LEMMA PlanType ==
  ASSUME NEW a, a.kind \in Kinds, PlanOK(a)
  PROVE  a.todo \in Seq(Requests \cup {"mark"})
<1>1. "delete" \in Requests /\ "wipe" \in Requests
  BY DEF Requests
<1>2. \A x, y \in Requests : <<x, y>> \in Seq(Requests \cup {"mark"}) /\ <<y>> \in Seq(Requests \cup {"mark"})
  OBVIOUS
<1>3. Seq(Harmless) \subseteq Seq(Requests \cup {"mark"})
  BY DEF Harmless
<1>4. <<>> \in Seq(Requests \cup {"mark"})
  OBVIOUS
<1> QED
  BY <1>1, <1>2, <1>3, <1>4 DEF PlanOK

\* What is left of a plan after a request, or after an error, is a plan.
LEMMA PlanGoesOn ==
  ASSUME NEW a, NEW b, a.kind = b.kind, PlanOK(a), a.todo # <<>>,
         b.todo \in {Tail(a.todo), <<>>}, b.kind # "clone" => b.ctx = a.ctx
  PROVE  PlanOK(b)
<1>1. \A S : \A t \in Seq(S) : t # <<>> => Tail(t) \in Seq(S)
  OBVIOUS
<1>2. <<>> \in Seq(Harmless) /\ <<>> \in Seq({"start", "stop"})
  OBVIOUS
<1> QED
  BY <1>1, <1>2, RemovalPlan DEF PlanOK

\* An operation is at work when it is neither Idle nor Done.
LEMMA AtWork ==
  /\ Idle \notin Operations /\ Done \notin Operations
  /\ InstTypeOK => \A o \in Ops : Active(o) <=> op[o] \in Operations
  /\ \A a \in Operations : a.kind \notin {"idle", "done"}
<1>1. \A a \in Operations : a.kind \notin {"idle", "done"}
  BY DEF Operations, Kinds, Builders, Removers
<1>2. Idle \notin Operations /\ Done \notin Operations
  BY <1>1 DEF Idle, Done
<1> QED
  BY <1>1, <1>2 DEF InstTypeOK, Active

--------------------------------------------------------------------------------
(* What the steps do to the operations.                                      *)

Creators == {"create", "clone"}

\* A handler begins an operation: on a new row, or on a row that is there.
Starts(o, a) ==
  /\ o \in Ops /\ a \in Operations /\ PlanOK(a)
  /\ ~Active(o) /\ op' = [op EXCEPT ![o] = a]
  /\ a.kind # "cancel" /\ a.ctx = "live" /\ (a.kind \in Removers => a.todo = <<"delete", "wipe">>)
  /\ \/ a.kind \in Creators /\ row[a.inst] = "absent" /\ row' = [row EXCEPT ![a.inst] = "creating"]
     \/ a.kind \notin Creators /\ Exists(a.inst) /\ row' = row
  /\ tainted' = IF \/ a.kind \in Removers /\ Busy(a.inst, Builders)
                   \/ a.kind \in Builders /\ Busy(a.inst, Removers)
                THEN tainted \cup {a.inst} ELSE tainted
  /\ UNCHANGED <<orchVars, faults, unsettled>>

\* An operation begun with a plan of its kind.
LEMMA BeginStarts ==
  ASSUME InstTypeOK, NEW o \in Ops, NEW i \in Ids, NEW s \in Ids, NEW k \in Kinds \ {"cancel"}, NEW plan,
         k \in Removers => plan = <<"delete", "wipe">>,
         k \notin Removers => plan \in Seq(Harmless),
         k \in {"start", "stop", "list"} => plan \in Seq({"start", "stop"}),
         Begin(o, k, i, s, plan),
         \/ k \in Creators /\ row[i] = "absent" /\ row' = [row EXCEPT ![i] = "creating"]
         \/ k \notin Creators /\ Exists(i) /\ row' = row
  PROVE  \E a \in Operations : Starts(o, a)
<1> DEFINE a == Operation(k, i, s, plan)
<1>1. /\ a.kind = k /\ a.inst = i /\ a.src = s /\ a.todo = plan /\ a.ctx = "live" /\ a.failed = FALSE
      /\ a.seen \in Statuses
  BY DEF Operation, InstTypeOK, Statuses
<1>2. a = [kind |-> k, inst |-> i, src |-> s, todo |-> plan, seen |-> a.seen, failed |-> FALSE, ctx |-> "live"]
  BY DEF Operation
<1>3. ~Active(o) /\ op' = [op EXCEPT ![o] = a]
  BY DEF Begin, NextCall, Active
<1> HIDE DEF a
<1>4. PlanOK(a)
  BY <1>1 DEF PlanOK
<1>5. plan \in Seq(Requests \cup {"mark"})
  BY <1>1, <1>4, PlanType
<1>6. a \in Operations
  BY <1>1, <1>2, <1>5 DEF Operations
<1>7. Starts(o, a)
  BY <1>1, <1>3, <1>4, <1>6 DEF Starts, Begin
<1> QED
  BY <1>6, <1>7

\* Every handler does.
LEMMA HandlerStarts ==
  ASSUME InstTypeOK, NEW o \in Ops, Handler(o)
  PROVE  \E a \in Operations : Starts(o, a)
<1>0. Builders \cup {"start", "stop", "list", "delete"} \subseteq Kinds \ {"cancel"}
  BY DEF Kinds, Builders, Removers
<1> USE <1>0, HarmlessPlans, RemovalPlan DEF Builders, Removers, Creators, Exists
<1>1. ASSUME NEW i \in Ids, CreateInstance(o, i)
      PROVE  \E a \in Operations : Starts(o, a)
  BY <1>1, BeginStarts DEF CreateInstance
<1>2. ASSUME NEW i \in Ids, NEW s \in Ids, CloneInstance(o, i, s)
      PROVE  \E a \in Operations : Starts(o, a)
  BY <1>2, BeginStarts DEF CloneInstance
<1>3. ASSUME NEW i \in Ids, StartInstance(o, i) \/ StopInstance(o, i) \/ ListInstances(o, i)
      PROVE  \E a \in Operations : Starts(o, a)
  BY <1>3, BeginStarts DEF StartInstance, StopInstance, ListInstances
<1>4. ASSUME NEW i \in Ids, RestartInstance(o, i) \/ restartInstanceAsync(o, i)
      PROVE  \E a \in Operations : Starts(o, a)
  BY <1>4, BeginStarts DEF RestartInstance, restartInstanceAsync
<1>5. ASSUME NEW i \in Ids, UpdateInstanceImage(o, i) \/ Migrate(o, i)
      PROVE  \E a \in Operations : Starts(o, a)
  BY <1>5, BeginStarts DEF UpdateInstanceImage, Migrate
<1>6. ASSUME NEW i \in Ids, DeleteInstance(o, i)
      PROVE  \E a \in Operations : Starts(o, a)
  BY <1>6, BeginStarts DEF DeleteInstance
<1> QED
  BY <1>1, <1>2, <1>3, <1>4, <1>5, <1>6 DEF Handler

\* An operation goes on with its plan.
GoesOn(o, a) ==
  /\ o \in Ops /\ a \in Operations /\ Active(o) /\ op[o] \in Operations /\ op[o].todo # <<>>
  /\ op' = [op EXCEPT ![o] = a]
  /\ a.kind = op[o].kind /\ a.inst = op[o].inst /\ a.src = op[o].src
  /\ a.todo \in {Tail(op[o].todo), <<>>} /\ PlanOK(a)
  /\ a.ctx = op[o].ctx \/ (op[o].ctx = "landing" /\ a.ctx = "cancelled")

Steps(o) == MarkRestarting(o) \/ Request(o) \/ RequestLands(o) \/ RequestRefused(o) \/ RequestFails(o)

\* Every request, whatever becomes of it, is such a step.
LEMMA StepGoesOn ==
  ASSUME InstTypeOK, PlanInv, NEW o \in Ops, Steps(o)
  PROVE  \E a \in Operations : GoesOn(o, a)
<1>1. Active(o) /\ op[o] \in Operations /\ op[o].todo # <<>> /\ PlanOK(op[o])
  BY AtWork DEF Steps, MarkRestarting, Request, RequestLands, RequestRefused, RequestFails,
       HasRequest, PlanInv
<1> DEFINE t == op[o].todo
           next == [op[o] EXCEPT !.todo = Tail(t)]
           nextC == [op[o] EXCEPT !.todo = Tail(t), !.ctx = "cancelled"]
           stop == [op[o] EXCEPT !.todo = <<>>, !.failed = TRUE]
           stopC == [op[o] EXCEPT !.todo = <<>>, !.failed = TRUE, !.ctx = "cancelled"]
<1>2. \/ \E a \in {next, stop} : op' = [op EXCEPT ![o] = a]
      \/ op[o].ctx = "landing" /\ \E a \in {nextC, stopC} : op' = [op EXCEPT ![o] = a]
  <2>1. CASE MarkRestarting(o) \/ Request(o)
    <3>1. op' = [op EXCEPT ![o].todo = Tail(@)]
      BY <2>1 DEF MarkRestarting, Request
    <3>2. op' = [op EXCEPT ![o] = next]
      BY <3>1
    <3> QED
      BY <3>2
  <2>2. CASE RequestLands(o)
    <3>1. op[o].ctx = "landing" /\ op' = [op EXCEPT ![o] = IF ErrorIgnored(Head(t)) THEN nextC ELSE stopC]
      BY <2>2 DEF RequestLands
    <3> QED
      BY <3>1
  <2>3. CASE RequestRefused(o) \/ RequestFails(o)
    <3>1. op' = [op EXCEPT ![o] = IF ErrorIgnored(Head(t)) THEN next ELSE stop]
      BY <2>3 DEF RequestRefused, RequestFails, SeesError
    <3> QED
      BY <3>1
  <2> QED
    BY <2>1, <2>2, <2>3 DEF Steps
<1>3. <<>> \in Seq(Requests \cup {"mark"}) /\ Tail(t) \in Seq(Requests \cup {"mark"})
  BY <1>1 DEF Operations
<1>4. \A a \in {next, stop, nextC, stopC} :
        /\ a \in Operations
        /\ a.kind = op[o].kind /\ a.inst = op[o].inst /\ a.src = op[o].src
        /\ a.todo \in {Tail(t), <<>>}
  BY <1>1, <1>3 DEF Operations
<1>5. \A a \in {next, stop} : a.ctx = op[o].ctx
  BY <1>1 DEF Operations
<1>6. \A a \in {nextC, stopC} : a.ctx = "cancelled"
  BY <1>1 DEF Operations
<1>7. op[o].ctx = "landing" => op[o].kind = "clone"
  BY <1>1 DEF PlanOK
<1> HIDE DEF next, nextC, stop, stopC
<1>8. CASE \E a \in {next, stop} : op' = [op EXCEPT ![o] = a]
  <2>1. PICK a \in {next, stop} : op' = [op EXCEPT ![o] = a]
    BY <1>8
  <2>2. PlanOK(a)
    BY <1>1, <1>4, <1>5, PlanGoesOn
  <2> QED
    BY <1>1, <1>4, <1>5, <2>1, <2>2 DEF GoesOn
<1>9. CASE op[o].ctx = "landing" /\ \E a \in {nextC, stopC} : op' = [op EXCEPT ![o] = a]
  <2>1. PICK a \in {nextC, stopC} : op' = [op EXCEPT ![o] = a]
    BY <1>9
  <2>2. PlanOK(a)
    BY <1>1, <1>4, <1>7, <1>9, PlanGoesOn
  <2> QED
    BY <1>1, <1>4, <1>6, <1>9, <2>1, <2>2 DEF GoesOn
<1> QED
  BY <1>2, <1>8, <1>9

\* The cancel of a clone: its context is done, and a removal begins beside it.
Cancels(o, p, b) ==
  /\ o \in Ops /\ p \in Ops /\ o # p
  /\ Active(o) /\ op[o].kind = "clone" /\ ~Active(p)
  /\ op' \in [Ops -> Operations \cup {Idle, Done}]
  /\ op'[p] = b /\ op'[o] \in Operations
  /\ op'[o].kind = "clone" /\ op'[o].inst = op[o].inst /\ op'[o].src = op[o].src
  /\ op'[o].todo = op[o].todo /\ op'[o].ctx \in {"cancelled", "landing"}
  /\ \A q \in Ops \ {o, p} : op'[q] = op[q]
  /\ b \in Operations /\ b.kind = "cancel" /\ b.inst = op[o].inst /\ b.todo = <<"delete", "wipe">>
  /\ b.ctx = "live"
  /\ tainted' = IF op'[o].ctx = "landing" \/ Busy(op[o].inst, (Builders \ {"clone"}) \cup Removers)
                THEN tainted \cup {op[o].inst} ELSE tainted
  /\ UNCHANGED <<orchVars, row, faults, unsettled>>

\* CancelClone is such a step.
LEMMA CancelCancels ==
  ASSUME InstTypeOK, NEW o \in Ops, NEW p \in Ops, CancelClone(o, p)
  PROVE  \E b \in Operations : Cancels(o, p, b)
<1> DEFINE b == Operation("cancel", op[o].inst, op[o].inst, DeletePlan)
<1>1. op[o] \in Operations /\ op[o].kind = "clone" /\ Active(o) /\ ~Active(p) /\ o # p
  BY AtWork DEF CancelClone, NextCall, Active
<1>2. PICK c \in {"cancelled", "landing"} :
        /\ op' = [op EXCEPT ![o].ctx = c, ![p] = b]
        /\ tainted' = IF c = "landing" \/ Busy(op[o].inst, (Builders \ {"clone"}) \cup Removers)
                      THEN tainted \cup {op[o].inst} ELSE tainted
  BY DEF CancelClone
<1>3. b = [kind |-> "cancel", inst |-> op[o].inst, src |-> op[o].inst, todo |-> <<"delete", "wipe">>,
           seen |-> "absent", failed |-> FALSE, ctx |-> "live"]
  BY RemovalPlan DEF Operation
<1>4. <<"delete", "wipe">> \in Seq(Requests \cup {"mark"})
  BY DEF Requests
<1> HIDE DEF b
<1>5. b \in Operations
  BY <1>1, <1>3, <1>4 DEF Operations, Kinds, Removers, Statuses
<1>6. /\ b.kind = "cancel" /\ b.inst = op[o].inst /\ b.todo = <<"delete", "wipe">> /\ b.ctx = "live"
  BY <1>3
<1>7. [op[o] EXCEPT !.ctx = c] \in Operations
  BY <1>1 DEF Operations
<1>8. /\ op'[o] = [op[o] EXCEPT !.ctx = c] /\ op'[p] = b
      /\ \A q \in Ops \ {o, p} : op'[q] = op[q]
      /\ op' \in [Ops -> Operations \cup {Idle, Done}]
  BY <1>1, <1>2, <1>5, <1>7 DEF InstTypeOK
<1>9. /\ op'[o].kind = "clone" /\ op'[o].inst = op[o].inst /\ op'[o].src = op[o].src
      /\ op'[o].todo = op[o].todo /\ op'[o].ctx = c
  BY <1>1, <1>8 DEF Operations
<1>10. UNCHANGED <<orchVars, row, faults, unsettled>>
  BY DEF CancelClone
<1>11. Cancels(o, p, b)
  BY <1>1, <1>2, <1>5, <1>6, <1>7, <1>8, <1>9, <1>10 DEF Cancels
<1> QED
  BY <1>5, <1>11

\* The others keep their records when one operation ends.
LEMMA EndingKeeps ==
  ASSUME InstTypeOK, NEW o \in Ops, Active(o), Ending(o)
  PROVE  /\ op' \in [Ops -> Operations \cup {Idle, Done}]
         /\ \A q \in Ops : op'[q] \in Operations => \E r \in Ops \ {o} : op'[q] = op[r]
         /\ \A r \in Ops \ {o} : \E q \in Ops : op'[q] = op[r]
         /\ \A q, r \in Ops : op'[q] \in Operations /\ op'[r] \in Operations /\ q # r =>
              \E x, y \in Ops \ {o} : x # y /\ op'[q] = op[x] /\ op'[r] = op[y]
<1> USE InstancesAssumption DEF InstTypeOK, Ops
<1>0. op' = [q \in Ops |-> IF q = 1 THEN Done ELSE IF q <= o THEN op[q - 1] ELSE op[q]]
  BY DEF Ending
<1>1. op' \in [Ops -> Operations \cup {Idle, Done}]
  BY <1>0
<1>2. \A q \in Ops : op'[q] \in Operations =>
        /\ q # 1 /\ (q <= o => q - 1 \in Ops \ {o} /\ op'[q] = op[q - 1])
        /\ (q > o => q \in Ops \ {o} /\ op'[q] = op[q])
  BY <1>0, AtWork
<1>3. ASSUME NEW r \in Ops \ {o}
      PROVE  \E q \in Ops : op'[q] = op[r]
  <2>1. CASE r < o
    <3>1. r + 1 \in Ops /\ op'[r + 1] = op[r]
      BY <1>0, <2>1
    <3> QED
      BY <3>1
  <2>2. CASE r > o
    <3>1. op'[r] = op[r]
      BY <1>0, <2>2
    <3> QED
      BY <3>1
  <2> QED
    BY <2>1, <2>2
<1>4. ASSUME NEW q \in Ops, NEW r \in Ops, op'[q] \in Operations, op'[r] \in Operations, q # r
      PROVE  \E x, y \in Ops \ {o} : x # y /\ op'[q] = op[x] /\ op'[r] = op[y]
  <2>1. CASE q <= o /\ r <= o
    <3>1. q - 1 # r - 1
      BY <1>4
    <3> QED
      BY <1>2, <1>4, <2>1, <3>1
  <2>2. CASE q <= o /\ r > o
    <3>1. q - 1 # r
      BY <2>2
    <3> QED
      BY <1>2, <1>4, <2>2, <3>1
  <2>3. CASE q > o /\ r <= o
    <3>1. q # r - 1
      BY <2>3
    <3> QED
      BY <1>2, <1>4, <2>3, <3>1
  <2>4. CASE q > o /\ r > o
    BY <1>2, <1>4, <2>4
  <2> QED
    BY <2>1, <2>2, <2>3, <2>4
<1> QED
  BY <1>1, <1>2, <1>3, <1>4

\* What an operation writes to the row when it ends.
LEMMA Outcomes ==
  ASSUME InstTypeOK, NEW o \in Ops, Active(o), Exists(op[o].inst)
  PROVE  /\ Outcome(o) \in Statuses \ {"absent"}
         /\ op[o].kind \in Creators => Outcome(o) \in {"error", "running"}
         /\ op[o].kind \in Removers => Outcome(o) = "gone"
         /\ op[o].kind \notin Removers => Outcome(o) # "gone"
         /\ Outcome(o) = "creating" => row[op[o].inst] = "creating"
<1>1. op[o] \in Operations /\ op[o].kind \in Kinds /\ op[o].inst \in Ids
  BY AtWork DEF Operations
<1>2. row[op[o].inst] \in Statuses \ {"absent", "gone"}
  BY <1>1 DEF InstTypeOK, Exists
<1>3. resolveStatus(op[o].inst, op[o].seen) \in {"stopped", "running", row[op[o].inst]}
  BY DEF resolveStatus
<1>4. /\ CreateOutcome(o) \in {"error", "running"}
      /\ RestartOutcome(o) \in {row[op[o].inst], "restarting"}
      /\ AsyncOutcome(o) \in {row[op[o].inst], "error"}
      /\ ImageOutcome(o) \in {"error", "running"}
  BY DEF CreateOutcome, RestartOutcome, AsyncOutcome, ImageOutcome
<1>5. CASE op[o].kind \in Creators
  BY <1>4, <1>5 DEF Outcome, Creators, Statuses, Removers
<1>6. CASE op[o].kind \in Removers
  BY <1>6 DEF Outcome, Creators, Statuses, Removers
<1>7. CASE op[o].kind \in {"restart", "async", "image"}
  BY <1>2, <1>4, <1>7 DEF Outcome, Creators, Statuses, Removers
<1>8. CASE op[o].kind \in {"start", "stop", "list", "migrate"}
  BY <1>2, <1>3, <1>8 DEF Outcome, Creators, Statuses, Removers
<1> QED
  BY <1>1, <1>5, <1>6, <1>7, <1>8 DEF Kinds, Builders, Creators

--------------------------------------------------------------------------------
(* What the requests do to the workloads.                                    *)

\* A request, done or failed, touches its target alone; only a wipe removes
\* volumes, and starting, stopping or removing builds nothing.
LEMMA RequestEffect ==
  ASSUME OrchTypeOK, NEW w \in Workloads, NEW q \in Requests, Perform(q, w) \/ Fail(q, w)
  PROVE  /\ OrchTypeOK'
         /\ \A i \in Workloads \ {w} : workload'[i] = workload[i] /\ (i \in volumes' <=> i \in volumes)
         /\ q # "wipe" => volumes \subseteq volumes'
         /\ q \in {"start", "stop", "haltSource", "startSource", "delete", "wipe"} =>
              (workload[w] = "none" => workload'[w] = "none") /\ volumes' \subseteq volumes
         /\ q = "delete" /\ Perform(q, w) => workload'[w] = "none"
         /\ q = "wipe" => workload'[w] = workload[w]
         /\ q = "wipe" /\ Perform(q, w) => w \notin volumes'
<1>0. workload \in [Workloads -> {"none", "down", "starting", "up"}] /\ volumes \subseteq Workloads
  BY DEF OrchTypeOK
<1>1. CASE Fail(q, w)
  <2>1. OrchTypeOK'
    BY <1>1 DEF Fail, OrchTypeOK
  <2>2. volumes' = volumes /\ (workload' = workload \/ (q = "createContainer" /\ \E s \in {"down"} : workload' = [workload EXCEPT ![w] = s]))
    BY <1>1 DEF Fail
  <2>3. ~Perform("delete", w) \/ q # "delete" \/ workload'[w] = "none"
    BY <1>0 DEF Perform, AfterRequest
  <2>4. ~Perform("wipe", w) \/ q # "wipe" \/ w \notin volumes'
    BY <1>0 DEF Perform, VolumesAfter
  <2> QED
    BY <1>0, <2>1, <2>2, <2>3, <2>4
<1>2. CASE Perform(q, w)
  <2>1. PICK s \in AfterRequest(q, workload[w]) : workload' = [workload EXCEPT ![w] = s]
    BY <1>2 DEF Perform
  <2>2. s \in {"none", "down", "starting", "up"}
    BY <1>0, <2>1 DEF AfterRequest, CreateContainer, CreateDeployment, UpsertDeployment,
       StartRequest, StopRequest
  <2>3. volumes' = VolumesAfter(q, w) /\ backend' = backend
    BY <1>2 DEF Perform
  <2>4. /\ volumes' \subseteq Workloads
        /\ \A i \in Workloads \ {w} : (i \in volumes' <=> i \in volumes)
        /\ q # "wipe" => volumes \subseteq volumes'
        /\ q = "wipe" => w \notin volumes'
        /\ q \in {"start", "stop", "haltSource", "startSource", "delete", "wipe"} => volumes' \subseteq volumes
    BY <1>0, <2>3 DEF VolumesAfter
  <2>5. /\ q \in {"start", "stop", "haltSource", "startSource", "delete"} => (workload[w] = "none" => s = "none")
        /\ q = "delete" => s = "none"
        /\ q = "wipe" => s = workload[w]
    BY <2>1 DEF AfterRequest, StartRequest, StopRequest
  <2>6. OrchTypeOK'
    BY <1>0, <2>1, <2>2, <2>3, <2>4 DEF OrchTypeOK
  <2> QED
    BY <1>0, <2>1, <2>2, <2>4, <2>5, <2>6
<1> QED
  BY <1>1, <1>2

\* The backend never refuses a request of a removal.
LEMMA NotRefused == \A w \in Workloads : ~Refused("delete", w) /\ ~Refused("wipe", w)
  BY DEF Refused, AfterRequest

\* What one request of an operation does to the workloads: only a builder whose
\* context is not cancelled builds its instance, only a removal takes volumes
\* away, and a removal that has not failed has done what it asked for.
LEMMA StepEffect ==
  ASSUME InstTypeOK, PlanInv, NEW o \in Ops, Steps(o)
  PROVE  /\ OrchTypeOK' /\ faults' \in 0..MaxFaults
         /\ tainted \subseteq tainted' /\ tainted' \subseteq tainted \cup {op[o].inst}
         /\ op[o].kind \notin Removers => tainted' = tainted
         /\ \A i \in Ids :
              (workload[i] = "none" /\ workload'[i] # "none") \/ (i \notin volumes /\ i \in volumes')
              => op[o].kind \in Builders /\ op[o].inst = i /\ op[o].ctx # "cancelled"
         /\ \A i \in Ids : i \in volumes /\ i \notin volumes' => op[o].kind \in Removers /\ op[o].inst = i
         /\ op[o].kind \in Removers /\ op[o].inst \notin tainted' =>
              /\ op'[o].todo = Tail(op[o].todo)
              /\ op[o].todo = <<"delete", "wipe">> => workload'[op[o].inst] = "none"
              /\ op[o].todo = <<"wipe">> => op[o].inst \notin volumes'
<1> DEFINE q == Head(op[o].todo)
           i0 == op[o].inst
<1>1. Active(o) /\ op[o] \in Operations /\ op[o].todo # <<>> /\ PlanOK(op[o])
  BY AtWork DEF Steps, MarkRestarting, Request, RequestLands, RequestRefused, RequestFails,
       HasRequest, PlanInv
<1>2. q \in Requests \cup {"mark"} /\ Target(o) \in Workloads /\ i0 \in Workloads
  BY <1>1 DEF Operations, Target, Ids
<1>3. OrchTypeOK /\ faults \in 0..MaxFaults /\ tainted \subseteq Ids
  BY DEF InstTypeOK
<1>4. /\ op[o].kind \notin Removers => q # "wipe"
      /\ op[o].kind \notin Builders \cup Removers => q \in {"start", "stop"}
      /\ op[o].kind \in Removers => op[o].todo \in {<<"delete", "wipe">>, <<"wipe">>} /\ q \in {"delete", "wipe"}
                                    /\ op[o].ctx = "live"
      /\ op[o].todo = <<"delete", "wipe">> => q = "delete"
      /\ op[o].todo = <<"wipe">> => q = "wipe"
  <2>1. \A S : \A t \in Seq(S) : t # <<>> => Head(t) \in S
    OBVIOUS
  <2>2. op[o].kind \notin Removers => q # "wipe"
    BY <1>1, <2>1 DEF PlanOK, Harmless
  <2>3. op[o].kind \notin Builders \cup Removers => q \in {"start", "stop"}
    <3>1. op[o].kind \notin Builders \cup Removers => op[o].kind \in {"start", "stop", "list"}
      BY <1>1 DEF Operations, Kinds
    <3> QED
      BY <1>1, <2>1, <3>1 DEF PlanOK
  <2> QED
    BY <1>1, <2>2, <2>3, RemovalPlan DEF PlanOK, Removers
<1>5. q \notin {"haltSource", "startSource"} => Target(o) = i0
  BY DEF Target
<1>6. op[o].kind \in Removers => Target(o) = i0
  BY <1>4, <1>5
<1> DEFINE W == Target(o)
<1>8. CASE (Request(o) \/ RequestLands(o) \/ RequestFails(o)) /\ q # "mark"
  <2>1. Perform(q, W) \/ Fail(q, W)
    BY <1>8 DEF Request, RequestLands, RequestFails
  <2>2. q \in Requests /\ op[o].ctx # "cancelled"
    BY <1>2, <1>8 DEF Request, RequestLands, RequestFails
  <2>3. /\ OrchTypeOK'
        /\ \A i \in Workloads \ {W} : workload'[i] = workload[i] /\ (i \in volumes' <=> i \in volumes)
        /\ q # "wipe" => volumes \subseteq volumes'
        /\ q \in {"start", "stop", "haltSource", "startSource", "delete", "wipe"} =>
              (workload[W] = "none" => workload'[W] = "none") /\ volumes' \subseteq volumes
        /\ q = "delete" /\ Perform(q, W) => workload'[W] = "none"
        /\ q = "wipe" => workload'[W] = workload[W]
        /\ q = "wipe" /\ Perform(q, W) => W \notin volumes'
    BY <1>2, <1>3, <2>1, <2>2, RequestEffect
  <2>4. faults' \in 0..MaxFaults
    BY <1>3, <1>8, InstancesAssumption DEF Request, RequestLands, RequestFails
  <2>5. /\ tainted \subseteq tainted' /\ tainted' \subseteq tainted \cup {i0}
        /\ op[o].kind \notin Removers => tainted' = tainted
    BY <1>8 DEF Request, RequestLands, RequestFails
  <2>6. op[o].kind \in Removers /\ i0 \notin tainted' => Request(o)
    BY <1>4, <1>8 DEF RequestLands, RequestFails
  <2>7. Request(o) => Perform(q, W) /\ op'[o].todo = Tail(op[o].todo)
    BY <1>1, AtWork DEF Request, InstTypeOK, Operations
  <2>8. ASSUME NEW i \in Ids,
               (workload[i] = "none" /\ workload'[i] # "none") \/ (i \notin volumes /\ i \in volumes')
        PROVE  op[o].kind \in Builders /\ op[o].inst = i /\ op[o].ctx # "cancelled"
    BY <1>4, <1>5, <2>2, <2>3, <2>8 DEF Ids
  <2>9. ASSUME NEW i \in Ids, i \in volumes /\ i \notin volumes'
        PROVE  op[o].kind \in Removers /\ op[o].inst = i
    BY <1>4, <1>5, <2>3, <2>9 DEF Ids
  <2>10. op[o].kind \in Removers /\ i0 \notin tainted' =>
              /\ op'[o].todo = Tail(op[o].todo)
              /\ op[o].todo = <<"delete", "wipe">> => workload'[op[o].inst] = "none"
              /\ op[o].todo = <<"wipe">> => op[o].inst \notin volumes'
    BY <1>4, <1>6, <2>3, <2>6, <2>7
  <2> QED
    BY <2>3, <2>4, <2>5, <2>8, <2>9, <2>10
<1>9. CASE MarkRestarting(o) \/ RequestRefused(o)
  <2>1. UNCHANGED <<orchVars, faults, tainted>>
    BY <1>9 DEF MarkRestarting, RequestRefused
  <2>2. op[o].kind \notin Removers
    <3>1. op[o].kind \in Removers => ~MarkRestarting(o)
      BY <1>4 DEF MarkRestarting
    <3>2. op[o].kind \in Removers => ~RequestRefused(o)
      BY <1>2, <1>4, <1>6, NotRefused DEF RequestRefused
    <3> QED
      BY <1>9, <3>1, <3>2
  <2> QED
    BY <1>3, <2>1, <2>2 DEF orchVars, OrchTypeOK
<1> QED
  BY <1>8, <1>9 DEF Steps, Request, RequestLands, RequestFails, HasRequest

--------------------------------------------------------------------------------
(* Every step preserves the invariant.                                       *)

\* AtWork, after a step.
LEMMA AtWorkNext ==
  ASSUME op' \in [Ops -> Operations \cup {Idle, Done}]
  PROVE  \A q \in Ops : Active(q)' <=> op'[q] \in Operations
  BY AtWork DEF Active

\* The call of a handler.
LEMMA StartsKeeps ==
  ASSUME InstInv, NEW o \in Ops, NEW a \in Operations, Starts(o, a)
  PROVE  InstInv'
<1>0. InstTypeOK /\ PlanInv /\ FirstInv /\ UnbuiltInv /\ RemovedInv /\ NoOrphanWorkload /\ CreatingHasTask
  BY DEF InstInv
<1>1. /\ op \in [Ops -> Operations \cup {Idle, Done}] /\ row \in [Ids -> Statuses] /\ tainted \subseteq Ids
      /\ a.inst \in Ids
  BY <1>0 DEF InstTypeOK, Operations
<1>2. op' \in [Ops -> Operations \cup {Idle, Done}] /\ op'[o] = a /\ \A q \in Ops \ {o} : op'[q] = op[q]
  BY <1>1 DEF Starts
<1>3. Active(o)' /\ ~Active(o) /\ \A q \in Ops \ {o} : Active(q)' <=> Active(q)
  BY <1>0, <1>2, AtWork, AtWorkNext DEF Starts
<1>4. /\ workload' = workload /\ volumes' = volumes /\ backend' = backend /\ faults' = faults
      /\ unsettled' = unsettled
  BY DEF Starts, orchVars
<1>5. /\ row' \in [Ids -> Statuses]
      /\ \A i \in Ids : row'[i] = row[i] \/ (i = a.inst /\ row[i] = "absent" /\ row'[i] = "creating" /\ a.kind \in Creators)
      /\ row'[a.inst] \notin {"absent", "gone"}
      /\ a.kind \in Creators => row[a.inst] = "absent"
  BY <1>1 DEF Starts, Statuses, Exists
<1>6. /\ tainted' \subseteq Ids /\ tainted \subseteq tainted'
      /\ a.kind \in Removers /\ Busy(a.inst, Builders) => a.inst \in tainted'
      /\ a.kind \in Builders /\ Busy(a.inst, Removers) => a.inst \in tainted'
  BY <1>1 DEF Starts
<1>7. InstTypeOK'
  BY <1>0, <1>2, <1>4, <1>5, <1>6 DEF InstTypeOK, OrchTypeOK
<1>8. PlanInv'
  BY <1>0, <1>2, <1>3 DEF PlanInv, Starts
<1>9. FirstInv'
  <2>1. \A q \in Ops : Active(q) => op[q].inst \in Ids /\ row[op[q].inst] # "absent"
    BY <1>0, AtWork DEF FirstInv, Operations
  <2>2. \A q \in Ops : Active(q)' => row'[op'[q].inst] # "absent"
    BY <1>2, <1>3, <1>5, <2>1
  <2>3. ASSUME NEW q \in Ops, NEW r \in Ops, Active(q)', op'[q].kind = "clone", Active(r)',
               op'[r].kind = "clone", op'[q].inst = op'[r].inst
        PROVE  q = r
    BY <1>0, <1>2, <1>3, <1>5, <2>1, <2>3 DEF FirstInv, Creators
  <2> QED
    BY <2>2, <2>3 DEF FirstInv
<1>10. UnbuiltInv'
  <2> SUFFICES ASSUME NEW q \in Ops, Active(q)', op'[q].kind \in Builders, op'[q].inst \notin tainted'
               PROVE  /\ op'[q].ctx # "landing"
                      /\ row'[op'[q].inst] = "gone" \/ Busy(op[q].inst, Removers)'
                         => op'[q].kind = "clone" /\ op'[q].ctx = "cancelled"
    BY DEF UnbuiltInv
  <2>1. ASSUME Busy(op[q].inst, Removers)'
        PROVE  Busy(op'[q].inst, Removers) \/ (a.kind \in Removers /\ a.inst = op'[q].inst)
    BY <1>2, <1>3, <2>1 DEF Busy
  <2>2. Builders \cap Removers = {}
    BY DEF Builders, Removers
  <2>3. CASE q = o
    BY <1>2, <1>5, <1>6, <2>1, <2>2, <2>3 DEF Starts
  <2>4. CASE q # o
    <3>1. Active(q) /\ op'[q] = op[q] /\ op[q].inst \in Ids /\ op[q].inst \notin tainted
      BY <1>0, <1>2, <1>3, <1>6, <2>4, AtWork DEF Operations
    <3>2. Busy(op[q].inst, Builders)
      BY <3>1 DEF Busy
    <3>3. row'[op[q].inst] = "gone" => row[op[q].inst] = "gone"
      BY <1>5, <3>1
    <3> QED
      BY <1>0, <1>6, <2>1, <3>1, <3>2, <3>3 DEF UnbuiltInv
  <2> QED
    BY <2>3, <2>4
<1>11. RemovedInv'
  BY <1>0, <1>2, <1>3, <1>4, <1>6, RemovalPlan DEF RemovedInv, Starts
<1>12. NoOrphanWorkload'
  BY <1>0, <1>4, <1>5, <1>6 DEF NoOrphanWorkload
<1>13. CreatingHasTask'
  <2> SUFFICES ASSUME NEW i \in Ids, row'[i] = "creating", i \notin unsettled' PROVE Busy(i, {"create", "clone"})'
    BY DEF CreatingHasTask
  <2>1. CASE row[i] = "creating"
    <3>1. PICK q \in Ops : Active(q) /\ op[q].inst = i /\ op[q].kind \in {"create", "clone"}
      BY <1>0, <1>4, <2>1 DEF CreatingHasTask, Busy
    <3>2. Active(q)' /\ op'[q] = op[q]
      BY <1>2, <1>3, <3>1
    <3> QED
      BY <3>1, <3>2 DEF Busy
  <2>2. CASE row[i] # "creating"
    BY <1>2, <1>3, <1>5, <2>2 DEF Busy, Creators
  <2> QED
    BY <2>1, <2>2
<1> QED
  BY <1>7, <1>8, <1>9, <1>10, <1>11, <1>12, <1>13 DEF InstInv

\* What a step of an operation writes to the row.
LEMMA StepRow ==
  ASSUME InstTypeOK, NEW o \in Ops, Steps(o)
  PROVE  /\ row' \in [Ids -> Statuses]
         /\ \A i \in Ids : row'[i] = row[i] \/ (Exists(i) /\ row'[i] = "restarting")
         /\ unsettled' = unsettled
<1>1. Active(o) /\ op[o] \in Operations /\ op[o].inst \in Ids
  BY AtWork DEF Steps, MarkRestarting, Request, RequestLands, RequestRefused, RequestFails,
       HasRequest, Operations
<1>2. row' = row \/ row' = Updated(op[o].inst, "restarting")
  BY DEF Steps, MarkRestarting, Request, RequestLands, RequestRefused, RequestFails
<1>3. unsettled' = unsettled
  BY DEF Steps, MarkRestarting, Request, RequestLands, RequestRefused, RequestFails
<1> QED
  BY <1>1, <1>2, <1>3 DEF InstTypeOK, Updated, Statuses

\* A step of an operation.
LEMMA StepKeeps ==
  ASSUME InstInv, NEW o \in Ops, Steps(o)
  PROVE  InstInv'
<1>0. InstTypeOK /\ PlanInv /\ FirstInv /\ UnbuiltInv /\ RemovedInv /\ NoOrphanWorkload /\ CreatingHasTask
  BY DEF InstInv
<1>1. PICK a \in Operations : GoesOn(o, a)
  BY <1>0, StepGoesOn
<1>2. op \in [Ops -> Operations \cup {Idle, Done}] /\ tainted \subseteq Ids
  BY <1>0 DEF InstTypeOK
<1>3. op' \in [Ops -> Operations \cup {Idle, Done}] /\ op'[o] = a /\ \A q \in Ops \ {o} : op'[q] = op[q]
  BY <1>1, <1>2 DEF GoesOn
<1>4. /\ \A q \in Ops : Active(q)' <=> Active(q)
      /\ \A q \in Ops : Active(q) => /\ op'[q].kind = op[q].kind /\ op'[q].inst = op[q].inst
                                     /\ op[q] \in Operations /\ op[q].inst \in Ids
  BY <1>0, <1>1, <1>3, AtWork, AtWorkNext DEF GoesOn, Operations
<1>5. \A i, K : Busy(i, K)' <=> Busy(i, K)
  BY <1>4 DEF Busy
<1>6. /\ row' \in [Ids -> Statuses] /\ \A i \in Ids : row'[i] = row[i] \/ (Exists(i) /\ row'[i] = "restarting")
      /\ unsettled' = unsettled
  BY <1>0, StepRow
<1>7. Active(o)
  BY <1>1 DEF GoesOn
<1>8. /\ OrchTypeOK' /\ faults' \in 0..MaxFaults
      /\ tainted \subseteq tainted' /\ tainted' \subseteq tainted \cup {op[o].inst}
      /\ op[o].kind \notin Removers => tainted' = tainted
  BY <1>0, StepEffect
<1>9. \A i \in Ids :
        (workload[i] = "none" /\ workload'[i] # "none") \/ (i \notin volumes /\ i \in volumes')
        => op[o].kind \in Builders /\ op[o].inst = i /\ op[o].ctx # "cancelled"
  BY <1>0, StepEffect
<1>10. op[o].kind \in Removers /\ op[o].inst \notin tainted' =>
              /\ op'[o].todo = Tail(op[o].todo)
              /\ op[o].todo = <<"delete", "wipe">> => workload'[op[o].inst] = "none"
              /\ op[o].todo = <<"wipe">> => op[o].inst \notin volumes'
  BY <1>0, StepEffect
<1>11. ASSUME NEW i \in Ids, i \notin tainted, row[i] = "gone" \/ Busy(i, Removers)
       PROVE  /\ workload[i] = "none" => workload'[i] = "none"
              /\ i \notin volumes => i \notin volumes'
  BY <1>0, <1>7, <1>9, <1>11 DEF UnbuiltInv
<1>12. InstTypeOK'
  BY <1>0, <1>2, <1>3, <1>4, <1>6, <1>7, <1>8 DEF InstTypeOK
<1>13. PlanInv'
  BY <1>0, <1>1, <1>3, <1>4 DEF PlanInv, GoesOn
<1>14. FirstInv'
  <2>1. \A q \in Ops : Active(q)' => row'[op'[q].inst] # "absent"
    BY <1>0, <1>4, <1>6 DEF FirstInv
  <2>2. ASSUME NEW q \in Ops, NEW r \in Ops, Active(q)', op'[q].kind = "clone", Active(r)',
               op'[r].kind = "clone", op'[q].inst = op'[r].inst
        PROVE  q = r
    BY <1>0, <1>4, <2>2 DEF FirstInv
  <2> QED
    BY <2>1, <2>2 DEF FirstInv
<1>15. UnbuiltInv'
  <2> SUFFICES ASSUME NEW q \in Ops, Active(q)', op'[q].kind \in Builders, op'[q].inst \notin tainted'
               PROVE  /\ op'[q].ctx # "landing"
                      /\ row'[op'[q].inst] = "gone" \/ Busy(op[q].inst, Removers)'
                         => op'[q].kind = "clone" /\ op'[q].ctx = "cancelled"
    BY DEF UnbuiltInv
  <2>1. /\ Active(q) /\ op[q].kind \in Builders /\ op[q].inst \notin tainted /\ op[q].inst \in Ids
        /\ op'[q].inst = op[q].inst /\ op'[q].kind = op[q].kind
    BY <1>4, <1>8
  <2>2. op[q].ctx # "landing"
    BY <1>0, <2>1 DEF UnbuiltInv
  <2>3. op'[q].ctx = op[q].ctx
    BY <1>1, <1>3, <2>2 DEF GoesOn
  <2>4. row'[op[q].inst] = "gone" => row[op[q].inst] = "gone"
    BY <1>6, <2>1
  <2> QED
    BY <1>0, <1>5, <2>1, <2>2, <2>3, <2>4 DEF UnbuiltInv
<1>16. RemovedInv'
  <2> SUFFICES ASSUME NEW q \in Ops, Active(q)', op'[q].kind \in Removers, op'[q].inst \notin tainted'
               PROVE  /\ op'[q].todo # <<"delete", "wipe">> => workload'[op'[q].inst] = "none"
                      /\ op'[q].todo = <<>> => op'[q].inst \notin volumes'
    BY DEF RemovedInv
  <2>1. /\ Active(q) /\ op[q].kind \in Removers /\ op[q].inst \notin tainted /\ op[q].inst \in Ids
        /\ op'[q].inst = op[q].inst
    BY <1>4, <1>8
  <2>2. Busy(op[q].inst, Removers)
    BY <2>1 DEF Busy
  <2>3. CASE q # o
    BY <1>0, <1>3, <1>11, <2>1, <2>2, <2>3 DEF RemovedInv
  <2>4. CASE q = o
    <3>1. op[o].todo \in {<<"delete", "wipe">>, <<"wipe">>}
      BY <1>0, <1>1, <2>1, <2>4 DEF PlanInv, PlanOK, GoesOn
    <3>2. CASE op[o].todo = <<"delete", "wipe">>
      BY <1>10, <2>1, <2>4, <3>2, RemovalPlan
    <3>3. CASE op[o].todo = <<"wipe">>
      <4>1. workload[op[o].inst] = "none"
        BY <1>0, <2>1, <2>4, <3>3, RemovalPlan DEF RemovedInv
      <4> QED
        BY <1>10, <1>11, <2>1, <2>2, <2>4, <3>3, <4>1
    <3> QED
      BY <3>1, <3>2, <3>3
  <2> QED
    BY <2>3, <2>4
<1>17. NoOrphanWorkload'
  BY <1>0, <1>6, <1>8, <1>11 DEF NoOrphanWorkload
<1>18. CreatingHasTask'
  BY <1>0, <1>5, <1>6 DEF CreatingHasTask
<1> QED
  BY <1>12, <1>13, <1>14, <1>15, <1>16, <1>17, <1>18 DEF InstInv

\* The end of an operation, whether or not its outcome can be written.
LEMMA SettleKeeps ==
  ASSUME InstInv, NEW o \in Ops, Settle(o) \/ SettleFails(o)
  PROVE  InstInv'
<1>0. InstTypeOK /\ PlanInv /\ FirstInv /\ UnbuiltInv /\ RemovedInv /\ NoOrphanWorkload /\ CreatingHasTask
  BY DEF InstInv
<1>1. /\ Active(o) /\ op[o].todo = <<>> /\ Ending(o)
      /\ \/ row' = Updated(op[o].inst, Outcome(o)) /\ unsettled' = unsettled
         \/ /\ row' = row /\ unsettled \subseteq unsettled' /\ unsettled' \subseteq unsettled \cup {op[o].inst}
            /\ op[o].kind \in Creators => op[o].inst \in unsettled'
  BY DEF Settle, SettleFails, Creators
<1>2. op[o] \in Operations /\ op[o].inst \in Ids
  BY <1>0, <1>1, AtWork DEF Operations
<1>3. /\ workload' = workload /\ volumes' = volumes /\ backend' = backend /\ faults' \in 0..MaxFaults
      /\ tainted' = tainted
  BY <1>0, InstancesAssumption DEF Settle, SettleFails, orchVars, InstTypeOK
<1>4. op' \in [Ops -> Operations \cup {Idle, Done}]
  BY <1>0, <1>1, EndingKeeps
<1>5. \A q \in Ops : Active(q)' => \E r \in Ops \ {o} : Active(r) /\ op'[q] = op[r] /\ op[r].inst \in Ids
  <2>1. \A q \in Ops : op'[q] \in Operations => \E r \in Ops \ {o} : op'[q] = op[r]
    BY <1>0, <1>1, EndingKeeps
  <2> QED
    BY <1>0, <1>4, <2>1, AtWork, AtWorkNext DEF Operations
<1>6. \A r \in Ops \ {o} : Active(r) => \E q \in Ops : Active(q)' /\ op'[q] = op[r]
  <2>1. \A r \in Ops \ {o} : \E q \in Ops : op'[q] = op[r]
    BY <1>0, <1>1, EndingKeeps
  <2> QED
    BY <1>0, <1>4, <2>1, AtWork, AtWorkNext
<1>7. \A i, K : Busy(i, K)' => Busy(i, K)
  BY <1>5 DEF Busy
<1>8. /\ row \in [Ids -> Statuses]
      /\ row' = row \/ (Exists(op[o].inst) /\ row' = [row EXCEPT ![op[o].inst] = Outcome(o)])
  BY <1>0, <1>1 DEF InstTypeOK, Updated
<1>9. Exists(op[o].inst) =>
        /\ Outcome(o) \in Statuses \ {"absent"}
        /\ op[o].kind \in Creators => Outcome(o) \in {"error", "running"}
        /\ op[o].kind \notin Removers => Outcome(o) # "gone"
        /\ Outcome(o) = "creating" => row[op[o].inst] = "creating"
  BY <1>0, <1>1, Outcomes
<1>10. row' \in [Ids -> Statuses]
  BY <1>2, <1>8, <1>9
<1>11. \A i \in Ids :
         /\ row'[i] = "absent" => row[i] = "absent"
         /\ row'[i] = "gone" => row[i] = "gone" \/ (i = op[o].inst /\ op[o].kind \in Removers)
         /\ row'[i] = "creating" /\ i \notin unsettled'
            => row[i] = "creating" /\ i \notin unsettled /\ ~(i = op[o].inst /\ op[o].kind \in Creators)
  <2>1. CASE row' = row
    <3>1. \A i \in Ids : row[i] = "creating" /\ i \notin unsettled' => ~(i = op[o].inst /\ op[o].kind \in Creators)
      <4>1. ASSUME row[op[o].inst] = "creating", op[o].kind \in Creators, op[o].inst \notin unsettled' PROVE FALSE
        <5>1. Exists(op[o].inst)
          BY <4>1 DEF Exists
        <5>2. row'[op[o].inst] = Outcome(o)
          BY <1>1, <1>2, <1>8, <4>1, <5>1 DEF Updated
        <5> QED
          BY <1>9, <2>1, <4>1, <5>1, <5>2
      <4> QED
        BY <4>1
    <3> QED
      BY <1>1, <2>1, <3>1
  <2>2. CASE Exists(op[o].inst) /\ row' # row /\ row' = [row EXCEPT ![op[o].inst] = Outcome(o)]
    BY <1>1, <1>2, <1>8, <1>9, <2>2
  <2> QED
    BY <1>8, <2>1, <2>2
<1>12. InstTypeOK'
  BY <1>0, <1>1, <1>2, <1>3, <1>4, <1>10 DEF InstTypeOK, OrchTypeOK
<1>13. PlanInv'
  BY <1>0, <1>5 DEF PlanInv
<1>14. FirstInv'
  <2>1. \A q \in Ops : Active(q)' => row'[op'[q].inst] # "absent"
    BY <1>0, <1>5, <1>11 DEF FirstInv
  <2>2. ASSUME NEW q \in Ops, NEW r \in Ops, Active(q)', op'[q].kind = "clone", Active(r)',
               op'[r].kind = "clone", op'[q].inst = op'[r].inst, q # r
        PROVE  FALSE
    <3>1. op'[q] \in Operations /\ op'[r] \in Operations
      BY <1>4, <2>2, AtWorkNext
    <3>2. PICK x \in Ops, y \in Ops : x # y /\ op'[q] = op[x] /\ op'[r] = op[y]
      BY <1>0, <1>1, <2>2, <3>1, EndingKeeps
    <3>3. Active(x) /\ Active(y)
      BY <1>0, <3>1, <3>2, AtWork
    <3> QED
      BY <1>0, <2>2, <3>2, <3>3 DEF FirstInv
  <2> QED
    BY <2>1, <2>2 DEF FirstInv
<1>15. UnbuiltInv'
  <2> SUFFICES ASSUME NEW q \in Ops, Active(q)', op'[q].kind \in Builders, op'[q].inst \notin tainted'
               PROVE  /\ op'[q].ctx # "landing"
                      /\ row'[op'[q].inst] = "gone" \/ Busy(op[q].inst, Removers)'
                         => op'[q].kind = "clone" /\ op'[q].ctx = "cancelled"
    BY DEF UnbuiltInv
  <2>1. PICK r \in Ops \ {o} : Active(r) /\ op'[q] = op[r] /\ op[r].inst \in Ids
    BY <1>5
  <2>2. op[r].kind \in Builders /\ op[r].inst \notin tainted
    BY <1>3, <2>1
  <2>3. Busy(op[q].inst, Removers)' => Busy(op[r].inst, Removers)
    BY <1>5, <2>1 DEF Busy
  <2>4. row'[op[r].inst] = "gone" => row[op[r].inst] = "gone" \/ Busy(op[r].inst, Removers)
    BY <1>1, <1>11, <2>1 DEF Busy
  <2> QED
    BY <1>0, <2>1, <2>2, <2>3, <2>4 DEF UnbuiltInv
<1>16. RemovedInv'
  BY <1>0, <1>3, <1>5 DEF RemovedInv
<1>17. NoOrphanWorkload'
  BY <1>0, <1>1, <1>3, <1>11, RemovalPlan DEF NoOrphanWorkload, RemovedInv
<1>18. CreatingHasTask'
  <2> SUFFICES ASSUME NEW i \in Ids, row'[i] = "creating", i \notin unsettled' PROVE Busy(i, {"create", "clone"})'
    BY DEF CreatingHasTask
  <2>1. row[i] = "creating" /\ i \notin unsettled /\ ~(i = op[o].inst /\ op[o].kind \in Creators)
    BY <1>11
  <2>2. PICK q \in Ops : Active(q) /\ op[q].inst = i /\ op[q].kind \in {"create", "clone"}
    BY <1>0, <2>1 DEF CreatingHasTask, Busy
  <2>3. q # o
    BY <2>1, <2>2 DEF Creators
  <2>4. PICK r \in Ops : Active(r)' /\ op'[r] = op[q]
    BY <1>6, <2>2, <2>3
  <2> QED
    BY <2>2, <2>4 DEF Busy
<1> QED
  BY <1>12, <1>13, <1>14, <1>15, <1>16, <1>17, <1>18 DEF InstInv

\* The cancel of a clone.
LEMMA CancelKeeps ==
  ASSUME InstInv, NEW o \in Ops, NEW p \in Ops, NEW b \in Operations, Cancels(o, p, b)
  PROVE  InstInv'
<1>0. InstTypeOK /\ PlanInv /\ FirstInv /\ UnbuiltInv /\ RemovedInv /\ NoOrphanWorkload /\ CreatingHasTask
  BY DEF InstInv
<1>1. /\ op' \in [Ops -> Operations \cup {Idle, Done}] /\ o # p /\ Active(o) /\ ~Active(p)
      /\ op[o].kind = "clone" /\ op'[p] = b /\ \A q \in Ops \ {o, p} : op'[q] = op[q]
      /\ op'[o] \in Operations
  BY DEF Cancels
<1>2. /\ op'[o].kind = "clone" /\ op'[o].inst = op[o].inst /\ op'[o].todo = op[o].todo
      /\ op'[o].ctx \in {"cancelled", "landing"}
      /\ b.kind = "cancel" /\ b.inst = op[o].inst /\ b.todo = <<"delete", "wipe">> /\ b.ctx = "live"
  BY DEF Cancels
<1>3. Active(p)' /\ \A q \in Ops \ {p} : Active(q)' <=> Active(q)
  BY <1>0, <1>1, AtWork, AtWorkNext
<1>4. /\ workload' = workload /\ volumes' = volumes /\ backend' = backend /\ faults' = faults
      /\ row' = row /\ unsettled' = unsettled
  BY DEF Cancels, orchVars
<1>5. op[o] \in Operations /\ op[o].inst \in Ids /\ tainted \subseteq Ids
  BY <1>0, <1>1, AtWork DEF Operations, InstTypeOK
<1>6. /\ tainted \subseteq tainted' /\ tainted' \subseteq Ids
      /\ op'[o].ctx = "landing" \/ Busy(op[o].inst, (Builders \ {"clone"}) \cup Removers)
         => op[o].inst \in tainted'
  BY <1>5 DEF Cancels
<1>7. InstTypeOK'
  BY <1>0, <1>1, <1>4, <1>6 DEF InstTypeOK, OrchTypeOK
<1>8. PlanInv'
  <2>1. PlanOK(b)
    BY <1>2 DEF PlanOK, Removers
  <2>2. PlanOK(op[o]) => PlanOK(op'[o])
    BY <1>1, <1>2 DEF PlanOK, Removers
  <2> QED
    BY <1>0, <1>1, <1>3, <2>1, <2>2 DEF PlanInv
<1>9. FirstInv'
  <2>1. \A q \in Ops : Active(q)' => row'[op'[q].inst] # "absent"
    BY <1>0, <1>1, <1>2, <1>3, <1>4 DEF FirstInv
  <2>2. ASSUME NEW q \in Ops, Active(q)', op'[q].kind = "clone"
        PROVE  Active(q) /\ op[q].kind = "clone" /\ op[q].inst = op'[q].inst
    BY <1>1, <1>2, <1>3, <2>2
  <2> QED
    BY <1>0, <2>1, <2>2 DEF FirstInv
<1>10. UnbuiltInv'
  <2> SUFFICES ASSUME NEW q \in Ops, Active(q)', op'[q].kind \in Builders, op'[q].inst \notin tainted'
               PROVE  /\ op'[q].ctx # "landing"
                      /\ row'[op'[q].inst] = "gone" \/ Busy(op[q].inst, Removers)'
                         => op'[q].kind = "clone" /\ op'[q].ctx = "cancelled"
    BY DEF UnbuiltInv
  <2>1. "cancel" \notin Builders /\ "clone" \notin Removers
    BY DEF Builders, Removers
  <2>2. CASE q = o
    BY <1>2, <1>6, <2>2
  <2>3. CASE q = p
    BY <1>1, <1>2, <2>1, <2>3
  <2>4. CASE q \notin {o, p}
    <3>1. Active(q) /\ op'[q] = op[q] /\ op[q].inst \notin tainted
      BY <1>1, <1>3, <1>6, <2>4
    <3>2. ASSUME op[q].inst = op[o].inst PROVE FALSE
      <4>1. op[q].kind # "clone"
        BY <1>0, <1>1, <2>4, <3>1, <3>2 DEF FirstInv
      <4>2. Busy(op[o].inst, (Builders \ {"clone"}) \cup Removers)
        BY <3>1, <3>2, <4>1 DEF Busy
      <4> QED
        BY <1>6, <3>1, <3>2, <4>2
    <3>3. Busy(op[q].inst, Removers)' => Busy(op[q].inst, Removers)
      BY <1>1, <1>2, <1>3, <2>1, <3>1, <3>2 DEF Busy
    <3> QED
      BY <1>0, <1>4, <3>1, <3>3 DEF UnbuiltInv
  <2> QED
    BY <2>2, <2>3, <2>4
<1>11. RemovedInv'
  <2> SUFFICES ASSUME NEW q \in Ops, Active(q)', op'[q].kind \in Removers, op'[q].inst \notin tainted'
               PROVE  /\ op'[q].todo # <<"delete", "wipe">> => workload'[op'[q].inst] = "none"
                      /\ op'[q].todo = <<>> => op'[q].inst \notin volumes'
    BY DEF RemovedInv
  <2>1. q # o
    BY <1>2 DEF Removers
  <2>2. CASE q = p
    BY <1>1, <1>2, <2>2, RemovalPlan
  <2>3. CASE q # p
    BY <1>0, <1>1, <1>3, <1>4, <1>6, <2>1, <2>3 DEF RemovedInv
  <2> QED
    BY <2>2, <2>3
<1>12. NoOrphanWorkload'
  BY <1>0, <1>4, <1>6 DEF NoOrphanWorkload
<1>13. CreatingHasTask'
  <2> SUFFICES ASSUME NEW i \in Ids, row'[i] = "creating", i \notin unsettled' PROVE Busy(i, {"create", "clone"})'
    BY DEF CreatingHasTask
  <2>1. PICK q \in Ops : Active(q) /\ op[q].inst = i /\ op[q].kind \in {"create", "clone"}
    BY <1>0, <1>4 DEF CreatingHasTask, Busy
  <2>2. Active(q)' /\ op'[q].inst = i /\ op'[q].kind \in {"create", "clone"}
    BY <1>1, <1>2, <1>3, <2>1
  <2> QED
    BY <2>2 DEF Busy
<1> QED
  BY <1>7, <1>8, <1>9, <1>10, <1>11, <1>12, <1>13 DEF InstInv

\* A container that comes up.
LEMMA EnvironmentKeeps ==
  ASSUME InstInv, Environment
  PROVE  InstInv'
<1>0. InstTypeOK /\ PlanInv /\ FirstInv /\ UnbuiltInv /\ RemovedInv /\ NoOrphanWorkload /\ CreatingHasTask
  BY DEF InstInv
<1>1. PICK w \in Ids : WorkloadReady(w) /\ UNCHANGED instVars
  BY DEF Environment
<1>2. row' = row /\ op' = op /\ faults' = faults /\ tainted' = tainted /\ unsettled' = unsettled
  BY <1>1 DEF instVars
<1>3. /\ volumes' = volumes /\ backend' = backend /\ workload[w] = "starting"
      /\ workload' = [workload EXCEPT ![w] = "up"]
  BY <1>1 DEF WorkloadReady
<1>4. workload \in [Ids -> {"none", "down", "starting", "up"}]
  BY <1>0 DEF InstTypeOK, OrchTypeOK, Ids
<1>5. \A i \in Ids : workload[i] = "none" => workload'[i] = "none"
  BY <1>3, <1>4
<1>6. \A o \in Ops : Active(o)' <=> Active(o)
  BY <1>2 DEF Active
<1>7. \A i, K : Busy(i, K)' <=> Busy(i, K)
  BY <1>2, <1>6 DEF Busy
<1>8. InstTypeOK'
  BY <1>0, <1>2, <1>3, <1>4 DEF InstTypeOK, OrchTypeOK, Ids
<1>9. PlanInv' /\ FirstInv'
  BY <1>0, <1>2, <1>6 DEF PlanInv, FirstInv
<1>10. UnbuiltInv'
  <2>1. \A o \in Ops : Busy(op[o].inst, Removers)' => Busy(op[o].inst, Removers)
    BY <1>2, <1>6 DEF Busy
  <2> QED
    BY <1>0, <1>2, <1>6, <2>1 DEF UnbuiltInv
<1>11. RemovedInv'
  <2>1. \A o \in Ops : Active(o) => op[o].inst \in Ids
    BY <1>0, AtWork DEF Operations
  <2> QED
    BY <1>0, <1>2, <1>3, <1>5, <1>6, <2>1 DEF RemovedInv
<1>12. NoOrphanWorkload' /\ CreatingHasTask'
  BY <1>0, <1>2, <1>3, <1>5, <1>7 DEF NoOrphanWorkload, CreatingHasTask
<1> QED
  BY <1>8, <1>9, <1>10, <1>11, <1>12 DEF InstInv

\* A crash and the boot that follows.
LEMMA CrashKeeps ==
  ASSUME InstInv, Crash
  PROVE  InstInv'
<1>0. InstTypeOK /\ NoOrphanWorkload
  BY DEF InstInv
<1>1. /\ workload' = workload /\ volumes' = volumes /\ backend' = backend /\ tainted' = tainted
      /\ faults' = faults + 1 /\ faults < MaxFaults
  BY DEF Crash, orchVars
<1>2. op' = [o \in Ops |-> IF Active(o) THEN Done ELSE op[o]]
  BY DEF Crash
<1>3. \A o \in Ops : op'[o] \in {Idle, Done}
  BY <1>2 DEF Active
<1>4. \A o \in Ops : ~Active(o)'
  BY <1>3 DEF Active
<1>5. \/ /\ row' = [i \in Ids |-> IF row[i] \in {"creating", "restarting", "stopping"} THEN "error" ELSE row[i]]
         /\ unsettled' = {}
      \/ row' = row /\ unsettled' = unsettled \cup {i \in Ids : row[i] = "creating"}
  BY DEF Crash, reconcileStuckTasks
<1>6. /\ row' \in [Ids -> Statuses] /\ unsettled' \subseteq Ids
      /\ \A i \in Ids : (row'[i] = "creating" => i \in unsettled') /\ (row'[i] = "gone" => row[i] = "gone")
  BY <1>0, <1>5 DEF InstTypeOK, Statuses
<1>7. faults' \in 0..MaxFaults
  BY <1>0, <1>1, InstancesAssumption DEF InstTypeOK
<1>8. op' \in [Ops -> Operations \cup {Idle, Done}]
  BY <1>2, <1>3
<1>9. InstTypeOK'
  BY <1>0, <1>1, <1>6, <1>7, <1>8 DEF InstTypeOK, OrchTypeOK
<1>10. PlanInv' /\ FirstInv' /\ RemovedInv'
  BY <1>4 DEF PlanInv, FirstInv, RemovedInv
<1>11. UnbuiltInv'
  BY <1>4 DEF UnbuiltInv
<1>12. NoOrphanWorkload' /\ CreatingHasTask'
  BY <1>0, <1>1, <1>6 DEF NoOrphanWorkload, CreatingHasTask
<1> QED
  BY <1>9, <1>10, <1>11, <1>12 DEF InstInv

--------------------------------------------------------------------------------
(* Theorems.                                                                 *)

\* The steps the lemmas above are about are all the steps there are.
LEMMA InstSteps ==
  ASSUME InstInv, InstNext
  PROVE  \/ \E o \in Ops, a \in Operations : Starts(o, a)
         \/ \E o \in Ops : Steps(o) \/ Settle(o) \/ SettleFails(o)
         \/ \E o, p \in Ops, b \in Operations : Cancels(o, p, b)
         \/ Environment \/ Crash
<1>0. InstTypeOK
  BY DEF InstInv
<1>1. ASSUME NEW o \in Ops, Handler(o) PROVE \E a \in Operations : Starts(o, a)
  BY <1>0, <1>1, HandlerStarts
<1>2. ASSUME NEW o \in Ops, OpStep(o) PROVE Steps(o) \/ Settle(o) \/ SettleFails(o)
  BY <1>2 DEF OpStep, Steps
<1>3. ASSUME NEW o \in Ops, NEW p \in Ops, CancelClone(o, p) PROVE \E b \in Operations : Cancels(o, p, b)
  BY <1>0, <1>3, CancelCancels
<1> QED
  BY <1>1, <1>2, <1>3 DEF InstNext

\* The invariant holds when the control plane starts beside a running instance.
LEMMA InstInitInv == InstInit => InstInv
<1> SUFFICES ASSUME InstInit PROVE InstInv
  OBVIOUS
<1> USE InstancesAssumption DEF Ids
<1>1. /\ workload = [i \in Ids |-> IF i = Running THEN "up" ELSE "none"] /\ volumes = {Running}
      /\ row = [i \in Ids |-> IF i = Running THEN "running" ELSE "absent"]
      /\ op = [o \in Ops |-> Idle] /\ faults = 0 /\ tainted = {} /\ unsettled = {} /\ backend \in Backends
  BY DEF InstInit, InitOrchestrator
<1>2. InstTypeOK
  BY <1>1 DEF InstTypeOK, OrchTypeOK, Statuses
<1>3. \A o \in Ops : ~Active(o)
  BY <1>1 DEF Active
<1>4. PlanInv /\ FirstInv /\ UnbuiltInv /\ RemovedInv
  BY <1>3 DEF PlanInv, FirstInv, UnbuiltInv, RemovedInv
<1>5. NoOrphanWorkload /\ CreatingHasTask
  BY <1>1 DEF NoOrphanWorkload, CreatingHasTask
<1> QED
  BY <1>2, <1>4, <1>5 DEF InstInv

\* InstInv holds in every reachable state.
LEMMA InstInvariant == InstSpec => []InstInv
<1>1. ASSUME InstInv, InstNext PROVE InstInv'
  BY <1>1, InstSteps, StartsKeeps, StepKeeps, SettleKeeps, CancelKeeps, EnvironmentKeeps, CrashKeeps
<1>2. ASSUME InstInv, UNCHANGED instAll PROVE InstInv'
  <2>1. /\ workload' = workload /\ volumes' = volumes /\ backend' = backend
        /\ row' = row /\ op' = op /\ faults' = faults /\ tainted' = tainted /\ unsettled' = unsettled
    BY <1>2 DEF instAll, orchVars, instVars
  <2>2. \A o \in Ops : Active(o)' <=> Active(o)
    BY <2>1 DEF Active
  <2>3. /\ \A i, K : Busy(i, K)' <=> Busy(i, K)
        /\ \A o \in Ops : Busy(op[o].inst, Removers)' <=> Busy(op[o].inst, Removers)
    BY <2>1, <2>2 DEF Busy
  <2>4. InstTypeOK'
    BY <1>2, <2>1 DEF InstInv, InstTypeOK, OrchTypeOK
  <2>5. PlanInv' /\ FirstInv' /\ RemovedInv'
    BY <1>2, <2>1, <2>2 DEF InstInv, PlanInv, FirstInv, RemovedInv
  <2>6. UnbuiltInv'
    BY <1>2, <2>1, <2>2, <2>3 DEF InstInv, UnbuiltInv
  <2>7. NoOrphanWorkload' /\ CreatingHasTask'
    BY <1>2, <2>1, <2>3 DEF InstInv, NoOrphanWorkload, CreatingHasTask
  <2> QED
    BY <2>4, <2>5, <2>6, <2>7 DEF InstInv
<1> QED
  BY <1>1, <1>2, InstInitInv, PTL DEF InstSpec

\* A row says creating only while a create or clone task is at work on it,
\* whatever requests fail, are cancelled or are cut short by a crash, unless the
\* write of the outcome or the boot-time sweep failed and no later sweep has
\* succeeded (handlers/instances.go, reconcile.go).
THEOREM CreatingEnds == InstSpec => []CreatingHasTask
<1>1. InstInv => CreatingHasTask
  BY DEF InstInv
<1> QED
  BY <1>1, InstInvariant, PTL

\* A deleted instance leaves neither container nor volumes behind, unless its
\* removal failed or overlapped an operation that builds the container
\* (DeleteInstance, cloneOnCancel).
THEOREM RemovalLeavesNothing == InstSpec => []NoOrphanWorkload
<1>1. InstInv => NoOrphanWorkload
  BY DEF InstInv
<1> QED
  BY <1>1, InstInvariant, PTL

\* Restarts, image updates and clones keep the volumes of every instance: only
\* a deletion or the cleanup of a cancelled clone takes them away (the plans of
\* orchestrator/docker.go and kubernetes.go).
THEOREM DataIsKept == InstSpec => KeepsData
<1> DEFINE Kept == \A i \in Ids : Exists(i) /\ i \in volumes /\ i \notin volumes' => Busy(i, Removers)
<1>1. ASSUME InstInv, InstNext PROVE Kept
  <2>1. ASSUME NEW o \in Ops, Steps(o) PROVE Kept
    <3>1. InstTypeOK /\ PlanInv
      BY <1>1 DEF InstInv
    <3>2. \A i \in Ids : i \in volumes /\ i \notin volumes' => op[o].kind \in Removers /\ op[o].inst = i
      BY <2>1, <3>1, StepEffect
    <3>3. Active(o)
      BY <2>1 DEF Steps, MarkRestarting, Request, RequestLands, RequestRefused, RequestFails, HasRequest
    <3> QED
      BY <3>2, <3>3 DEF Busy
  <2>2. ASSUME NEW o \in Ops, NEW a \in Operations, Starts(o, a) PROVE Kept
    BY <2>2 DEF Starts, orchVars
  <2>3. ASSUME NEW o \in Ops, Settle(o) \/ SettleFails(o) PROVE Kept
    BY <2>3 DEF Settle, SettleFails, orchVars
  <2>4. ASSUME NEW o \in Ops, NEW p \in Ops, NEW b \in Operations, Cancels(o, p, b) PROVE Kept
    BY <2>4 DEF Cancels, orchVars
  <2>5. ASSUME Environment \/ Crash PROVE Kept
    BY <2>5 DEF Environment, WorkloadReady, Crash, orchVars
  <2> HIDE DEF Kept
  <2> QED
    BY <1>1, <2>1, <2>2, <2>3, <2>4, <2>5, InstSteps
<1>2. InstInv /\ [InstNext]_instAll => [Kept]_instAll
  BY <1>1
<1> QED
  BY <1>2, InstInvariant, PTL DEF InstSpec, KeepsData
================================================================================
