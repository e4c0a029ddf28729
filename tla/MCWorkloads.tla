------------------------------ MODULE MCWorkloads ------------------------------
(****************************************************************************)
(* Model checking of the two users of the orchestrator: the instances and   *)
(* the on-demand browser of an instance.                                    *)
(*                                                                          *)
(* They work on different workloads and different rows, and no step of one  *)
(* reads what the other writes (Browser has its own deletion), so that one  *)
(* run checks both: a behaviour picks one of them and the other rests.      *)
(****************************************************************************)
EXTENDS Instances, Browser

VARIABLE part

all == <<orchVars, instVars, browserVars, part>>

\* The variables of the part that rests.
InstRests ==
  /\ row = [i \in Ids |-> "absent"] /\ op = [o \in Ops |-> Idle]
  /\ faults = 0 /\ tainted = {} /\ unsettled = {}

BrowserRests ==
  /\ inst = "current" /\ session = "none" /\ idle = FALSE /\ inflight = None
  /\ caller = [c \in Callers |-> "idle"] /\ spawn = [c \in Callers |-> NoSpawn]
  /\ stopper = [p \in Stoppers |-> "idle"] /\ removal = <<"idle">>
  /\ events = 0 /\ overlap = FALSE

WorkloadsInit ==
  \/ part = "instances" /\ InstInit /\ BrowserRests
  \/ part = "browser" /\ BrowserInit /\ InstRests

WorkloadsNext ==
  /\ \/ part = "instances" /\ InstNext /\ UNCHANGED browserVars
     \/ part = "browser" /\ BrowserNext /\ UNCHANGED instVars
  /\ UNCHANGED part

\* What must happen is asked of the browser only; none of its fair actions is
\* enabled while it rests.
WorkloadsSpec == WorkloadsInit /\ [][WorkloadsNext]_all /\ BrowserFairness
================================================================================
