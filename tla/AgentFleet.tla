------------------------------ MODULE AgentFleet ------------------------------
(***************************************************************************)
(* The life of agent containers (provisioner.rs, and the parts of pool.rs  *)
(* and main.rs that create, adopt and destroy them).  What an agent is     *)
(* made of lives in containerd and on disk and outlives the manager; the   *)
(* list of agents lives in the manager and does not.  create and destroy   *)
(* are chains of calls, each of which may fail; the autoscaler's creations,*)
(* the drain loop and main run side by side; the manager may be stopped    *)
(* between any two calls and is started again.                             *)
(*                                                                         *)
(* External: containerd (snapshots, container records, tasks), the agent   *)
(* process.  Which agents are to be drained is left open here: AgentPool   *)
(* and AutoScaler say when.                                                *)
(***************************************************************************)
EXTENDS Naturals, FiniteSets

CONSTANTS
  Agents,    \* container ids that may be drawn (Uuid::new_v4)
  MaxFaults  \* bound: failed calls, dead agents, manager crashes

ASSUME FleetAssumption == MaxFaults \in Nat

VARIABLES
  (* outside the manager *)
  dirs,       \* ids with a socket directory
  snapshots,  \* ids with a prepared snapshot
  containers, \* ids with a container record
  task,       \* "none", "created", "running", "stopping" (got SIGINT), "stopped"
  used,       \* ids drawn so far
  (* in the manager *)
  manager,    \* main: "down", "discovering", "serving", "stopping", "destroying"
  agents,     \* the pool's list
  todo,       \* ids main has still to look at, or is to destroy
  creating,   \* per id: how far create() is
  scanned,    \* candidates of the drain loop's scan, still listed
  destroying, \* per caller ("drain", "main") and id: how far destroy() is
  faults

outside == <<dirs, snapshots, containers, task, used>>
vars == <<outside, manager, agents, todo, creating, scanned, destroying, faults>>

Callers == {"drain", "main"}
Creates == {"no", "mkdir", "image", "prepare", "container", "task", "start", "socket"}
Destroys == {"no", "kill", "wait", "delete", "container", "snapshot", "dir"}

Fault == faults < MaxFaults /\ faults' = faults + 1

NoDestroys == [c \in Callers |-> [a \in Agents |-> "no"]]

Init ==
  /\ dirs = {} /\ snapshots = {} /\ containers = {}
  /\ task = [a \in Agents |-> "none"]
  /\ used = {}
  /\ manager = "down"
  /\ agents = {}
  /\ todo = {}
  /\ creating = [a \in Agents |-> "no"]
  /\ scanned = {}
  /\ destroying = NoDestroys
  /\ faults = 0

-----------------------------------------------------------------------------
(* create(): mkdir, image, prepare, containers.create, tasks.create,       *)
(* tasks.start, wait_for_socket.  Every error returns at once and undoes   *)
(* nothing.                                                                *)

(* The autoscaler runs from the end of discovery until the process ends.   *)
Scaling == manager \in {"serving", "stopping", "destroying"}

CreateBegin(a) ==
  /\ Scaling
  /\ a \notin used
  /\ used' = used \cup {a}
  /\ creating' = [creating EXCEPT ![a] = "mkdir"]
  /\ UNCHANGED <<dirs, snapshots, containers, task, manager, agents, todo, scanned,
                 destroying, faults>>

CreateAt(a, here, next) == creating[a] = here /\ creating' = [creating EXCEPT ![a] = next]

CreateQuiet == UNCHANGED <<used, manager, todo, scanned, destroying>>

MakeDir(a) ==
  /\ CreateAt(a, "mkdir", "image")
  /\ dirs' = dirs \cup {a}
  /\ CreateQuiet /\ UNCHANGED <<snapshots, containers, task, agents, faults>>

(* The image's chain id is read from containerd, layer by layer, and kept  *)
(* for the next creation; nothing outside the manager changes.             *)
ResolveImage(a) ==
  /\ CreateAt(a, "image", "prepare")
  /\ CreateQuiet /\ UNCHANGED <<dirs, snapshots, containers, task, agents, faults>>

PrepareSnapshot(a) ==
  /\ CreateAt(a, "prepare", "container")
  /\ snapshots' = snapshots \cup {a}
  /\ CreateQuiet /\ UNCHANGED <<dirs, containers, task, agents, faults>>

CreateContainer(a) ==
  /\ CreateAt(a, "container", "task")
  /\ containers' = containers \cup {a}
  /\ CreateQuiet /\ UNCHANGED <<dirs, snapshots, task, agents, faults>>

CreateTask(a) ==
  /\ CreateAt(a, "task", "start")
  /\ task' = [task EXCEPT ![a] = "created"]
  /\ CreateQuiet /\ UNCHANGED <<dirs, snapshots, containers, agents, faults>>

StartTask(a) ==
  /\ CreateAt(a, "start", "socket")
  /\ task' = [task EXCEPT ![a] = "running"]
  /\ CreateQuiet /\ UNCHANGED <<dirs, snapshots, containers, agents, faults>>

(* The socket file appears; create_agent adds the agent to the list.       *)
AgentReady(a) ==
  /\ CreateAt(a, "socket", "no")
  /\ agents' = agents \cup {a}
  /\ CreateQuiet /\ UNCHANGED <<dirs, snapshots, containers, task, faults>>

(* A call fails, or no socket shows up within SOCKET_WAIT_TIMEOUT_SECS.  A *)
(* call that took effect and still returned an error is the failure of the *)
(* next one.                                                               *)
CreateFails(a) ==
  /\ creating[a] # "no"
  /\ Fault
  /\ creating' = [creating EXCEPT ![a] = "no"]
  /\ CreateQuiet /\ UNCHANGED <<dirs, snapshots, containers, task, agents>>

Create(a) ==
  \/ MakeDir(a) \/ ResolveImage(a) \/ PrepareSnapshot(a) \/ CreateContainer(a)
  \/ CreateTask(a) \/ StartTask(a) \/ AgentReady(a)

-----------------------------------------------------------------------------
(* destroy(): kill, wait, tasks.delete, containers.delete, snapshot and    *)
(* directory.  Only the two deletes in the middle can make it fail.        *)

DestroyAt(c, a, here, next) ==
  /\ destroying[c][a] = here
  /\ destroying' = [destroying EXCEPT ![c][a] = next]

DestroyQuiet == UNCHANGED <<used, manager, agents, todo, creating, scanned>>

(* SIGINT; an error is only logged. *)
Kill(c, a) ==
  /\ DestroyAt(c, a, "kill", "wait")
  /\ \/ task' = [task EXCEPT ![a] = IF @ = "running" THEN "stopping" ELSE @] /\ UNCHANGED faults
     \/ UNCHANGED task /\ Fault
  /\ DestroyQuiet /\ UNCHANGED <<dirs, snapshots, containers>>

WaitForever(c, a) ==                  \* slip: no timeout
  /\ DestroyAt(c, a, "wait", "delete")
  /\ task[a] \in {"none", "stopped"}
  /\ DestroyQuiet /\ UNCHANGED <<dirs, snapshots, containers, task, faults>>

(* The wait ends with the task, with an error, or after 90 s.  An agent    *)
(* that got the signal needs less than that, unless something is wrong.    *)
Wait(c, a) ==
  /\ DestroyAt(c, a, "wait", "delete")
  /\ IF task[a] = "stopping" THEN Fault ELSE UNCHANGED faults
  /\ DestroyQuiet /\ UNCHANGED <<dirs, snapshots, containers, task>>

(* containerd deletes tasks that run no more. *)
Deletable(a) == task[a] \in {"created", "stopped"}

DeleteTaskGoesOn(c, a) ==             \* slip: its error is logged like the others
  /\ DestroyAt(c, a, "delete", "container")
  /\ task' = [task EXCEPT ![a] = IF Deletable(a) THEN "none" ELSE @]
  /\ DestroyQuiet /\ UNCHANGED <<dirs, snapshots, containers, faults>>

DeleteTask(c, a) ==
  /\ Deletable(a)
  /\ DestroyAt(c, a, "delete", "container")
  /\ task' = [task EXCEPT ![a] = "none"]
  /\ DestroyQuiet /\ UNCHANGED <<dirs, snapshots, containers, faults>>

(* "container will be retained for retry" *)
DeleteTaskFails(c, a) ==
  /\ DestroyAt(c, a, "delete", "no")
  /\ \/ ~Deletable(a) /\ UNCHANGED faults
     \/ Fault
  /\ DestroyQuiet /\ UNCHANGED <<dirs, snapshots, containers, task>>

DeleteContainer(c, a) ==
  /\ a \in containers
  /\ DestroyAt(c, a, "container", "snapshot")
  /\ containers' = containers \ {a}
  /\ DestroyQuiet /\ UNCHANGED <<dirs, snapshots, task, faults>>

DeleteContainerFails(c, a) ==
  /\ DestroyAt(c, a, "container", "no")
  /\ \/ a \notin containers /\ UNCHANGED faults
     \/ Fault
  /\ DestroyQuiet /\ UNCHANGED <<dirs, snapshots, containers, task>>

(* Errors of the last two are only logged. *)
RemoveSnapshot(c, a) ==
  /\ DestroyAt(c, a, "snapshot", "dir")
  /\ \/ snapshots' = snapshots \ {a} /\ UNCHANGED faults
     \/ UNCHANGED snapshots /\ Fault
  /\ DestroyQuiet /\ UNCHANGED <<dirs, containers, task>>

RemoveDirDone(c, a) ==                \* slip: the caller waits for a mark never read
  /\ DestroyAt(c, a, "dir", "done")
  /\ dirs' = dirs \ {a}
  /\ DestroyQuiet /\ UNCHANGED <<snapshots, containers, task, faults>>

RemoveDir(c, a) ==
  /\ DestroyAt(c, a, "dir", "no")
  /\ \/ dirs' = dirs \ {a} /\ UNCHANGED faults
     \/ UNCHANGED dirs /\ Fault
  /\ DestroyQuiet /\ UNCHANGED <<snapshots, containers, task>>

Destroy(c, a) ==
  \/ Kill(c, a) \/ Wait(c, a) \/ DeleteTask(c, a) \/ DeleteTaskFails(c, a)
  \/ DeleteContainer(c, a) \/ DeleteContainerFails(c, a)
  \/ RemoveSnapshot(c, a) \/ RemoveDir(c, a)

Destroying(c) == {a \in Agents : destroying[c][a] # "no"}

Begin(c, S) ==
  destroying' = [destroying EXCEPT ![c] = [a \in Agents |-> IF a \in S THEN "kill" ELSE "no"]]

-----------------------------------------------------------------------------
(* The drain loop, running as long as the pool exists: scan, take the      *)
(* candidates off the list, destroy them in parallel, and scan again when  *)
(* all are done.                                                           *)

Scan(S) ==
  /\ manager # "down"
  /\ scanned = {} /\ Destroying("drain") = {}
  /\ S # {} /\ S \subseteq agents
  /\ scanned' = S
  /\ UNCHANGED <<outside, manager, agents, todo, creating, destroying, faults>>

TakeOff ==
  /\ scanned # {}
  /\ agents' = agents \ scanned
  /\ Begin("drain", scanned)
  /\ scanned' = {}
  /\ UNCHANGED <<outside, manager, todo, creating, faults>>

-----------------------------------------------------------------------------
(* main: discovery, serving, shutdown.                                     *)

Start ==
  /\ manager = "down"
  /\ manager' = "discovering"
  /\ todo' = containers
  /\ UNCHANGED <<outside, agents, creating, scanned, destroying, faults>>

(* A heartbeat is sent and answered; an agent that got SIGINT has left its *)
(* accept loop and answers no more.                                        *)
Alive(a) == task[a] = "running"

Adopt(a) ==
  /\ manager = "discovering" /\ Destroying("main") = {}
  /\ a \in todo /\ Alive(a)
  /\ todo' = todo \ {a}
  /\ agents' = agents \cup {a}
  /\ UNCHANGED <<outside, manager, creating, scanned, destroying, faults>>

DiscardForgets(a) ==                  \* slip: the unreachable agent is only skipped
  /\ manager = "discovering" /\ Destroying("main") = {}
  /\ a \in todo /\ ~Alive(a)
  /\ todo' = todo \ {a}
  /\ UNCHANGED <<outside, manager, agents, creating, scanned, destroying, faults>>

(* No connection within a second: destroyed, whatever the outcome.         *)
Discard(a) ==
  /\ manager = "discovering" /\ Destroying("main") = {}
  /\ a \in todo
  /\ IF Alive(a) THEN Fault ELSE UNCHANGED faults
  /\ todo' = todo \ {a}
  /\ Begin("main", {a})
  /\ UNCHANGED <<outside, manager, agents, creating, scanned>>

Serve ==
  /\ manager = "discovering" /\ todo = {} /\ Destroying("main") = {}
  /\ manager' = "serving"
  /\ UNCHANGED <<outside, agents, todo, creating, scanned, destroying, faults>>

(* Ctrl-C: every listed agent is marked and its id noted ...               *)
Shutdown ==
  /\ manager = "serving"
  /\ manager' = "stopping"
  /\ todo' = agents
  /\ UNCHANGED <<outside, agents, creating, scanned, destroying, faults>>

(* ... and when they are idle, or after 60 s, the list is cleared and the  *)
(* noted ones are destroyed.                                               *)
ClearAndDestroy ==
  /\ manager = "stopping"
  /\ manager' = "destroying"
  /\ agents' = {}
  /\ Begin("main", todo)
  /\ todo' = {}
  /\ UNCHANGED <<outside, creating, scanned, faults>>

(* The process ends, whatever its other tasks are doing. *)
Gone ==
  /\ manager' = "down"
  /\ agents' = {} /\ todo' = {} /\ scanned' = {}
  /\ creating' = [a \in Agents |-> "no"]
  /\ destroying' = NoDestroys

Exit ==
  /\ manager = "destroying" /\ Destroying("main") = {}
  /\ Gone
  /\ UNCHANGED <<outside, faults>>

Crash ==
  /\ manager # "down"
  /\ Fault
  /\ Gone
  /\ UNCHANGED outside

-----------------------------------------------------------------------------
(* The agent process: it dies, or ends after SIGINT and a drain of 60 s.   *)

AgentDies(a) ==
  /\ task[a] = "running"
  /\ Fault
  /\ task' = [task EXCEPT ![a] = "stopped"]
  /\ UNCHANGED <<dirs, snapshots, containers, used, manager, agents, todo, creating,
                 scanned, destroying>>

AgentStops(a) ==
  /\ task[a] = "stopping"
  /\ task' = [task EXCEPT ![a] = "stopped"]
  /\ UNCHANGED <<dirs, snapshots, containers, used, manager, agents, todo, creating,
                 scanned, destroying, faults>>

-----------------------------------------------------------------------------
Main == (\E a \in Agents : Adopt(a) \/ Discard(a)) \/ Serve \/ ClearAndDestroy \/ Exit

Next ==
  \/ \E a \in Agents :
       \/ CreateBegin(a) \/ Create(a) \/ CreateFails(a)
       \/ AgentDies(a) \/ AgentStops(a)
       \/ \E c \in Callers : Destroy(c, a)
  \/ \E S \in SUBSET Agents : Scan(S)
  \/ TakeOff
  \/ Start \/ Main \/ Shutdown \/ Crash

Spec == Init /\ [][Next]_vars

(* Calls return, signalled agents stop, main and the drain loop go on, and *)
(* a dead agent is scanned (missed heartbeats).                            *)
Fairness ==
  /\ \A a \in Agents :
       /\ WF_vars(Create(a) \/ CreateFails(a)) /\ WF_vars(AgentStops(a))
       /\ \A c \in Callers : WF_vars(Destroy(c, a))
       /\ SF_vars(\E S \in SUBSET Agents : a \in S /\ ~Alive(a) /\ Scan(S))
  /\ WF_vars(TakeOff) /\ WF_vars(Main)

FairSpec == Spec /\ Fairness

(* Someone stops and starts the manager again and again. *)
RestartedSpec == FairSpec /\ WF_vars(Start) /\ SF_vars(Shutdown)

-----------------------------------------------------------------------------
(* Properties.                                                             *)

(* Every variable has its type. *)
TypeOK ==
  /\ {dirs, snapshots, containers, used, agents, todo, scanned} \subseteq SUBSET Agents
  /\ task \in [Agents -> {"none", "created", "running", "stopping", "stopped"}]
  /\ manager \in {"down", "discovering", "serving", "stopping", "destroying"}
  /\ creating \in [Agents -> Creates]
  /\ destroying \in [Callers -> [Agents -> Destroys]]
  /\ faults \in 0 .. MaxFaults

(* No process runs that containerd's list does not show: whatever crashes  *)
(* or fails, a later manager can find every agent there is.                *)
RunningIsFound == \A a \in Agents : task[a] # "none" => a \in containers

(* Whatever is listed can be destroyed whole: its record, snapshot and     *)
(* directory are there, and nobody has begun to take them away.            *)
ListedIsWhole ==
  \A a \in agents :
    /\ a \in containers \cap snapshots \cap dirs
    /\ task[a] \notin {"none", "created"}
    /\ \A c \in Callers : destroying[c][a] = "no"

(* create and destroy never work on the same agent at the same time.       *)
CreateOrDestroy ==
  \A a \in Agents : creating[a] # "no" => \A c \in Callers : destroying[c][a] = "no"

(* Whatever crashes, fails or interleaves, every agent there is can be     *)
(* found, and what is listed can be taken away whole, by one at a time.    *)
FleetIsWhole == RunningIsFound /\ ListedIsWhole /\ CreateOrDestroy

(* A shutdown ends, whatever the drain loop and the creations are doing.   *)
ShutdownEnds == manager = "stopping" ~> manager = "down"

(* With restarts, an agent whose process ended is taken away in the end,   *)
(* whatever step of a creation or a removal failed or was cut short.       *)
DeadIsRemoved == \A a \in Agents : task[a] = "stopped" ~> task[a] = "none"

(* provisioner.rs: "failed to delete task, container will be retained for  *)
(* retry": a container without a living agent is removed by a later        *)
(* attempt.                                                                *)
Retained(a) == a \in containers /\ creating[a] = "no" /\ ~Alive(a)

RetainedIsRemoved == \A a \in Agents : Retained(a) ~> a \notin containers
=============================================================================
