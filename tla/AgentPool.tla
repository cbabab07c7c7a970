------------------------------ MODULE AgentPool ------------------------------
(***************************************************************************)
(* The agent pool of the judge core manager (judge_core_manager/pool.rs):  *)
(* callers submit tasks to one queue, a dispatcher hands each task to the  *)
(* least loaded agent, a spawned future executes it and retries it on      *)
(* failure, a health loop probes the agents, a drain loop removes the      *)
(* unhealthy and the draining ones, and the autoscaler adds agents and     *)
(* marks others for shutdown.  Every loop is a process of its own; a step  *)
(* of the model is what one of them does between two points at which       *)
(* another can interfere (a lock, an await, a relaxed atomic).             *)
(*                                                                         *)
(* Agent ids are uuids in the code.  A member of Agents stands for an id   *)
(* in use and may be used again once nothing refers to the old handle.     *)
(***************************************************************************)
EXTENDS Integers, Sequences, FiniteSets

CONSTANTS
  Tasks,            \* calls of submit that may ever be made
  Agents,           \* agent ids that may be in use at one time
  NoAgent,          \* not an agent
  MaxQueue,         \* PoolConfig::max_queue_size
  MaxRetries,       \* PoolConfig::max_retries
  MaxConcurrent,    \* PoolConfig::max_concurrent_per_agent
  FailureThreshold, \* PoolConfig::health_check_failure_threshold
  MinAgents,        \* ScalerConfig::min_agents
  MaxFaults,        \* bound: crashes, missed probes and failed destroys
  MaxScaleDowns     \* bound: scale-downs (the code has a cooldown of minutes)

ASSUME PoolAssumption ==
  /\ IsFiniteSet(Tasks)
  /\ IsFiniteSet(Agents)
  /\ NoAgent \notin Agents
  /\ MaxQueue \in Nat
  /\ MaxRetries \in Nat
  /\ MaxConcurrent \in Nat \ {0}
  /\ FailureThreshold \in Nat \ {0}
  /\ MinAgents \in Nat
  /\ MaxFaults \in Nat
  /\ MaxScaleDowns \in Nat

VARIABLES
  (* the tasks *)
  stage,      \* where each task is
  retries,    \* QueuedTask::retries
  home,       \* the agent a chosen or running task was given to
  queue,      \* task_queue
  (* waking the dispatcher *)
  signals,    \* unread messages of the task_signal channel
  permit,     \* the stored permit of the Notify agent_available
  dispatcher, \* where the dispatch loop is
  (* the agents *)
  agents,     \* the ids in the pool's list
  healthy,    \* AgentHandle::healthy
  failures,   \* AgentHandle::consecutive_failures
  draining,   \* AgentHandle::shutting_down
  active,     \* AgentHandle::active_tasks
  up,         \* whether the agent's process is there to answer
  (* the loops *)
  probing,    \* agents of the health loop's snapshot not yet joined
  doomed,     \* why the drain loop has picked an agent, "no" if it has not
  drainer,    \* where the drain loop is
  (* the bounds *)
  faults, scaleDowns

taskVars   == <<stage, retries, home, queue>>
wakeVars   == <<signals, permit>>
healthVars == <<healthy, failures>>
drainVars  == <<doomed, drainer>>
boundVars  == <<faults, scaleDowns>>
vars == <<taskVars, wakeVars, dispatcher, agents, healthVars, draining, active,
          up, probing, drainVars, boundVars>>

Stages == {"new", "queued", "chosen", "running", "retrying",
           "ok", "exhausted", "rejected"}

Init ==
  /\ stage = [t \in Tasks |-> "new"]
  /\ retries = [t \in Tasks |-> 0]
  /\ home = [t \in Tasks |-> NoAgent]
  /\ queue = <<>>
  /\ signals = 0
  /\ permit = FALSE
  /\ dispatcher = "check"
  /\ agents = {}
  /\ healthy = [a \in Agents |-> TRUE]
  /\ failures = [a \in Agents |-> 0]
  /\ draining = [a \in Agents |-> FALSE]
  /\ active = [a \in Agents |-> 0]
  /\ up = [a \in Agents |-> FALSE]
  /\ probing = {}
  /\ doomed = [a \in Agents |-> "no"]
  /\ drainer = "idle"
  /\ faults = 0
  /\ scaleDowns = 0

-----------------------------------------------------------------------------
(* AgentPool::submit.  The queue is locked for the whole of a step.  The   *)
(* shutting_down test of the code cannot fail here: the manager shuts the  *)
(* pool down only after the HTTP server has finished every handler.        *)

HasRoomOffByOne == Len(queue) <= MaxQueue   \* slip: one task too many

HasRoom == Len(queue) < MaxQueue

Enqueue(t) ==
  /\ queue' = Append(queue, t)
  /\ stage' = [stage EXCEPT ![t] = "queued"]

Accept(t) ==
  /\ stage[t] = "new"
  /\ HasRoom
  /\ Enqueue(t)
  /\ signals' = IF queue = <<>> THEN signals + 1 ELSE signals
  /\ UNCHANGED <<retries, home, permit, dispatcher, agents, healthVars,
                 draining, active, up, probing, drainVars, boundVars>>

Reject(t) ==
  /\ stage[t] = "new"
  /\ ~HasRoom
  /\ stage' = [stage EXCEPT ![t] = "rejected"]
  /\ UNCHANGED <<retries, home, queue, wakeVars, dispatcher, agents, healthVars,
                 draining, active, up, probing, drainVars, boundVars>>

-----------------------------------------------------------------------------
(* dispatch_loop.                                                          *)

Eligible(a) == a \in agents /\ healthy[a] /\ ~draining[a]

Spare == {a \in agents : Eligible(a) /\ active[a] < MaxConcurrent}

LeastLoaded == {a \in Spare : \A b \in Spare : active[a] <= active[b]}

Sleep(where) ==
  /\ dispatcher' = where
  /\ UNCHANGED <<taskVars, wakeVars, agents, healthVars, draining, active, up,
                 probing, drainVars, boundVars>>

(* Nothing is queued: wait for a signal. *)
DispatchIdle ==
  /\ dispatcher = "check"
  /\ queue = <<>>
  /\ Sleep("waitTask")

(* No agent has a free slot: wait for an agent or a signal. *)
DispatchBlocked ==
  /\ dispatcher = "check"
  /\ queue # <<>>
  /\ Spare = {}
  /\ Sleep("waitAgent")

PopFront == queue' = Tail(queue)

(* Under both locks the head of the queue is matched with an agent; the    *)
(* agent's counter is raised only after both locks have been released.     *)
DispatchPick ==
  /\ dispatcher = "check"
  /\ queue # <<>>
  /\ \E a \in LeastLoaded :
       /\ home' = [home EXCEPT ![Head(queue)] = a]
       /\ stage' = [stage EXCEPT ![Head(queue)] = "chosen"]
  /\ PopFront
  /\ dispatcher' = "start"
  /\ UNCHANGED <<retries, wakeVars, agents, healthVars, draining, active, up,
                 probing, drainVars, boundVars>>

DispatchStart(t) ==
  /\ dispatcher = "start"
  /\ stage[t] = "chosen"
  /\ active' = [active EXCEPT ![home[t]] = @ + 1]
  /\ stage' = [stage EXCEPT ![t] = "running"]
  /\ dispatcher' = "check"
  /\ UNCHANGED <<retries, home, queue, wakeVars, agents, healthVars, draining,
                 up, probing, drainVars, boundVars>>

WakeBySignal ==
  /\ dispatcher \in {"waitTask", "waitAgent"}
  /\ signals > 0
  /\ signals' = signals - 1
  /\ dispatcher' = "check"
  /\ UNCHANGED <<taskVars, permit, agents, healthVars, draining, active, up,
                 probing, drainVars, boundVars>>

WakeByAgent ==
  /\ dispatcher = "waitAgent"
  /\ permit
  /\ permit' = FALSE
  /\ dispatcher' = "check"
  /\ UNCHANGED <<taskVars, signals, agents, healthVars, draining, active, up,
                 probing, drainVars, boundVars>>

-----------------------------------------------------------------------------
(* The future spawned for a dispatched task.                               *)

(* slip: the counter is not lowered *)
ReleaseKeepsCount(a) ==
  /\ UNCHANGED active
  /\ permit' = (permit \/ active[a] = 1)

(* slip: the value fetch_sub returns is taken for the value it leaves *)
ReleaseComparesZero(a) ==
  /\ active' = [active EXCEPT ![a] = @ - 1]
  /\ permit' = (permit \/ active[a] = 0)

(* fetch_sub on the agent's counter, and notify_one if it was the last. *)
Release(a) ==
  /\ active' = [active EXCEPT ![a] = @ - 1]
  /\ permit' = (permit \/ active[a] = 1)

Leave(t, to) ==
  /\ stage[t] = "running"
  /\ Release(home[t])
  /\ home' = [home EXCEPT ![t] = NoAgent]
  /\ stage' = [stage EXCEPT ![t] = to]
  /\ UNCHANGED <<retries, queue, signals, dispatcher, agents, healthVars,
                 draining, up, probing, drainVars, boundVars>>

(* The agent's result was received. *)
Succeeded(t) ==
  /\ stage[t] = "running"
  /\ up[home[t]]
  /\ Leave(t, "ok")

(* slip: one retry too many *)
FailedOffByOne(t) ==
  /\ retries[t] <= MaxRetries
  /\ Leave(t, "retrying")

(* The connection, the protocol or the timeout failed: another try. *)
Failed(t) ==
  /\ retries[t] < MaxRetries
  /\ Leave(t, "retrying")

(* slip: the last retry is never made *)
ExhaustedEarly(t) ==
  /\ retries[t] + 1 >= MaxRetries
  /\ Leave(t, "exhausted")

(* ... or the last one failed: MaxRetriesExceeded is sent. *)
Exhausted(t) ==
  /\ retries[t] >= MaxRetries
  /\ Leave(t, "exhausted")

(* slip: the dispatcher is not told that the task is back *)
RequeueSilently(t) ==
  /\ stage[t] = "retrying"
  /\ retries' = [retries EXCEPT ![t] = @ + 1]
  /\ Enqueue(t)
  /\ UNCHANGED <<home, wakeVars, dispatcher, agents, healthVars, draining,
                 active, up, probing, drainVars, boundVars>>

(* The failed task waits for the queue's lock and goes to the back; its    *)
(* place is not counted against MaxQueue.                                  *)
Requeue(t) ==
  /\ stage[t] = "retrying"
  /\ retries' = [retries EXCEPT ![t] = @ + 1]
  /\ Enqueue(t)
  /\ signals' = signals + 1
  /\ UNCHANGED <<home, permit, dispatcher, agents, healthVars, draining, active,
                 up, probing, drainVars, boundVars>>

-----------------------------------------------------------------------------
(* health_check_loop: a tick clones the list; the probes run in parallel   *)
(* and their results are stored as they come in.                           *)

HealthTick ==
  /\ probing = {}
  /\ probing' = agents
  /\ UNCHANGED <<taskVars, wakeVars, dispatcher, agents, healthVars, draining,
                 active, up, drainVars, boundVars>>

ProbeAnswered(a) ==
  /\ a \in probing
  /\ up[a]
  /\ probing' = probing \ {a}
  /\ failures' = [failures EXCEPT ![a] = 0]
  /\ healthy' = [healthy EXCEPT ![a] = TRUE]
  /\ permit' = (permit \/ ~healthy[a])
  /\ UNCHANGED <<taskVars, signals, dispatcher, agents, draining, active, up,
                 drainVars, boundVars>>

(* The counter is capped at the threshold: nothing tells more apart. *)
ProbeMissed(a) ==
  /\ a \in probing
  /\ up[a] => faults < MaxFaults
  /\ faults' = IF up[a] THEN faults + 1 ELSE faults
  /\ probing' = probing \ {a}
  /\ failures' = [failures EXCEPT
                    ![a] = IF @ < FailureThreshold THEN @ + 1 ELSE @]
  /\ healthy' = [healthy EXCEPT ![a] = failures'[a] < FailureThreshold]
  /\ UNCHANGED <<taskVars, wakeVars, dispatcher, agents, draining, active, up,
                 drainVars, scaleDowns>>

-----------------------------------------------------------------------------
(* drain_loop: the candidates are chosen on a clone of the list, removed   *)
(* from the list under the write lock, and only then destroyed.            *)

(* slip: a draining agent is taken while it is busy *)
CandidateBusy(a) == a \in agents /\ (~healthy[a] \/ draining[a])

(* slip: an unhealthy agent is left in the list *)
CandidateOnlyIdle(a) == a \in agents /\ draining[a] /\ active[a] = 0

Candidate(a) ==
  /\ a \in agents
  /\ ~healthy[a] \/ (draining[a] /\ active[a] = 0)

DrainScan ==
  /\ drainer = "idle"
  /\ \E a \in Agents : Candidate(a)
  /\ doomed' = [a \in Agents |->
                  IF ~Candidate(a) THEN "no"
                  ELSE IF healthy[a] THEN "idle" ELSE "unhealthy"]
  /\ drainer' = "remove"
  /\ UNCHANGED <<taskVars, wakeVars, dispatcher, agents, healthVars, draining,
                 active, up, probing, boundVars>>

DrainRemove ==
  /\ drainer = "remove"
  /\ agents' = {a \in agents : doomed[a] = "no"}
  /\ drainer' = "destroy"
  /\ UNCHANGED <<taskVars, wakeVars, dispatcher, healthVars, draining, active,
                 up, probing, doomed, boundVars>>

(* provisioner.destroy: it may fail, which is only logged; the agent may   *)
(* then go on running although no list knows it.                           *)
DrainDestroy(a) ==
  /\ drainer = "destroy"
  /\ doomed[a] # "no"
  /\ \/ up' = [up EXCEPT ![a] = FALSE] /\ UNCHANGED faults
     \/ /\ up[a] /\ faults < MaxFaults
        /\ faults' = faults + 1
        /\ UNCHANGED up
  /\ doomed' = [doomed EXCEPT ![a] = "no"]
  /\ UNCHANGED <<taskVars, wakeVars, dispatcher, agents, healthVars, draining,
                 active, probing, drainer, scaleDowns>>

DrainDone ==
  /\ drainer = "destroy"
  /\ \A a \in Agents : doomed[a] = "no"
  /\ drainer' = "idle"
  /\ UNCHANGED <<taskVars, wakeVars, dispatcher, agents, healthVars, draining,
                 active, up, probing, doomed, boundVars>>

-----------------------------------------------------------------------------
(* The autoscaler, as the pool sees it, and the agents' own failures.      *)

(* No loop and no future holds a handle of the id any more. *)
Unused(a) ==
  /\ a \notin agents \cup probing
  /\ doomed[a] = "no"
  /\ ~up[a]
  /\ \A t \in Tasks : home[t] # a

AddAgent(a) ==
  /\ Unused(a)
  /\ agents' = agents \cup {a}
  /\ healthy' = [healthy EXCEPT ![a] = TRUE]
  /\ failures' = [failures EXCEPT ![a] = 0]
  /\ draining' = [draining EXCEPT ![a] = FALSE]
  /\ active' = [active EXCEPT ![a] = 0]
  /\ up' = [up EXCEPT ![a] = TRUE]
  /\ permit' = TRUE
  /\ UNCHANGED <<taskVars, signals, dispatcher, probing, drainVars, boundVars>>

(* The agent was found on an earlier look at the list, so any agent that   *)
(* is still in the list may be the one that is marked.                     *)
ShutdownAgent(a) ==
  /\ a \in agents
  /\ Cardinality(agents) > MinAgents
  /\ scaleDowns < MaxScaleDowns
  /\ scaleDowns' = scaleDowns + 1
  /\ draining' = [draining EXCEPT ![a] = TRUE]
  /\ UNCHANGED <<taskVars, wakeVars, dispatcher, agents, healthVars, active, up,
                 probing, drainVars, faults>>

AgentCrash(a) ==
  /\ up[a]
  /\ faults < MaxFaults
  /\ faults' = faults + 1
  /\ up' = [up EXCEPT ![a] = FALSE]
  /\ UNCHANGED <<taskVars, wakeVars, dispatcher, agents, healthVars, draining,
                 active, probing, drainVars, scaleDowns>>

-----------------------------------------------------------------------------
Dispatch ==
  \/ DispatchIdle \/ DispatchBlocked \/ DispatchPick
  \/ WakeBySignal \/ WakeByAgent
  \/ \E t \in Tasks : DispatchStart(t)

Execute(t) == Succeeded(t) \/ Failed(t) \/ Exhausted(t)

Probe(a) == ProbeAnswered(a) \/ ProbeMissed(a)

Next ==
  \/ Dispatch
  \/ HealthTick
  \/ DrainScan \/ DrainRemove \/ DrainDone
  \/ \E t \in Tasks : Accept(t) \/ Reject(t) \/ Execute(t) \/ Requeue(t)
  \/ \E a \in Agents :
       \/ Probe(a)
       \/ DrainDestroy(a)
       \/ AddAgent(a) \/ ShutdownAgent(a) \/ AgentCrash(a)

Spec == Init /\ [][Next]_vars

(***************************************************************************)
(* Fairness: every loop is a tokio task that keeps being scheduled, every  *)
(* await in it returns (probes, destroys and the receipt of a verdict have *)
(* timeouts; the send before it has none and is assumed to return), and    *)
(* the autoscaler, which ticks forever, adds an agent when the load needs  *)
(* more agents than the list holds.  Callers, scale-downs and failures are *)
(* not fair.                                                               *)
(***************************************************************************)
InPoolLoad ==
  Len(queue) + Cardinality({t \in Tasks : stage[t] = "running" /\ home[t] \in agents})

(* needed_agents = ceil(load / capacity) exceeds agent_count. *)
NeedsAgent == InPoolLoad > Cardinality(agents) * MaxConcurrent

ScaleUp == NeedsAgent /\ \E a \in Agents : AddAgent(a)

Fairness ==
  /\ WF_vars(Dispatch)
  /\ WF_vars(HealthTick)
  /\ WF_vars(DrainScan) /\ WF_vars(DrainRemove) /\ WF_vars(DrainDone)
  /\ WF_vars(ScaleUp)
  /\ \A t \in Tasks : WF_vars(Execute(t)) /\ WF_vars(Requeue(t))
  /\ \A a \in Agents : WF_vars(Probe(a)) /\ WF_vars(DrainDestroy(a))

FairSpec == Spec /\ Fairness

-----------------------------------------------------------------------------
(* Properties.                                                             *)

(* Every variable has its type; no task is retried more than MaxRetries    *)
(* times and no agent's counter leaves 0 .. MaxConcurrent.                 *)
TypeOK ==
  /\ stage \in [Tasks -> Stages]
  /\ retries \in [Tasks -> 0 .. MaxRetries]
  /\ home \in [Tasks -> Agents \cup {NoAgent}]
  /\ queue \in Seq(Tasks)
  /\ signals \in Nat
  /\ permit \in BOOLEAN
  /\ dispatcher \in {"check", "waitTask", "waitAgent", "start"}
  /\ agents \in SUBSET Agents
  /\ healthy \in [Agents -> BOOLEAN]
  /\ failures \in [Agents -> 0 .. FailureThreshold]
  /\ draining \in [Agents -> BOOLEAN]
  /\ active \in [Agents -> 0 .. MaxConcurrent]
  /\ up \in [Agents -> BOOLEAN]
  /\ probing \in SUBSET Agents
  /\ doomed \in [Agents -> {"no", "idle", "unhealthy"}]
  /\ drainer \in {"idle", "remove", "destroy"}
  /\ faults \in 0 .. MaxFaults
  /\ scaleDowns \in 0 .. MaxScaleDowns

Holds(a) == {t \in Tasks : stage[t] = "running" /\ home[t] = a}

IsIn(t, q) == \E i \in DOMAIN q : q[i] = t

(* The queue never holds a task twice, holds exactly the tasks that are    *)
(* waiting for their turn, and the dispatcher holds one task exactly while *)
(* it is between the unlock and the counter: a retried task is never both  *)
(* queued and executed, and none is dropped on the way back to the queue.  *)
TaskHeldOnce ==
  /\ \A i, j \in DOMAIN queue : queue[i] = queue[j] => i = j
  /\ \A t \in Tasks : stage[t] = "queued" <=> IsIn(t, queue)
  /\ \A t \in Tasks : home[t] # NoAgent <=> stage[t] \in {"chosen", "running"}
  /\ \A t, u \in Tasks : stage[t] = "chosen" /\ stage[u] = "chosen" => t = u
  /\ dispatcher = "start" <=> \E t \in Tasks : stage[t] = "chosen"

(* active_tasks, raised by the dispatcher after the locks are released and *)
(* lowered by the futures, is at every moment the number of tasks that run *)
(* on the agent: neither a retry, nor the agent's removal, nor the reuse   *)
(* of its id makes it drift, so an agent never runs more than its share.   *)
ActiveIsRunning == \A a \in Agents : active[a] = Cardinality(Holds(a))

(* Every task is in one place, and the counters say how many are where,    *)
(* through every retry, drain, crash and reuse of an id.                   *)
TasksAccounted == TaskHeldOnce /\ ActiveIsRunning

(* The dispatcher never sleeps through work: asleep for a task with a task *)
(* queued, a signal is unread; asleep for an agent with a task queued and  *)
(* no wake-up pending, every agent it could use runs a task whose end will *)
(* notify it.                                                              *)
NoLostWakeup ==
  /\ dispatcher = "waitTask" /\ queue # <<>> => signals > 0
  /\ dispatcher = "waitAgent" /\ queue # <<>> /\ ~permit /\ signals = 0 =>
       \A a \in Agents : Eligible(a) => active[a] > 0

(* max_queue_size bounds the tasks that wait for their first try; retried  *)
(* tasks come on top of it.                                                *)
FirstTriesBounded ==
  Cardinality({t \in Tasks : stage[t] = "queued" /\ retries[t] = 0}) <= MaxQueue

(* An agent that is removed because it has drained takes at most one task  *)
(* with it: the one the dispatcher had matched with it before the agent    *)
(* was marked and has not counted yet.                                     *)
DrainedLosesAtMostOne ==
  \A a \in Agents :
    doomed[a] = "idle" =>
      \A t, u \in Tasks : home[t] = a /\ home[u] = a => t = u

(* The pool keeps the promise of TaskService to the callers of submit.     *)
StatusOf(t) ==
  CASE stage[t] \in {"queued", "chosen", "retrying"} -> "waiting"
    [] stage[t] = "running" -> "trying"
    [] OTHER -> stage[t]

AttemptsOf(t) ==
  IF stage[t] \in {"running", "retrying", "ok", "exhausted"}
  THEN retries[t] + 1 ELSE retries[t]

Service == INSTANCE TaskService WITH
  status <- [t \in Tasks |-> StatusOf(t)],
  attempts <- [t \in Tasks |-> AttemptsOf(t)]

Promise == Service!SvcSpec

(* Every task that was taken is answered, whatever crashes, drains and     *)
(* missed probes happen on the way, as long as they stop happening.        *)
EveryTaskAnswered ==
  \A t \in Tasks : stage[t] = "queued" ~> stage[t] \in {"ok", "exhausted"}

(* An agent that was marked for shutdown leaves the pool: it gets no new   *)
(* work, what it runs ends, and the drain loop then sees it idle.          *)
DrainingAgentLeaves ==
  \A a \in Agents : (a \in agents /\ draining[a]) ~> a \notin agents

(* An agent whose process is gone is found out and leaves the pool.        *)
DeadAgentLeaves ==
  \A a \in Agents : (a \in agents /\ ~up[a]) ~> a \notin agents

(* Who is to leave the pool leaves it: nobody stays on a list because a    *)
(* task, a probe or a failed destroy came in between.                      *)
AgentsLeave == DrainingAgentLeaves /\ DeadAgentLeaves
=============================================================================
