------------------------------ MODULE AutoScaler ------------------------------
(***************************************************************************)
(* The scaling loop of judge_core_manager (scaler.rs) over the pool it     *)
(* steers.  Every check interval it takes the pool's metrics and decides:  *)
(* spawn creations, mark one agent for shutdown, or nothing.  A creation   *)
(* takes several intervals and is not counted in the metrics until it is   *)
(* done; a marked agent is counted until it has left, and so is one that   *)
(* the health loop has found unhealthy: it gets no task, is not picked,    *)
(* and the drain loop takes it off the list whatever it runs.              *)
(*                                                                         *)
(* Time is counted in check intervals.  ProvisionTicks and DrainTicks      *)
(* bound how long a creation and a drain may take: the loop does not tick  *)
(* before what is due has happened.  The smoothed queue growth is kept as  *)
(* its sign, the capacity it adds as any value up to MaxBuffer.  The pool  *)
(* is reduced to how many tasks wait and run where; AgentPool has the rest.*)
(* The tasks of an unhealthy agent that is taken off are retried: where    *)
(* they come back to the queue they are submitted anew.                    *)
(***************************************************************************)
EXTENDS Integers, FiniteSets, FiniteSetsExt

CONSTANTS
  Slots,           \* identities: at least as many as ever exist at once
  NoAgent,         \* no agent picked for shutdown
  MinAgents,       \* min_agents
  MaxAgents,       \* max_agents
  Capacity,        \* max_concurrent_per_agent
  Batch,           \* max_scale_up_batch
  ConfirmTicks,    \* scale_down_confirm_ticks
  UpCooldown,      \* scale_up_cooldown_secs, in intervals begun: at least one
  DownCooldown,    \* scale_down_cooldown_secs, in intervals
  LowPct,          \* scale_down_utilization_pct, in percent
  MaxAdopted,      \* bound: agents that discover_agents finds alive
  ProvisionTicks,  \* bound: a creation ends within so many intervals
  DrainTicks,      \* bound: a marked agent leaves within so many intervals
  MaxQueue,        \* bound: tasks waiting
  MaxBuffer        \* bound: capacity added for a growing queue

ASSUME ScalerAssumption ==
  /\ NoAgent \notin Slots
  /\ IsFiniteSet(Slots)
  /\ {MinAgents, MaxAgents, ConfirmTicks, DownCooldown, LowPct, MaxAdopted,
      ProvisionTicks, DrainTicks, MaxQueue, MaxBuffer} \subseteq Nat
  /\ {Capacity, Batch, UpCooldown} \subseteq Nat \ {0}

VARIABLES
  status,      \* of each agent: "none", "creating", "up", "draining"
  age,         \* intervals it has been creating or draining
  healthy,     \* AgentHandle::healthy
  active,      \* its active_tasks
  queue,       \* tasks waiting
  phase,       \* the loop: "waiting", "deciding" on metrics, "marking" an agent
  metrics,     \* what the last metrics() returned
  trend,       \* sign of the smoothed queue growth
  sinceUp,     \* intervals since the last scale-up, up to UpCooldown
  sinceDown,   \* intervals since the last scale-down, up to DownCooldown
  confirm,     \* scale_down_confirm_counter
  target,      \* the agent picked for shutdown
  lost         \* history: unhealthy agents taken off since the last metrics()

poolVars   == <<status, age, healthy, active, queue, lost>>
loopVars   == <<phase, metrics, trend, sinceUp, sinceDown, confirm, target>>
scalerVars == <<poolVars, loopVars>>

With(s) == {a \in Slots : status[a] = s}
InPool == With("up") \cup With("draining")

Running == {s \in InPool \X (1 .. Capacity) : s[2] <= active[s[1]]}

(* pool.metrics(): the agent list and the queue under their locks; who is  *)
(* unhealthy is counted like the others.                                   *)
Metrics == [agents   |-> Cardinality(InPool),
            draining |-> Cardinality(With("draining")),
            active   |-> Cardinality(Running),
            queue    |-> queue]

(* What discover_agents has adopted is in the pool before the loop starts. *)
ScalerInit ==
  /\ \E S \in SUBSET Slots :
       /\ Cardinality(S) <= MaxAdopted
       /\ status = [a \in Slots |-> IF a \in S THEN "up" ELSE "none"]
  /\ age = [a \in Slots |-> 0]
  /\ healthy = [a \in Slots |-> TRUE]
  /\ active = [a \in Slots |-> 0]
  /\ queue = 0
  /\ phase = "waiting"
  /\ metrics = [agents |-> 0, draining |-> 0, active |-> 0, queue |-> 0]
  /\ trend = 0
  /\ sinceUp = UpCooldown
  /\ sinceDown = DownCooldown
  /\ confirm = 0
  /\ target = NoAgent
  /\ lost = 0

-----------------------------------------------------------------------------
(* The pool.                                                               *)

Submit ==
  /\ queue < MaxQueue
  /\ queue' = queue + 1
  /\ UNCHANGED <<status, age, healthy, active, lost, loopVars>>

Dispatch(a) ==
  /\ status[a] = "up"
  /\ healthy[a]
  /\ active[a] < Capacity
  /\ queue > 0
  /\ queue' = queue - 1
  /\ active' = [active EXCEPT ![a] = @ + 1]
  /\ UNCHANGED <<status, age, healthy, lost, loopVars>>

Finish(a) ==
  /\ active[a] > 0
  /\ active' = [active EXCEPT ![a] = @ - 1]
  /\ UNCHANGED <<status, age, healthy, queue, lost, loopVars>>

(* The health loop: too many probes missed, or one answered after that.    *)
Sicken(a) ==
  /\ a \in InPool
  /\ healthy' = [healthy EXCEPT ![a] = ~healthy[a]]
  /\ UNCHANGED <<status, age, active, queue, lost, loopVars>>

(* create_agent, spawned by the loop, succeeds or fails. *)
Created(a) ==
  /\ status[a] = "creating"
  /\ status' = [status EXCEPT ![a] = "up"]
  /\ age' = [age EXCEPT ![a] = 0]
  /\ UNCHANGED <<healthy, active, queue, lost, loopVars>>

CreateFailed(a) ==
  /\ status[a] = "creating"
  /\ status' = [status EXCEPT ![a] = "none"]
  /\ age' = [age EXCEPT ![a] = 0]
  /\ UNCHANGED <<healthy, active, queue, lost, loopVars>>

(* The drain loop takes off a marked agent once it is idle, and an         *)
(* unhealthy one even while it is busy.                                    *)
Drained(a) ==
  /\ a \in InPool
  /\ ~healthy[a] \/ (status[a] = "draining" /\ active[a] = 0)
  /\ status' = [status EXCEPT ![a] = "none"]
  /\ age' = [age EXCEPT ![a] = 0]
  /\ healthy' = [healthy EXCEPT ![a] = TRUE]
  /\ active' = [active EXCEPT ![a] = 0]
  /\ lost' = IF status[a] = "up" /\ phase # "waiting" THEN lost + 1 ELSE lost
  /\ UNCHANGED <<queue, loopVars>>

-----------------------------------------------------------------------------
(* The decisions, on a snapshot of the metrics.                            *)

CeilDiv(n, d) == (n + d - 1) \div d
Excess(n, d) == IF n > d THEN n - d ELSE 0        \* saturating_sub

NeedIgnoresQueue(m, buffer) ==      \* slip: only running tasks count as load
  Min({Excess(CeilDiv(m.active, Capacity), m.agents), Batch, Excess(MaxAgents, m.agents)})

(* scale_up_decision, with the buffer for what arrives while provisioning. *)
Need(m, buffer) ==
  Min({Excess(CeilDiv(m.active + m.queue + buffer, Capacity), m.agents),
         Batch,
         Excess(MaxAgents, m.agents)})

Buffers == IF trend > 0 THEN 1 .. MaxBuffer ELSE {0}

(* scale_down_decision: utilisation is over the agents that stay, the      *)
(* minimum is compared with all of them.                                   *)
LowLoad(m) ==
  m.active * 100 < LowPct * Max({Excess(m.agents, m.draining), 1}) * Capacity

AboveMinOffByOne(m) == m.agents >= MinAgents   \* slip: >= for >

AboveMin(m) == m.agents > MinAgents

Confirmed(m) == LowLoad(m) /\ AboveMin(m) /\ confirm + 1 >= ConfirmTicks

-----------------------------------------------------------------------------
(* The loop.                                                               *)

Sign(n) == IF n > 0 THEN 1 ELSE IF n < 0 THEN -1 ELSE 0

(* The sign of alpha * delta + (1 - alpha) * velocity. *)
Trends(delta) ==
  IF Sign(delta) * trend < 0 THEN {-1, 0, 1}
  ELSE {IF trend = 0 THEN Sign(delta) ELSE trend}

Due(a) ==
  \/ status[a] = "creating" /\ age[a] >= ProvisionTicks
  \/ status[a] = "draining" /\ age[a] >= DrainTicks

Older(n, bound) == Min({n + 1, bound})

Tick ==
  /\ phase = "waiting"
  /\ \A a \in Slots : ~Due(a)
  /\ age' = [a \in Slots |-> IF status[a] \in {"creating", "draining"} THEN age[a] + 1 ELSE 0]
  /\ sinceUp' = Older(sinceUp, UpCooldown)
  /\ sinceDown' = Older(sinceDown, DownCooldown)
  /\ metrics' = Metrics
  /\ trend' \in Trends(queue - metrics.queue)
  /\ phase' = "deciding"
  /\ lost' = 0
  /\ UNCHANGED <<status, healthy, active, queue, confirm, target>>

(* needs_scale_up > 0: one creation is spawned for each. *)
ScaleUpHasty(n) ==                  \* slip: the cooldown is not looked at
  /\ n > 0
  /\ sinceUp' = 0
  /\ \E S \in kSubset(n, With("none")) :
       status' = [a \in Slots |-> IF a \in S THEN "creating" ELSE status[a]]
  /\ phase' = "waiting"
  /\ UNCHANGED <<age, healthy, active, queue, lost, metrics, trend, sinceDown, confirm, target>>

ScaleUp(n) ==
  /\ n > 0
  /\ sinceUp >= UpCooldown
  /\ sinceUp' = 0
  /\ \E S \in kSubset(n, With("none")) :
       status' = [a \in Slots |-> IF a \in S THEN "creating" ELSE status[a]]
  /\ phase' = "waiting"
  /\ UNCHANGED <<age, healthy, active, queue, lost, metrics, trend, sinceDown, confirm, target>>

(* The confirm counter is left as it is. *)
ScaleUpCooling(n) ==
  /\ n > 0
  /\ sinceUp < UpCooldown
  /\ phase' = "waiting"
  /\ UNCHANGED <<poolVars, metrics, trend, sinceUp, sinceDown, confirm, target>>

NotConfirmed(n) ==
  /\ n = 0
  /\ ~Confirmed(metrics)
  /\ confirm' = IF LowLoad(metrics) /\ AboveMin(metrics) THEN confirm + 1 ELSE 0
  /\ phase' = "waiting"
  /\ UNCHANGED <<poolVars, metrics, trend, sinceUp, sinceDown, target>>

(* find_least_loaded_agent looks at the pool as it is now. *)
Usable == {a \in With("up") : healthy[a]}

LeastLoaded(a) == a \in Usable /\ \A b \in Usable : active[a] <= active[b]

PickTarget(n) ==
  /\ n = 0
  /\ Confirmed(metrics)
  /\ confirm' = 0
  /\ sinceDown >= DownCooldown
  /\ \E a \in Slots : LeastLoaded(a) /\ target' = a
  /\ sinceDown' = 0
  /\ phase' = "marking"
  /\ UNCHANGED <<poolVars, metrics, trend, sinceUp>>

NoTarget(n) ==
  /\ n = 0
  /\ Confirmed(metrics)
  /\ confirm' = 0
  /\ sinceDown < DownCooldown \/ Usable = {}
  /\ phase' = "waiting"
  /\ UNCHANGED <<poolVars, metrics, trend, sinceUp, sinceDown, target>>

Decide ==
  /\ phase = "deciding"
  /\ \E buffer \in Buffers :
       LET n == Need(metrics, buffer)
       IN ScaleUp(n) \/ ScaleUpCooling(n) \/ NotConfirmed(n) \/ PickTarget(n) \/ NoTarget(n)

(* shutdown_agent: the flag is set whatever the agent got meanwhile ...    *)
Mark ==
  /\ phase = "marking"
  /\ target \in InPool
  /\ status' = [status EXCEPT ![target] = "draining"]
  /\ target' = NoAgent
  /\ phase' = "waiting"
  /\ UNCHANGED <<age, healthy, active, queue, lost, metrics, trend, sinceUp, sinceDown, confirm>>

(* ... or, if it was taken off as unhealthy, AgentUnavailable is logged:   *)
(* the cooldown runs all the same.                                         *)
MarkMissed ==
  /\ phase = "marking"
  /\ target \notin InPool
  /\ target' = NoAgent
  /\ phase' = "waiting"
  /\ UNCHANGED <<poolVars, metrics, trend, sinceUp, sinceDown, confirm>>

ScalerNext ==
  \/ Submit
  \/ \E a \in Slots :
       \/ Dispatch(a) \/ Finish(a) \/ Sicken(a)
       \/ Created(a) \/ CreateFailed(a) \/ Drained(a)
  \/ Tick \/ Decide \/ Mark \/ MarkMissed

ScalerSpec == ScalerInit /\ [][ScalerNext]_scalerVars

(* The ticker fires and the loop decides; tasks end (task_timeout) and the *)
(* drain loop scans; a creation is not bound to fail for ever, and an      *)
(* agent that can take a task is not passed over for ever.                 *)
ScalerFairness ==
  /\ WF_scalerVars(Tick) /\ WF_scalerVars(Decide) /\ WF_scalerVars(Mark \/ MarkMissed)
  /\ \A a \in Slots :
       /\ WF_scalerVars(Finish(a)) /\ WF_scalerVars(Drained(a))
       /\ WF_scalerVars(Created(a) \/ CreateFailed(a))
  /\ SF_scalerVars(\E a \in Slots : Created(a))
  /\ SF_scalerVars(\E a \in Slots : Dispatch(a))

ScalerFairSpec == ScalerSpec /\ ScalerFairness

-----------------------------------------------------------------------------
(* Properties.                                                             *)

(* How far the pool goes beyond max_agents.  The decision counts neither   *)
(* the creations in progress nor what finished since its snapshot, so each *)
(* cooldown that passes while a creation is in progress lets another batch *)
(* through.  By default a creation may take three intervals, the cooldown  *)
(* is over at the next one and a batch is of three: nineteen agents where  *)
(* max_agents is ten.  What was adopted is not taken back either.          *)
OvershootBound ==
  Max({MaxAdopted, MaxAgents + Batch * (ProvisionTicks \div UpCooldown)})

OvershootBounded ==
  Cardinality(With("creating") \cup InPool) <= OvershootBound

(* Marking an agent leaves min_agents that are not draining, if those are  *)
(* counted that are unhealthy or were taken off as unhealthy since the     *)
(* decision was taken: it looks at the length of the list and no more, so  *)
(* of agents that can take a task fewer may be left, even none.  That the  *)
(* draining ones, counted too, do not matter is a matter of cooldown       *)
(* against how long a drain takes.                                         *)
ScaleDownKeepsMin ==
  [][\A a \in Slots : status[a] = "up" /\ status'[a] = "draining" =>
       Cardinality(With("up")) + lost > MinAgents]_scalerVars

(* Tasks that wait get an agent: the queue does not stay full. *)
FullQueueMoves == queue = MaxQueue ~> queue < MaxQueue
=============================================================================
