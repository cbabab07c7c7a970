--------------------------- MODULE AgentPool_proofs ---------------------------
(***************************************************************************)
(* Proofs about AgentPool for all values of its constants: its types, the  *)
(* conservation of tasks, the agents' counters, the dispatcher's wake-ups, *)
(* the queue's limit, what a drain may lose, and that the pool implements  *)
(* TaskService.  TypeOK is not inductive: a counter stays in its bounds    *)
(* only because it is the number of running tasks and because the          *)
(* dispatcher is the only one who raises it, and a task is retried only    *)
(* MaxRetries times because of what was tested before it was set aside.    *)
(***************************************************************************)
EXTENDS AgentPool, FiniteSetTheorems, TLAPS

(* A task on its way back to the queue has a retry left.                   *)
RetryLeft == \A t \in Tasks : stage[t] = "retrying" => retries[t] < MaxRetries

(* The slot the dispatcher has found is still free when it counts it.      *)
SlotKept == \A t \in Tasks : stage[t] = "chosen" => active[home[t]] < MaxConcurrent

IInv ==
  /\ TypeOK
  /\ RetryLeft
  /\ TaskHeldOnce
  /\ ActiveIsRunning
  /\ SlotKept

-----------------------------------------------------------------------------
(* What Append and Tail do to the elements of a queue.                     *)

LEMMA AppendElements ==
  ASSUME NEW S, NEW q \in Seq(S), NEW x \in S
  PROVE  /\ Append(q, x) \in Seq(S)
         /\ \A y \in S : IsIn(y, Append(q, x)) <=> (y = x \/ IsIn(y, q))
<1>1. /\ Append(q, x) \in Seq(S)
      /\ DOMAIN Append(q, x) = 1 .. Len(q) + 1
      /\ Append(q, x)[Len(q) + 1] = x
      /\ DOMAIN q = 1 .. Len(q)
      /\ Len(q) \in Nat
      /\ \A i \in 1 .. Len(q) : Append(q, x)[i] = q[i]
  OBVIOUS
<1>2. QED BY <1>1 DEF IsIn

LEMMA AppendDistinct ==
  ASSUME NEW S, NEW q \in Seq(S), NEW x \in S,
         \A i, j \in DOMAIN q : q[i] = q[j] => i = j,
         ~IsIn(x, q)
  PROVE  \A i, j \in DOMAIN Append(q, x) : Append(q, x)[i] = Append(q, x)[j] => i = j
<1>1. /\ DOMAIN Append(q, x) = 1 .. Len(q) + 1
      /\ Append(q, x)[Len(q) + 1] = x
      /\ DOMAIN q = 1 .. Len(q)
      /\ Len(q) \in Nat
      /\ \A i \in 1 .. Len(q) : Append(q, x)[i] = q[i]
  OBVIOUS
<1>2. QED BY <1>1 DEF IsIn

LEMMA TailElements ==
  ASSUME NEW S, NEW q \in Seq(S), q # <<>>,
         \A i, j \in DOMAIN q : q[i] = q[j] => i = j
  PROVE  /\ Tail(q) \in Seq(S)
         /\ Head(q) \in S
         /\ IsIn(Head(q), q)
         /\ \A i, j \in DOMAIN Tail(q) : Tail(q)[i] = Tail(q)[j] => i = j
         /\ \A y \in S : IsIn(y, Tail(q)) <=> (y # Head(q) /\ IsIn(y, q))
<1>1. /\ Tail(q) \in Seq(S)
      /\ Len(q) \in Nat \ {0}
      /\ DOMAIN q = 1 .. Len(q)
      /\ DOMAIN Tail(q) = 1 .. Len(q) - 1
      /\ Head(q) = q[1]
      /\ \A i \in 1 .. Len(q) - 1 : Tail(q)[i] = q[i + 1]
  OBVIOUS
<1>2. Head(q) \in S /\ IsIn(Head(q), q)
  BY <1>1 DEF IsIn
<1>3. \A i, j \in DOMAIN Tail(q) : Tail(q)[i] = Tail(q)[j] => i = j
  BY <1>1
<1>4. ASSUME NEW y, y # Head(q), NEW i \in DOMAIN q, q[i] = y
      PROVE  \E j \in DOMAIN Tail(q) : Tail(q)[j] = y
  <2>1. i # 1 /\ i - 1 \in DOMAIN Tail(q) BY <1>1, <1>4
  <2>2. Tail(q)[i - 1] = y BY <1>1, <1>4, <2>1
  <2>3. QED BY <2>1, <2>2
<1>5. ASSUME NEW y, NEW i \in DOMAIN Tail(q), Tail(q)[i] = y
      PROVE  y # Head(q) /\ \E j \in DOMAIN q : q[j] = y
  <2>1. i + 1 \in DOMAIN q /\ q[i + 1] = y /\ i + 1 # 1 BY <1>1, <1>5
  <2>2. QED BY <1>1, <2>1
<1>6. QED BY <1>1, <1>2, <1>3, <1>4, <1>5 DEF IsIn

-----------------------------------------------------------------------------
(* Running tasks and their number.                                         *)

LEMMA HoldsFinite ==
  ASSUME NEW a PROVE IsFiniteSet(Holds(a))
<1>1. Holds(a) \subseteq Tasks BY DEF Holds
<1>2. QED BY <1>1, FS_Subset, PoolAssumption

LEMMA BusyCounted ==
  ASSUME IInv, NEW t \in Tasks, stage[t] = "running"
  PROVE  home[t] \in Agents /\ active[home[t]] \in 1 .. MaxConcurrent
<1>1. home[t] \in Agents BY PoolAssumption DEF IInv, TypeOK, TaskHeldOnce
<1>2. active[home[t]] = Cardinality(Holds(home[t])) BY <1>1 DEF IInv, ActiveIsRunning
<1>3. t \in Holds(home[t]) BY DEF Holds
<1>4. Cardinality(Holds(home[t])) # 0 BY <1>3, HoldsFinite, FS_EmptySet
<1>5. active[home[t]] \in 0 .. MaxConcurrent BY <1>1 DEF IInv, TypeOK
<1>6. QED BY <1>1, <1>2, <1>4, <1>5

(* A step that leaves the tasks and the counters alone.                    *)
LEMMA QuietStep ==
  ASSUME IInv, TypeOK', UNCHANGED <<taskVars, active>>,
         dispatcher = "start" <=> dispatcher' = "start"
  PROVE  IInv'
<1>1. UNCHANGED <<stage, retries, home, queue, active>> BY DEF taskVars
<1>2. RetryLeft' /\ SlotKept' BY <1>1 DEF IInv, RetryLeft, SlotKept
<1>3. TaskHeldOnce' BY <1>1 DEF IInv, TaskHeldOnce
<1>4. ActiveIsRunning'
  <2>1. \A a \in Agents : Holds(a)' = Holds(a) BY <1>1 DEF Holds
  <2>2. QED BY <1>1, <2>1 DEF IInv, ActiveIsRunning
<1>5. QED BY <1>2, <1>3, <1>4 DEF IInv

-----------------------------------------------------------------------------
(* The inductive step, one lemma for each action that moves a task.        *)

LEMMA AcceptStep ==
  ASSUME IInv, NEW t \in Tasks, Accept(t) PROVE IInv'
<1> USE DEF IInv
<1>1. /\ stage[t] = "new"
      /\ queue' = Append(queue, t)
      /\ stage' = [stage EXCEPT ![t] = "queued"]
      /\ UNCHANGED <<retries, home, active, dispatcher>>
  BY DEF Accept, Enqueue
<1>2. TypeOK'
  <2>1. queue' \in Seq(Tasks) BY <1>1 DEF TypeOK
  <2>2. signals' \in Nat BY DEF Accept, TypeOK
  <2>3. QED BY <1>1, <2>1, <2>2
          DEF Accept, TypeOK, Stages, healthVars, drainVars, boundVars
<1>3. RetryLeft' /\ SlotKept' BY <1>1 DEF RetryLeft, SlotKept, TypeOK
<1>4. TaskHeldOnce'
  <2>1. ~IsIn(t, queue) BY <1>1 DEF TaskHeldOnce, TypeOK
  <2>2. \A i, j \in DOMAIN queue' : queue'[i] = queue'[j] => i = j
    <3>1. queue \in Seq(Tasks) /\ \A i, j \in DOMAIN queue : queue[i] = queue[j] => i = j
      BY DEF TaskHeldOnce, TypeOK
    <3>2. QED BY <1>1, <2>1, <3>1, AppendDistinct
  <2>3. \A u \in Tasks : IsIn(u, queue') <=> (u = t \/ IsIn(u, queue))
    BY <1>1, AppendElements DEF TypeOK
  <2>4. QED BY <1>1, <2>2, <2>3 DEF TaskHeldOnce, TypeOK
<1>5. ActiveIsRunning'
  <2>1. \A a \in Agents : Holds(a)' = Holds(a) BY <1>1 DEF Holds, TypeOK
  <2>2. QED BY <1>1, <2>1 DEF ActiveIsRunning
<1>6. QED BY <1>2, <1>3, <1>4, <1>5

LEMMA RequeueStep ==
  ASSUME IInv, NEW t \in Tasks, Requeue(t) PROVE IInv'
<1> USE DEF IInv
<1>1. /\ stage[t] = "retrying"
      /\ queue' = Append(queue, t)
      /\ stage' = [stage EXCEPT ![t] = "queued"]
      /\ retries' = [retries EXCEPT ![t] = @ + 1]
      /\ UNCHANGED <<home, active, dispatcher>>
  BY DEF Requeue, Enqueue
<1>2. TypeOK'
  <2>1. queue' \in Seq(Tasks) BY <1>1 DEF TypeOK
  <2>2. signals' \in Nat BY DEF Requeue, TypeOK
  <2>3. retries' \in [Tasks -> 0 .. MaxRetries]
    BY <1>1, PoolAssumption DEF RetryLeft, TypeOK
  <2>4. QED BY <1>1, <2>1, <2>2, <2>3
          DEF Requeue, TypeOK, Stages, healthVars, drainVars, boundVars
<1>3. RetryLeft' /\ SlotKept' BY <1>1 DEF RetryLeft, SlotKept, TypeOK
<1>4. TaskHeldOnce'
  <2>1. ~IsIn(t, queue) BY <1>1 DEF TaskHeldOnce, TypeOK
  <2>2. \A i, j \in DOMAIN queue' : queue'[i] = queue'[j] => i = j
    <3>1. queue \in Seq(Tasks) /\ \A i, j \in DOMAIN queue : queue[i] = queue[j] => i = j
      BY DEF TaskHeldOnce, TypeOK
    <3>2. QED BY <1>1, <2>1, <3>1, AppendDistinct
  <2>3. \A u \in Tasks : IsIn(u, queue') <=> (u = t \/ IsIn(u, queue))
    BY <1>1, AppendElements DEF TypeOK
  <2>4. QED BY <1>1, <2>2, <2>3 DEF TaskHeldOnce, TypeOK
<1>5. ActiveIsRunning'
  <2>1. \A a \in Agents : Holds(a)' = Holds(a) BY <1>1 DEF Holds, TypeOK
  <2>2. QED BY <1>1, <2>1 DEF ActiveIsRunning
<1>6. QED BY <1>2, <1>3, <1>4, <1>5

LEMMA RejectStep ==
  ASSUME IInv, NEW t \in Tasks, Reject(t) PROVE IInv'
<1> USE DEF IInv
<1>1. /\ stage[t] = "new"
      /\ stage' = [stage EXCEPT ![t] = "rejected"]
      /\ UNCHANGED <<retries, home, queue, active, dispatcher>>
  BY DEF Reject
<1>2. TypeOK'
  BY <1>1 DEF Reject, TypeOK, Stages, wakeVars, healthVars, drainVars, boundVars
<1>3. RetryLeft' /\ SlotKept' BY <1>1 DEF RetryLeft, SlotKept, TypeOK
<1>4. TaskHeldOnce' BY <1>1 DEF TaskHeldOnce, TypeOK
<1>5. ActiveIsRunning'
  <2>1. \A a \in Agents : Holds(a)' = Holds(a) BY <1>1 DEF Holds, TypeOK
  <2>2. QED BY <1>1, <2>1 DEF ActiveIsRunning
<1>6. QED BY <1>2, <1>3, <1>4, <1>5

LEMMA PickStep ==
  ASSUME IInv, DispatchPick PROVE IInv'
<1> USE DEF IInv
<1> DEFINE t == Head(queue)
<1>1. PICK a \in LeastLoaded :
        /\ home' = [home EXCEPT ![t] = a]
        /\ stage' = [stage EXCEPT ![t] = "chosen"]
  BY DEF DispatchPick
<1>2. /\ queue # <<>> /\ queue' = Tail(queue)
      /\ dispatcher = "check" /\ dispatcher' = "start"
      /\ UNCHANGED <<retries, active>>
  BY DEF DispatchPick, PopFront
<1>3. a \in Agents /\ active[a] < MaxConcurrent
  BY DEF LeastLoaded, Spare, TypeOK
<1>4. /\ Tail(queue) \in Seq(Tasks)
      /\ t \in Tasks
      /\ IsIn(t, queue)
      /\ \A i, j \in DOMAIN Tail(queue) : Tail(queue)[i] = Tail(queue)[j] => i = j
      /\ \A u \in Tasks : IsIn(u, Tail(queue)) <=> (u # t /\ IsIn(u, queue))
  BY <1>2, TailElements DEF TaskHeldOnce, TypeOK
<1>5. stage[t] = "queued" /\ \A u \in Tasks : stage[u] # "chosen"
  BY <1>2, <1>4 DEF TaskHeldOnce
<1> HIDE DEF t
<1>6. TypeOK'
  BY <1>1, <1>2, <1>3, <1>4
  DEF DispatchPick, TypeOK, Stages, wakeVars, healthVars, drainVars, boundVars
<1>7. RetryLeft' /\ SlotKept'
  BY <1>1, <1>2, <1>3, <1>4, <1>5 DEF RetryLeft, SlotKept, TypeOK
<1>8. TaskHeldOnce'
  <2>1. \A i, j \in DOMAIN queue' : queue'[i] = queue'[j] => i = j BY <1>2, <1>4
  <2>2. \A u \in Tasks : stage'[u] = "queued" <=> IsIn(u, queue')
    BY <1>1, <1>2, <1>4 DEF TaskHeldOnce, TypeOK
  <2>3. \A u \in Tasks : home'[u] # NoAgent <=> stage'[u] \in {"chosen", "running"}
    BY <1>1, <1>3, <1>4, PoolAssumption DEF TaskHeldOnce, TypeOK
  <2>4. \A u \in Tasks : stage'[u] = "chosen" <=> u = t
    BY <1>1, <1>4, <1>5 DEF TypeOK
  <2>5. QED BY <1>2, <1>4, <2>1, <2>2, <2>3, <2>4 DEF TaskHeldOnce
<1>9. ActiveIsRunning'
  <2>1. \A b \in Agents : Holds(b)' = Holds(b) BY <1>1, <1>4, <1>5 DEF Holds, TypeOK
  <2>2. QED BY <1>2, <2>1 DEF ActiveIsRunning
<1>10. QED BY <1>6, <1>7, <1>8, <1>9

LEMMA StartStep ==
  ASSUME IInv, NEW t \in Tasks, DispatchStart(t) PROVE IInv'
<1> USE DEF IInv
<1>0. PICK a \in Agents : a = home[t]
  BY PoolAssumption DEF DispatchStart, TaskHeldOnce, TypeOK
<1>1. /\ stage[t] = "chosen" /\ home[t] = a
      /\ active' = [active EXCEPT ![a] = @ + 1]
      /\ stage' = [stage EXCEPT ![t] = "running"]
      /\ dispatcher = "start" /\ dispatcher' = "check"
      /\ UNCHANGED <<retries, home, queue>>
  BY <1>0 DEF DispatchStart
<1>2. /\ a \in Agents
      /\ active[a] \in 0 .. MaxConcurrent /\ active[a] < MaxConcurrent
  BY <1>1 DEF TaskHeldOnce, SlotKept, TypeOK
<1>3. \A u \in Tasks : stage'[u] # "chosen"
  BY <1>1 DEF TaskHeldOnce, TypeOK
<1>4. TypeOK'
  <2>1. active' \in [Agents -> 0 .. MaxConcurrent]
    BY <1>1, <1>2, PoolAssumption DEF TypeOK
  <2>2. QED BY <1>1, <2>1
          DEF DispatchStart, TypeOK, Stages, wakeVars, healthVars, drainVars, boundVars
<1>5. RetryLeft' /\ SlotKept' BY <1>1, <1>3 DEF RetryLeft, SlotKept, TypeOK
<1>6. TaskHeldOnce' BY <1>1, <1>3 DEF TaskHeldOnce, TypeOK
<1>7. ActiveIsRunning'
  <2>1. Holds(a)' = Holds(a) \cup {t} BY <1>1 DEF Holds, TypeOK
  <2>2. t \notin Holds(a) BY <1>1 DEF Holds
  <2>3. Cardinality(Holds(a)') = Cardinality(Holds(a)) + 1
    BY <2>1, <2>2, HoldsFinite, FS_AddElement
  <2>4. \A b \in Agents \ {a} : Holds(b)' = Holds(b) BY <1>1 DEF Holds, TypeOK
  <2>5. ASSUME NEW b \in Agents PROVE active'[b] = Cardinality(Holds(b)')
    <3>1. active[b] = Cardinality(Holds(b)) BY DEF ActiveIsRunning
    <3>2. CASE b = a
      <4>1. active'[a] = active[a] + 1 BY <1>1, <1>2 DEF TypeOK
      <4>2. Holds(b)' = Holds(a)' /\ Holds(b) = Holds(a) BY <3>2 DEF Holds
      <4>3. QED BY <2>3, <3>1, <3>2, <4>1, <4>2
    <3>3. CASE b # a
      <4>1. active'[b] = active[b] BY <1>1, <3>3 DEF TypeOK
      <4>2. QED BY <2>4, <3>1, <3>3, <4>1
    <3>4. QED BY <3>2, <3>3
  <2>6. QED BY <2>5 DEF ActiveIsRunning
<1>8. QED BY <1>4, <1>5, <1>6, <1>7

(* The end of an execution, whatever its outcome.                          *)
LEMMA LeaveStep ==
  ASSUME IInv, NEW t \in Tasks, NEW s \in {"ok", "retrying", "exhausted"},
         s = "retrying" => retries[t] < MaxRetries,
         Leave(t, s)
  PROVE  IInv'
<1> USE DEF IInv
<1>0. PICK a \in Agents : a = home[t]
  BY BusyCounted DEF Leave
<1>1. /\ stage[t] = "running" /\ home[t] = a
      /\ active' = [active EXCEPT ![a] = @ - 1]
      /\ stage' = [stage EXCEPT ![t] = s]
      /\ home' = [home EXCEPT ![t] = NoAgent]
      /\ UNCHANGED <<retries, queue, dispatcher>>
  BY <1>0 DEF Leave, Release
<1>2. a \in Agents /\ active[a] \in 1 .. MaxConcurrent
  BY <1>1, BusyCounted
<1>3. TypeOK'
  <2>1. active' \in [Agents -> 0 .. MaxConcurrent]
    BY <1>1, <1>2, PoolAssumption DEF TypeOK
  <2>2. permit' \in BOOLEAN BY DEF Leave, Release, TypeOK
  <2>3. QED BY <1>1, <2>1, <2>2
          DEF Leave, TypeOK, Stages, healthVars, drainVars, boundVars
<1>4. RetryLeft' BY <1>1 DEF RetryLeft, TypeOK
<1>5. SlotKept'
  <2> SUFFICES ASSUME NEW u \in Tasks, stage'[u] = "chosen"
               PROVE  active'[home'[u]] < MaxConcurrent
    BY DEF SlotKept
  <2>1. u # t /\ stage[u] = "chosen" /\ home'[u] = home[u]
    BY <1>1 DEF TypeOK
  <2>2. active[home[u]] < MaxConcurrent /\ home[u] \in Agents
    BY <2>1 DEF SlotKept, TaskHeldOnce, TypeOK
  <2>3. active'[home[u]] <= active[home[u]]
    <3>1. active[home[u]] \in Nat BY <2>2 DEF TypeOK
    <3>2. CASE home[u] = a BY <1>1, <1>2, <3>2 DEF TypeOK
    <3>3. CASE home[u] # a BY <1>1, <2>2, <3>1, <3>3 DEF TypeOK
    <3>4. QED BY <3>2, <3>3
  <2>4. active'[home[u]] \in Nat /\ active[home[u]] \in Nat
    BY <1>3, <2>2 DEF TypeOK
  <2>5. QED BY <2>1, <2>2, <2>3, <2>4, PoolAssumption
<1>6. TaskHeldOnce' BY <1>1, PoolAssumption DEF TaskHeldOnce, TypeOK
<1>7. ActiveIsRunning'
  <2>1. Holds(a)' = Holds(a) \ {t}
    <3>1. \A u \in Tasks \ {t} : stage'[u] = stage[u] /\ home'[u] = home[u]
      BY <1>1 DEF TypeOK
    <3>2. stage'[t] # "running" BY <1>1 DEF TypeOK
    <3>3. QED BY <3>1, <3>2 DEF Holds
  <2>2. t \in Holds(a) BY <1>1 DEF Holds
  <2>3. Cardinality(Holds(a)') = Cardinality(Holds(a)) - 1
    BY <2>1, <2>2, HoldsFinite, FS_RemoveElement
  <2>4. ASSUME NEW b \in Agents \ {a} PROVE Holds(b)' = Holds(b)
    <3>1. \A u \in Tasks \ {t} : stage'[u] = stage[u] /\ home'[u] = home[u]
      BY <1>1 DEF TypeOK
    <3>2. stage'[t] # "running" /\ home[t] # b BY <1>1, <2>4 DEF TypeOK
    <3>3. \A u \in Tasks : (stage'[u] = "running" /\ home'[u] = b)
                             <=> (stage[u] = "running" /\ home[u] = b)
      BY <3>1, <3>2
    <3>4. QED BY <3>3 DEF Holds
  <2>5. ASSUME NEW b \in Agents PROVE active'[b] = Cardinality(Holds(b)')
    <3>1. active[b] = Cardinality(Holds(b)) BY DEF ActiveIsRunning
    <3>2. CASE b = a
      <4>1. active'[a] = active[a] - 1 BY <1>1, <1>2 DEF TypeOK
      <4>2. Holds(b)' = Holds(a)' /\ Holds(b) = Holds(a) BY <3>2 DEF Holds
      <4>3. QED BY <2>3, <3>1, <3>2, <4>1, <4>2
    <3>3. CASE b # a
      <4>1. active'[b] = active[b] BY <1>1, <3>3 DEF TypeOK
      <4>2. QED BY <2>4, <3>1, <3>3, <4>1
    <3>4. QED BY <3>2, <3>3
  <2>6. QED BY <2>5 DEF ActiveIsRunning
<1>8. QED BY <1>3, <1>4, <1>5, <1>6, <1>7

LEMMA AddAgentStep ==
  ASSUME IInv, NEW a \in Agents, AddAgent(a) PROVE IInv'
<1> USE DEF IInv
<1>1. /\ \A t \in Tasks : home[t] # a
      /\ active' = [active EXCEPT ![a] = 0]
      /\ UNCHANGED <<stage, retries, home, queue, dispatcher>>
  BY DEF AddAgent, Unused, taskVars
<1>2. TypeOK'
  BY <1>1, PoolAssumption DEF AddAgent, TypeOK, drainVars, boundVars
<1>3. RetryLeft' BY <1>1 DEF RetryLeft
<1>4. SlotKept' BY <1>1 DEF SlotKept, TaskHeldOnce, TypeOK
<1>5. TaskHeldOnce' BY <1>1 DEF TaskHeldOnce
<1>6. ActiveIsRunning'
  <2>1. \A b \in Agents : Holds(b)' = Holds(b) BY <1>1 DEF Holds
  <2>2. Holds(a) = {} BY <1>1 DEF Holds
  <2>3. QED BY <1>1, <2>1, <2>2, FS_EmptySet DEF ActiveIsRunning, TypeOK
<1>7. QED BY <1>2, <1>3, <1>4, <1>5, <1>6

-----------------------------------------------------------------------------
(* The steps of the loops that move no task.                               *)

LEMMA WakeOrSleepStep ==
  ASSUME IInv, DispatchIdle \/ DispatchBlocked \/ WakeBySignal \/ WakeByAgent
  PROVE  IInv'
<1>1. UNCHANGED <<taskVars, active>>
  BY DEF DispatchIdle, DispatchBlocked, Sleep, WakeBySignal, WakeByAgent, taskVars
<1>2. dispatcher # "start" /\ dispatcher' # "start"
  BY DEF DispatchIdle, DispatchBlocked, Sleep, WakeBySignal, WakeByAgent
<1>3. TypeOK'
  <2>1. CASE DispatchIdle \/ DispatchBlocked
    BY <2>1 DEF IInv, TypeOK, DispatchIdle, DispatchBlocked, Sleep, taskVars,
                wakeVars, healthVars, drainVars, boundVars
  <2>2. CASE WakeBySignal
    <3>1. signals' \in Nat BY <2>2 DEF IInv, TypeOK, WakeBySignal
    <3>2. QED BY <2>2, <3>1
            DEF IInv, TypeOK, WakeBySignal, taskVars, healthVars, drainVars, boundVars
  <2>3. CASE WakeByAgent
    BY <2>3
    DEF IInv, TypeOK, WakeByAgent, taskVars, healthVars, drainVars, boundVars
  <2>4. QED BY <2>1, <2>2, <2>3
<1>4. QED BY <1>1, <1>2, <1>3, QuietStep

LEMMA HealthStep ==
  ASSUME IInv, HealthTick \/ \E a \in Agents : Probe(a) PROVE IInv'
<1>1. UNCHANGED <<taskVars, active, dispatcher>>
  BY DEF HealthTick, Probe, ProbeAnswered, ProbeMissed, taskVars
<1>2. TypeOK'
  <2>1. CASE HealthTick
    BY <2>1 DEF IInv, TypeOK, HealthTick, taskVars, wakeVars, healthVars,
                drainVars, boundVars
  <2>2. ASSUME NEW a \in Agents, ProbeAnswered(a) PROVE TypeOK'
    BY <2>2, PoolAssumption
    DEF IInv, TypeOK, ProbeAnswered, taskVars, drainVars, boundVars
  <2>3. ASSUME NEW a \in Agents, ProbeMissed(a) PROVE TypeOK'
    <3>1. failures' \in [Agents -> 0 .. FailureThreshold]
      BY <2>3, PoolAssumption DEF IInv, TypeOK, ProbeMissed
    <3>2. faults' \in 0 .. MaxFaults
      BY <2>3, PoolAssumption DEF IInv, TypeOK, ProbeMissed
    <3>3. healthy' \in [Agents -> BOOLEAN]
      BY <2>3 DEF IInv, TypeOK, ProbeMissed
    <3>4. QED BY <2>3, <3>1, <3>2, <3>3
            DEF IInv, TypeOK, ProbeMissed, taskVars, wakeVars, drainVars
  <2>4. QED BY <2>1, <2>2, <2>3 DEF Probe
<1>3. QED BY <1>1, <1>2, QuietStep

LEMMA DrainStep ==
  ASSUME IInv,
         DrainScan \/ DrainRemove \/ DrainDone \/ \E a \in Agents : DrainDestroy(a)
  PROVE  IInv'
<1>1. UNCHANGED <<taskVars, active, dispatcher>>
  BY DEF DrainScan, DrainRemove, DrainDone, DrainDestroy, taskVars
<1>2. TypeOK'
  <2>1. CASE DrainScan
    BY <2>1
    DEF IInv, TypeOK, DrainScan, taskVars, wakeVars, healthVars, boundVars
  <2>2. CASE DrainRemove
    BY <2>2
    DEF IInv, TypeOK, DrainRemove, taskVars, wakeVars, healthVars, boundVars
  <2>3. CASE DrainDone
    BY <2>3
    DEF IInv, TypeOK, DrainDone, taskVars, wakeVars, healthVars, boundVars
  <2>4. ASSUME NEW a \in Agents, DrainDestroy(a) PROVE TypeOK'
    <3>1. faults' \in 0 .. MaxFaults
      BY <2>4, PoolAssumption DEF IInv, TypeOK, DrainDestroy
    <3>2. up' \in [Agents -> BOOLEAN] /\ doomed' \in [Agents -> {"no", "idle", "unhealthy"}]
      BY <2>4 DEF IInv, TypeOK, DrainDestroy
    <3>3. QED BY <2>4, <3>1, <3>2
            DEF IInv, TypeOK, DrainDestroy, taskVars, wakeVars, healthVars
  <2>5. QED BY <2>1, <2>2, <2>3, <2>4
<1>3. QED BY <1>1, <1>2, QuietStep

LEMMA EnvironmentStep ==
  ASSUME IInv, \E a \in Agents : ShutdownAgent(a) \/ AgentCrash(a) PROVE IInv'
<1>1. UNCHANGED <<taskVars, active, dispatcher>>
  BY DEF ShutdownAgent, AgentCrash, taskVars
<1>2. TypeOK'
  <2>1. ASSUME NEW a \in Agents, ShutdownAgent(a) PROVE TypeOK'
    <3>1. scaleDowns' \in 0 .. MaxScaleDowns
      BY <2>1, PoolAssumption DEF IInv, TypeOK, ShutdownAgent
    <3>2. QED BY <2>1, <3>1
            DEF IInv, TypeOK, ShutdownAgent, taskVars, wakeVars, healthVars, drainVars
  <2>2. ASSUME NEW a \in Agents, AgentCrash(a) PROVE TypeOK'
    <3>1. faults' \in 0 .. MaxFaults
      BY <2>2, PoolAssumption DEF IInv, TypeOK, AgentCrash
    <3>2. QED BY <2>2, <3>1
            DEF IInv, TypeOK, AgentCrash, taskVars, wakeVars, healthVars, drainVars
  <2>3. QED BY <2>1, <2>2
<1>3. QED BY <1>1, <1>2, QuietStep

LEMMA IInvStep == IInv /\ [Next]_vars => IInv'
<1> SUFFICES ASSUME IInv, [Next]_vars PROVE IInv'
  OBVIOUS
<1>1. CASE UNCHANGED vars
  <2>1. TypeOK'
    BY <1>1 DEF vars, taskVars, wakeVars, healthVars, drainVars, boundVars, IInv, TypeOK
  <2>2. QED BY <1>1, <2>1, QuietStep DEF vars
<1>2. CASE Dispatch
  <2>1. CASE \E t \in Tasks : DispatchStart(t) BY <2>1, StartStep
  <2>2. QED BY <1>2, <2>1, WakeOrSleepStep, PickStep DEF Dispatch
<1>3. ASSUME NEW t \in Tasks, Execute(t) PROVE IInv'
  <2>1. CASE Succeeded(t) BY <2>1, LeaveStep DEF Succeeded
  <2>2. CASE Failed(t) BY <2>2, LeaveStep DEF Failed
  <2>3. CASE Exhausted(t) BY <2>3, LeaveStep DEF Exhausted
  <2>4. QED BY <1>3, <2>1, <2>2, <2>3 DEF Execute
<1>4. QED
  BY <1>1, <1>2, <1>3, AcceptStep, RejectStep, RequeueStep, AddAgentStep, HealthStep,
     DrainStep, EnvironmentStep
  DEF Next

LEMMA IInvInit == Init => IInv
<1> SUFFICES ASSUME Init PROVE IInv
  OBVIOUS
<1>1. TypeOK
  <2>1. queue \in Seq(Tasks) BY DEF Init
  <2>2. /\ active \in [Agents -> 0 .. MaxConcurrent]
        /\ failures \in [Agents -> 0 .. FailureThreshold]
        /\ retries \in [Tasks -> 0 .. MaxRetries]
        /\ faults \in 0 .. MaxFaults
        /\ scaleDowns \in 0 .. MaxScaleDowns
    BY PoolAssumption DEF Init
  <2>3. /\ stage \in [Tasks -> Stages]
        /\ home \in [Tasks -> Agents \cup {NoAgent}]
        /\ doomed \in [Agents -> {"no", "idle", "unhealthy"}]
    BY DEF Init, Stages
  <2>4. QED BY <2>1, <2>2, <2>3 DEF Init, TypeOK
<1>2. RetryLeft /\ SlotKept BY DEF Init, RetryLeft, SlotKept
<1>3. TaskHeldOnce BY DEF Init, TaskHeldOnce, IsIn
<1>4. ActiveIsRunning
  <2>1. \A a \in Agents : Holds(a) = {} BY DEF Init, Holds
  <2>2. QED BY <2>1, FS_EmptySet DEF Init, ActiveIsRunning
<1>5. QED BY <1>1, <1>2, <1>3, <1>4 DEF IInv

LEMMA IInvAlways == Spec => []IInv
<1>1. Init => IInv BY IInvInit
<1>2. IInv /\ [Next]_vars => IInv' BY IInvStep
<1>3. QED BY <1>1, <1>2, PTL DEF Spec

(* Every variable keeps its type for any number of tasks and agents and    *)
(* any limits: no retry counter passes MaxRetries, and no agent's counter  *)
(* passes MaxConcurrent or wraps below zero.                               *)
THEOREM TypeCorrect == Spec => []TypeOK
<1>1. IInv => TypeOK BY DEF IInv
<1>2. QED BY <1>1, IInvAlways, PTL

(* No task is lost or doubled between the queue, the dispatcher and the    *)
(* executing futures, however often it is retried.                         *)
THEOREM TasksConserved == Spec => []TaskHeldOnce
<1>1. IInv => TaskHeldOnce BY DEF IInv
<1>2. QED BY <1>1, IInvAlways, PTL

(* The load the dispatcher and the autoscaler read off an agent's counter  *)
(* is the number of tasks the agent is really running.                     *)
THEOREM CountersExact == Spec => []ActiveIsRunning
<1>1. IInv => ActiveIsRunning BY DEF IInv
<1>2. QED BY <1>1, IInvAlways, PTL

(* Every task is in one place, and the counters agree with where.          *)
THEOREM AlwaysAccounted == Spec => []TasksAccounted
<1>1. IInv => TasksAccounted BY DEF IInv, TasksAccounted
<1>2. QED BY <1>1, IInvAlways, PTL

-----------------------------------------------------------------------------
(* The wake-ups.  An agent becomes usable, or loses its last task, only in *)
(* steps that store the permit, and a task enters an empty queue only with *)
(* a signal.  A missed probe never makes an agent usable, because an agent *)
(* is unhealthy only with its failures at the threshold.                   *)

UnhealthyCounted == \A a \in Agents : ~healthy[a] => failures[a] = FailureThreshold

WakeInv == IInv /\ UnhealthyCounted /\ NoLostWakeup

LEMMA UnhealthyCountedStep ==
  ASSUME IInv, UnhealthyCounted, [Next]_vars PROVE UnhealthyCounted'
<1> USE DEF IInv, UnhealthyCounted
<1>1. CASE UNCHANGED healthVars BY <1>1 DEF healthVars
<1>2. ASSUME NEW a \in Agents, ProbeAnswered(a) PROVE UnhealthyCounted'
  BY <1>2 DEF ProbeAnswered, TypeOK
<1>3. ASSUME NEW a \in Agents, ProbeMissed(a) PROVE UnhealthyCounted'
  <2>1. /\ failures'[a] \in 0 .. FailureThreshold
        /\ ~healthy'[a] => ~(failures'[a] < FailureThreshold)
    BY <1>3, PoolAssumption DEF ProbeMissed, TypeOK
  <2>2. ~healthy'[a] => failures'[a] = FailureThreshold BY <2>1, PoolAssumption
  <2>3. \A b \in Agents \ {a} : healthy'[b] = healthy[b] /\ failures'[b] = failures[b]
    BY <1>3 DEF ProbeMissed, TypeOK
  <2>4. QED BY <2>2, <2>3
<1>4. ASSUME NEW a \in Agents, AddAgent(a) PROVE UnhealthyCounted'
  BY <1>4 DEF AddAgent, TypeOK
<1>5. CASE Dispatch
  <2>1. UNCHANGED healthVars
    BY <1>5 DEF Dispatch, DispatchIdle, DispatchBlocked, DispatchPick, DispatchStart,
                Sleep, WakeBySignal, WakeByAgent
  <2>2. QED BY <1>1, <2>1
<1>6. ASSUME NEW t \in Tasks, Accept(t) \/ Reject(t) \/ Execute(t) \/ Requeue(t)
      PROVE  UNCHANGED healthVars
  BY <1>6 DEF Accept, Reject, Execute, Succeeded, Failed, Exhausted, Leave, Requeue
<1>7. CASE HealthTick \/ DrainScan \/ DrainRemove \/ DrainDone
  <2>1. UNCHANGED healthVars
    BY <1>7 DEF HealthTick, DrainScan, DrainRemove, DrainDone
  <2>2. QED BY <1>1, <2>1
<1>8. ASSUME NEW a \in Agents, DrainDestroy(a) \/ ShutdownAgent(a) \/ AgentCrash(a)
      PROVE  UNCHANGED healthVars
  BY <1>8 DEF DrainDestroy, ShutdownAgent, AgentCrash
<1>9. CASE UNCHANGED vars BY <1>1, <1>9 DEF vars
<1>10. QED
  BY <1>1, <1>2, <1>3, <1>4, <1>5, <1>6, <1>7, <1>8, <1>9 DEF Next, Probe

LEMMA WakeupStep ==
  ASSUME IInv, UnhealthyCounted, NoLostWakeup, [Next]_vars PROVE NoLostWakeup'
<1> USE DEF IInv, NoLostWakeup, Eligible
<1>1. CASE UNCHANGED vars
  BY <1>1 DEF vars, taskVars, wakeVars, healthVars
<1>2. CASE Dispatch
  <2>1. CASE DispatchIdle \/ DispatchPick \/ WakeBySignal \/ WakeByAgent
    BY <2>1 DEF DispatchIdle, DispatchPick, WakeBySignal, WakeByAgent, Sleep, taskVars
  <2>2. CASE DispatchBlocked
    <3>1. ASSUME NEW a \in Agents, Eligible(a) PROVE active[a] > 0
      <4>1. ~(active[a] < MaxConcurrent) BY <2>2, <3>1 DEF DispatchBlocked, Spare
      <4>2. QED BY <4>1, PoolAssumption DEF TypeOK
    <3>2. QED BY <2>2, <3>1 DEF DispatchBlocked, Sleep, healthVars
  <2>3. CASE \E t \in Tasks : DispatchStart(t)
    BY <2>3 DEF DispatchStart
  <2>4. QED BY <1>2, <2>1, <2>2, <2>3 DEF Dispatch
<1>3. ASSUME NEW t \in Tasks, Accept(t) PROVE NoLostWakeup'
  <2>1. queue = <<>> => signals' > 0 BY <1>3 DEF Accept, TypeOK
  <2>2. signals' >= signals /\ signals' \in Nat /\ signals \in Nat
    BY <1>3 DEF Accept, TypeOK
  <2>3. UNCHANGED <<dispatcher, permit, agents, healthy, draining, active>>
    BY <1>3 DEF Accept, healthVars
  <2>4. QED BY <2>1, <2>2, <2>3
<1>4. ASSUME NEW t \in Tasks, Reject(t) PROVE NoLostWakeup'
  BY <1>4 DEF Reject, wakeVars, healthVars
<1>5. ASSUME NEW t \in Tasks, NEW s, Leave(t, s) PROVE NoLostWakeup'
  <2>1. /\ UNCHANGED <<queue, signals, dispatcher, agents, healthy, draining>>
        /\ stage[t] = "running"
        /\ active' = [active EXCEPT ![home[t]] = @ - 1]
        /\ permit' = (permit \/ active[home[t]] = 1)
    BY <1>5 DEF Leave, Release, healthVars
  <2>2. home[t] \in Agents /\ active[home[t]] \in 1 .. MaxConcurrent
    BY <2>1, BusyCounted
  <2>3. CASE permit' BY <2>1, <2>3
  <2>4. CASE ~permit'
    <3>1. ~permit /\ active[home[t]] # 1 BY <2>1, <2>4
    <3>2. active'[home[t]] > 0 BY <2>1, <2>2, <3>1 DEF TypeOK
    <3>3. \A a \in Agents : active[a] > 0 => active'[a] > 0
      BY <2>1, <2>2, <3>2 DEF TypeOK
    <3>4. QED BY <2>1, <3>1, <3>3
  <2>5. QED BY <2>3, <2>4
<1>6. ASSUME NEW t \in Tasks, Execute(t) PROVE NoLostWakeup'
  BY <1>5, <1>6 DEF Execute, Succeeded, Failed, Exhausted
<1>7. ASSUME NEW t \in Tasks, Requeue(t) PROVE NoLostWakeup'
  <2>1. signals' > 0 /\ signals' # 0 BY <1>7 DEF Requeue, TypeOK
  <2>2. QED BY <2>1
<1>8. CASE HealthTick
  BY <1>8 DEF HealthTick, taskVars, wakeVars, healthVars
<1>9. ASSUME NEW a \in Agents, ProbeAnswered(a) PROVE NoLostWakeup'
  <2>1. /\ UNCHANGED <<queue, signals, dispatcher, agents, draining, active>>
        /\ healthy' = [healthy EXCEPT ![a] = TRUE]
        /\ permit' = (permit \/ ~healthy[a])
    BY <1>9 DEF ProbeAnswered, taskVars
  <2>2. CASE healthy[a]
    <3>1. healthy' = healthy BY <2>1, <2>2 DEF TypeOK
    <3>2. QED BY <2>1, <2>2, <3>1
  <2>3. CASE ~healthy[a] BY <2>1, <2>3
  <2>4. QED BY <2>2, <2>3
<1>10. ASSUME NEW a \in Agents, ProbeMissed(a) PROVE NoLostWakeup'
  <2>1. UNCHANGED <<queue, signals, permit, dispatcher, agents, draining, active>>
    BY <1>10 DEF ProbeMissed, taskVars, wakeVars
  <2>2. healthy'[a] => healthy[a]
    <3>1. failures[a] \in 0 .. FailureThreshold /\ FailureThreshold \in Nat
      BY PoolAssumption DEF TypeOK
    <3>2. failures'[a] = IF failures[a] < FailureThreshold THEN failures[a] + 1
                                                           ELSE failures[a]
      BY <1>10 DEF ProbeMissed, TypeOK
    <3>3. healthy'[a] => failures'[a] < FailureThreshold
      BY <1>10 DEF ProbeMissed, TypeOK
    <3>4. failures[a] = FailureThreshold => ~(failures'[a] < FailureThreshold)
      BY <3>1, <3>2
    <3>5. QED BY <3>3, <3>4 DEF UnhealthyCounted
  <2>3. \A b \in Agents : healthy'[b] => healthy[b]
    BY <1>10, <2>2 DEF ProbeMissed, TypeOK
  <2>4. QED BY <2>1, <2>3
<1>11. CASE DrainScan \/ DrainDone \/ DrainRemove
  BY <1>11 DEF DrainScan, DrainDone, DrainRemove, taskVars, wakeVars, healthVars
<1>12. ASSUME NEW a \in Agents, DrainDestroy(a) \/ AgentCrash(a) PROVE NoLostWakeup'
  BY <1>12 DEF DrainDestroy, AgentCrash, taskVars, wakeVars, healthVars
<1>13. ASSUME NEW a \in Agents, ShutdownAgent(a) PROVE NoLostWakeup'
  <2>1. UNCHANGED <<queue, signals, permit, dispatcher, agents, healthy, active>>
    BY <1>13 DEF ShutdownAgent, taskVars, wakeVars, healthVars
  <2>2. \A b \in Agents : ~draining'[b] => ~draining[b]
    BY <1>13 DEF ShutdownAgent, TypeOK
  <2>3. QED BY <2>1, <2>2
<1>14. ASSUME NEW a \in Agents, AddAgent(a) PROVE NoLostWakeup'
  <2>1. permit' /\ UNCHANGED <<queue, signals, dispatcher>>
    BY <1>14 DEF AddAgent, taskVars
  <2>2. QED BY <2>1
<1>15. QED
  BY <1>1, <1>2, <1>3, <1>4, <1>6, <1>7, <1>8, <1>9, <1>10, <1>11, <1>12, <1>13, <1>14
  DEF Next, Probe

(* However submissions, completions, probes, drains and scaling interleave *)
(* with it, the dispatcher never sleeps with a task queued unless a signal *)
(* or permit is pending or every agent it could use is at work: the waits  *)
(* of dispatch_loop lose no notification, for any limits.                  *)
THEOREM DispatcherWakes == Spec => []NoLostWakeup
<1>1. Init => WakeInv
  <2>1. Init => UnhealthyCounted BY DEF Init, UnhealthyCounted
  <2>2. Init => NoLostWakeup BY DEF Init, NoLostWakeup
  <2>3. QED BY <2>1, <2>2, IInvInit DEF WakeInv
<1>2. WakeInv /\ [Next]_vars => WakeInv'
  BY IInvStep, UnhealthyCountedStep, WakeupStep DEF WakeInv
<1>3. WakeInv => NoLostWakeup BY DEF WakeInv
<1>4. QED BY <1>1, <1>2, <1>3, PTL DEF Spec

-----------------------------------------------------------------------------
(* The length of the queue.  FirstTriesBounded counts tasks; submit tests  *)
(* Len(queue), and each of those tasks has a place of its own there.       *)

FirstTries == {t \in Tasks : stage[t] = "queued" /\ retries[t] = 0}

LEMMA FirstTriesFit ==
  ASSUME IInv
  PROVE  /\ IsFiniteSet(FirstTries)
         /\ Cardinality(FirstTries) \in Nat
         /\ Cardinality(FirstTries) <= Len(queue)
<1> DEFINE elements == {queue[i] : i \in DOMAIN queue}
<1>1. queue \in Seq(Tasks) BY DEF IInv, TypeOK
<1>2. DOMAIN queue = 1 .. Len(queue) /\ Len(queue) \in Nat BY <1>1
<1>3. IsFiniteSet(DOMAIN queue) /\ Cardinality(DOMAIN queue) = Len(queue)
  <2> DEFINE last == Len(queue)
  <2>1. last \in Nat BY <1>2
  <2> HIDE DEF last
  <2>2. 1 \in Int /\ last \in Int BY <2>1
  <2>3. /\ IsFiniteSet(1 .. last)
        /\ Cardinality(1 .. last) = IF 1 > last THEN 0 ELSE last - 1 + 1
    BY <2>2, FS_Interval
  <2>4. (IF 1 > last THEN 0 ELSE last - 1 + 1) = last BY <2>1
  <2>5. IsFiniteSet(1 .. last) /\ Cardinality(1 .. last) = last BY <2>3, <2>4
  <2>6. DOMAIN queue = 1 .. last BY <1>2 DEF last
  <2>7. IsFiniteSet(DOMAIN queue) /\ Cardinality(DOMAIN queue) = last
    BY <2>5, <2>6
  <2>8. QED BY <2>7 DEF last
<1>4. queue \in Surjection(DOMAIN queue, elements)
  <2>1. queue \in [DOMAIN queue -> elements] BY <1>1
  <2>2. QED BY <2>1 DEF Surjection
<1>5. IsFiniteSet(elements) /\ Cardinality(elements) <= Len(queue)
  BY <1>3, <1>4, FS_Surjection
<1>6. FirstTries \in SUBSET elements
  BY DEF FirstTries, IInv, TaskHeldOnce, IsIn
<1> HIDE DEF elements
<1>7. IsFiniteSet(FirstTries) /\ Cardinality(FirstTries) <= Cardinality(elements)
  BY <1>5, <1>6, FS_Subset
<1>8. Cardinality(FirstTries) \in Nat /\ Cardinality(elements) \in Nat
  BY <1>5, <1>7, FS_CardinalityType
<1>9. QED BY <1>2, <1>5, <1>7, <1>8

(* A step that sets no task aside for its first try.                       *)
LEMMA NoNewFirstTry ==
  ASSUME IInv, FirstTriesBounded,
         \A t \in Tasks : stage'[t] = "queued" /\ retries'[t] = 0 =>
                            stage[t] = "queued" /\ retries[t] = 0
  PROVE  FirstTriesBounded'
<1>1. FirstTries' \in SUBSET FirstTries BY DEF FirstTries
<1>2. /\ IsFiniteSet(FirstTries')
      /\ Cardinality(FirstTries') <= Cardinality(FirstTries)
  BY <1>1, FirstTriesFit, FS_Subset
<1>3. Cardinality(FirstTries') \in Nat /\ Cardinality(FirstTries) \in Nat
  BY <1>2, FirstTriesFit, FS_CardinalityType
<1>4. Cardinality(FirstTries) <= MaxQueue BY DEF FirstTriesBounded, FirstTries
<1>5. Cardinality(FirstTries') <= MaxQueue BY <1>2, <1>3, <1>4, PoolAssumption
<1>6. QED BY <1>5 DEF FirstTriesBounded, FirstTries

LEMMA AcceptBounded ==
  ASSUME IInv, FirstTriesBounded, NEW t \in Tasks, Accept(t)
  PROVE  FirstTriesBounded'
<1>1. /\ Len(queue) < MaxQueue /\ stage[t] = "new"
      /\ stage' = [stage EXCEPT ![t] = "queued"] /\ retries' = retries
  BY DEF Accept, HasRoom, Enqueue
<1>2. FirstTries' \in SUBSET (FirstTries \cup {t})
  BY <1>1 DEF FirstTries, IInv, TypeOK
<1>3. t \notin FirstTries BY <1>1 DEF FirstTries
<1>4. /\ IsFiniteSet(FirstTries \cup {t})
      /\ Cardinality(FirstTries \cup {t}) = Cardinality(FirstTries) + 1
  BY <1>3, FirstTriesFit, FS_AddElement
<1>5. /\ IsFiniteSet(FirstTries')
      /\ Cardinality(FirstTries') <= Cardinality(FirstTries) + 1
  BY <1>2, <1>4, FS_Subset
<1>6. Cardinality(FirstTries') \in Nat BY <1>5, FS_CardinalityType
<1>7. Len(queue) \in Nat BY DEF IInv, TypeOK
<1>8. Cardinality(FirstTries') <= MaxQueue
  BY <1>1, <1>5, <1>6, <1>7, FirstTriesFit, PoolAssumption
<1>9. QED BY <1>8 DEF FirstTriesBounded, FirstTries

LEMMA FirstTriesStep ==
  ASSUME IInv, FirstTriesBounded, [Next]_vars PROVE FirstTriesBounded'
<1> DEFINE Quiet == \A t \in Tasks : stage'[t] = "queued" /\ retries'[t] = 0 =>
                                       stage[t] = "queued" /\ retries[t] = 0
<1>1. CASE UNCHANGED <<stage, retries>> BY <1>1, NoNewFirstTry
<1>2. CASE Dispatch
  <2>1. CASE DispatchIdle \/ DispatchBlocked \/ WakeBySignal \/ WakeByAgent
    BY <1>1, <2>1
    DEF DispatchIdle, DispatchBlocked, Sleep, WakeBySignal, WakeByAgent, taskVars
  <2>2. CASE DispatchPick
    <3>1. retries' = retries /\ stage' = [stage EXCEPT ![Head(queue)] = "chosen"]
      BY <2>2 DEF DispatchPick
    <3>2. Quiet BY <3>1 DEF IInv, TypeOK
    <3>3. QED BY <3>2, NoNewFirstTry
  <2>3. ASSUME NEW t \in Tasks, DispatchStart(t) PROVE FirstTriesBounded'
    <3>1. retries' = retries /\ stage' = [stage EXCEPT ![t] = "running"]
      BY <2>3 DEF DispatchStart
    <3>2. Quiet BY <3>1 DEF IInv, TypeOK
    <3>3. QED BY <3>2, NoNewFirstTry
  <2>4. QED BY <1>2, <2>1, <2>2, <2>3 DEF Dispatch
<1>3. ASSUME NEW t \in Tasks, Reject(t) PROVE FirstTriesBounded'
  <2>1. retries' = retries /\ stage' = [stage EXCEPT ![t] = "rejected"]
    BY <1>3 DEF Reject
  <2>2. Quiet BY <2>1 DEF IInv, TypeOK
  <2>3. QED BY <2>2, NoNewFirstTry
<1>4. ASSUME NEW t \in Tasks, NEW s \in {"ok", "retrying", "exhausted"}, Leave(t, s)
      PROVE  FirstTriesBounded'
  <2>1. retries' = retries /\ stage' = [stage EXCEPT ![t] = s] BY <1>4 DEF Leave
  <2>2. Quiet BY <2>1 DEF IInv, TypeOK
  <2>3. QED BY <2>2, NoNewFirstTry
<1>5. ASSUME NEW t \in Tasks, Execute(t) PROVE FirstTriesBounded'
  BY <1>4, <1>5 DEF Execute, Succeeded, Failed, Exhausted
<1>6. ASSUME NEW t \in Tasks, Requeue(t) PROVE FirstTriesBounded'
  <2>1. /\ retries' = [retries EXCEPT ![t] = @ + 1]
        /\ stage' = [stage EXCEPT ![t] = "queued"]
    BY <1>6 DEF Requeue, Enqueue
  <2>2. retries'[t] # 0 BY <2>1, PoolAssumption DEF IInv, TypeOK
  <2>3. Quiet BY <2>1, <2>2 DEF IInv, TypeOK
  <2>4. QED BY <2>3, NoNewFirstTry
<1>7. CASE HealthTick \/ DrainScan \/ DrainRemove \/ DrainDone
  BY <1>1, <1>7 DEF HealthTick, DrainScan, DrainRemove, DrainDone, taskVars
<1>8. ASSUME NEW a \in Agents,
             Probe(a) \/ DrainDestroy(a) \/ AddAgent(a) \/ ShutdownAgent(a) \/ AgentCrash(a)
      PROVE  FirstTriesBounded'
  BY <1>1, <1>8
  DEF Probe, ProbeAnswered, ProbeMissed, DrainDestroy, AddAgent, ShutdownAgent, AgentCrash,
      taskVars
<1>9. CASE UNCHANGED vars BY <1>1, <1>9 DEF vars, taskVars
<1>10. QED BY <1>2, <1>3, <1>5, <1>6, <1>7, <1>8, <1>9, AcceptBounded DEF Next

(* However many tasks come back for another try, submit never lets more    *)
(* first tries wait than max_queue_size, because every queued task has a   *)
(* place of its own in the queue whose length it tests.                    *)
THEOREM FirstTriesAlwaysBounded == Spec => []FirstTriesBounded
<1>1. Init => FirstTriesBounded
  <2> SUFFICES ASSUME Init PROVE FirstTriesBounded
    OBVIOUS
  <2>1. {t \in Tasks : stage[t] = "queued" /\ retries[t] = 0} = {} BY DEF Init
  <2>2. QED BY <2>1, FS_EmptySet, PoolAssumption DEF FirstTriesBounded
<1>2. IInv /\ FirstTriesBounded /\ [Next]_vars => FirstTriesBounded'
  BY FirstTriesStep
<1>3. QED BY <1>1, <1>2, IInvAlways, PTL DEF Spec

-----------------------------------------------------------------------------
(* What a drained agent takes with it.  From the scan on it is marked, so  *)
(* that the dispatcher matches nothing more with it, and at the scan it    *)
(* ran nothing: only the one task the dispatcher is about to count is its. *)

DrainingMarked == \A a \in Agents : doomed[a] = "idle" => draining[a]

DrainInv == IInv /\ DrainingMarked /\ DrainedLosesAtMostOne

(* No task gets a home it had not, and no agent a reason to go.            *)
LEMMA NoNewHome ==
  ASSUME DrainingMarked, DrainedLosesAtMostOne,
         \A a \in Agents : doomed'[a] = "idle" => doomed[a] = "idle" /\ (draining[a] => draining'[a]),
         \A a \in Agents, t \in Tasks : doomed[a] = "idle" /\ home'[t] = a => home[t] = a
  PROVE  DrainingMarked' /\ DrainedLosesAtMostOne'
BY DEF DrainingMarked, DrainedLosesAtMostOne

LEMMA DrainScanKeeps ==
  ASSUME IInv, DrainScan PROVE DrainingMarked' /\ DrainedLosesAtMostOne'
<1>1. UNCHANGED <<stage, home, draining>> BY DEF DrainScan, taskVars
<1>2. ASSUME NEW a \in Agents, doomed'[a] = "idle"
      PROVE  draining[a] /\ active[a] = 0
  BY <1>2 DEF DrainScan, Candidate
<1>3. ASSUME NEW a \in Agents, active[a] = 0, NEW t \in Tasks, home[t] = a
      PROVE  stage[t] = "chosen"
  <2>1. Cardinality(Holds(a)) = 0 BY <1>3 DEF IInv, ActiveIsRunning
  <2>2. Holds(a) = {} BY <2>1, HoldsFinite, FS_EmptySet
  <2>3. stage[t] # "running" BY <1>3, <2>2 DEF Holds
  <2>4. home[t] # NoAgent BY <1>3, PoolAssumption
  <2>5. QED BY <2>3, <2>4 DEF IInv, TaskHeldOnce
<1>4. \A t, u \in Tasks : stage[t] = "chosen" /\ stage[u] = "chosen" => t = u
  BY DEF IInv, TaskHeldOnce
<1>5. DrainingMarked' BY <1>1, <1>2 DEF DrainingMarked
<1>6. DrainedLosesAtMostOne' BY <1>1, <1>2, <1>3, <1>4 DEF DrainedLosesAtMostOne
<1>7. QED BY <1>5, <1>6

LEMMA DrainInvStep ==
  ASSUME DrainInv, [Next]_vars PROVE DrainingMarked' /\ DrainedLosesAtMostOne'
<1> USE DEF DrainInv
<1>1. CASE UNCHANGED <<home, doomed, draining>> BY <1>1, NoNewHome
<1>2. CASE Dispatch
  <2>1. CASE DispatchIdle \/ DispatchBlocked \/ WakeBySignal \/ WakeByAgent
    BY <1>1, <2>1
    DEF DispatchIdle, DispatchBlocked, Sleep, WakeBySignal, WakeByAgent, taskVars, drainVars
  <2>2. CASE DispatchPick
    <3>1. PICK b \in LeastLoaded : home' = [home EXCEPT ![Head(queue)] = b]
      BY <2>2 DEF DispatchPick
    <3>2. ~draining[b] BY DEF LeastLoaded, Spare, Eligible
    <3>3. UNCHANGED <<doomed, draining>> BY <2>2 DEF DispatchPick, drainVars
    <3>4. \A a \in Agents, t \in Tasks : doomed[a] = "idle" /\ home'[t] = a => home[t] = a
      BY <3>1, <3>2 DEF DrainingMarked, IInv, TypeOK
    <3>5. QED BY <3>3, <3>4, NoNewHome
  <2>3. CASE \E t \in Tasks : DispatchStart(t)
    BY <1>1, <2>3 DEF DispatchStart, drainVars
  <2>4. QED BY <1>2, <2>1, <2>2, <2>3 DEF Dispatch
<1>3. ASSUME NEW t \in Tasks, Accept(t) \/ Reject(t) \/ Requeue(t)
      PROVE  UNCHANGED <<home, doomed, draining>>
  BY <1>3 DEF Accept, Reject, Requeue, drainVars
<1>4. ASSUME NEW t \in Tasks, Execute(t) PROVE DrainingMarked' /\ DrainedLosesAtMostOne'
  <2>1. home' = [home EXCEPT ![t] = NoAgent] /\ UNCHANGED <<doomed, draining>>
    BY <1>4 DEF Execute, Succeeded, Failed, Exhausted, Leave, drainVars
  <2>2. \A a \in Agents, u \in Tasks : home'[u] = a => home[u] = a
    BY <2>1, PoolAssumption DEF IInv, TypeOK
  <2>3. QED BY <2>1, <2>2, NoNewHome
<1>5. CASE HealthTick \/ DrainRemove \/ DrainDone
  BY <1>1, <1>5 DEF HealthTick, DrainRemove, DrainDone, taskVars, drainVars
<1>6. ASSUME NEW b \in Agents, Probe(b) \/ AgentCrash(b)
      PROVE  UNCHANGED <<home, doomed, draining>>
  BY <1>6 DEF Probe, ProbeAnswered, ProbeMissed, AgentCrash, taskVars, drainVars
<1>7. ASSUME NEW b \in Agents, DrainDestroy(b) PROVE DrainingMarked' /\ DrainedLosesAtMostOne'
  <2>1. doomed' = [doomed EXCEPT ![b] = "no"] /\ UNCHANGED <<home, draining>>
    BY <1>7 DEF DrainDestroy, taskVars
  <2>2. \A a \in Agents : doomed'[a] = "idle" => doomed[a] = "idle"
    BY <2>1 DEF IInv, TypeOK
  <2>3. QED BY <2>1, <2>2, NoNewHome
<1>8. ASSUME NEW b \in Agents, AddAgent(b) PROVE DrainingMarked' /\ DrainedLosesAtMostOne'
  <2>1. /\ doomed[b] = "no" /\ draining' = [draining EXCEPT ![b] = FALSE]
        /\ UNCHANGED <<home, doomed>>
    BY <1>8 DEF AddAgent, Unused, taskVars, drainVars
  <2>2. \A a \in Agents : doomed[a] = "idle" => draining'[a] = draining[a]
    BY <2>1 DEF IInv, TypeOK
  <2>3. QED BY <2>1, <2>2, NoNewHome
<1>9. ASSUME NEW b \in Agents, ShutdownAgent(b) PROVE DrainingMarked' /\ DrainedLosesAtMostOne'
  <2>1. draining' = [draining EXCEPT ![b] = TRUE] /\ UNCHANGED <<home, doomed>>
    BY <1>9 DEF ShutdownAgent, taskVars, drainVars
  <2>2. \A a \in Agents : draining[a] => draining'[a] BY <2>1 DEF IInv, TypeOK
  <2>3. QED BY <2>1, <2>2, NoNewHome
<1>10. CASE UNCHANGED vars BY <1>1, <1>10 DEF vars, taskVars, drainVars
<1>11. QED
  BY <1>1, <1>2, <1>3, <1>4, <1>5, <1>6, <1>7, <1>8, <1>9, <1>10, DrainScanKeeps DEF Next

(* For any number of agents and slots: an agent that is removed as drained *)
(* has at most one task with it, the one the dispatcher had matched before *)
(* the agent was marked.                                                   *)
THEOREM DrainedLosesLittle == Spec => []DrainedLosesAtMostOne
<1>1. Init => DrainInv
  <2>1. Init => DrainingMarked BY DEF Init, DrainingMarked
  <2>2. Init => DrainedLosesAtMostOne BY DEF Init, DrainedLosesAtMostOne
  <2>3. QED BY <2>1, <2>2, IInvInit DEF DrainInv
<1>2. DrainInv /\ [Next]_vars => DrainInv'
  BY IInvStep, DrainInvStep DEF DrainInv
<1>3. DrainInv => DrainedLosesAtMostOne BY DEF DrainInv
<1>4. QED BY <1>1, <1>2, <1>3, PTL DEF Spec
-----------------------------------------------------------------------------
(* The refinement.  Seen through StatusOf and AttemptsOf, a step of the    *)
(* pool is a step of TaskService for one task, or no step at all.          *)

Status   == [t \in Tasks |-> StatusOf(t)]
Attempts == [t \in Tasks |-> AttemptsOf(t)]

LEMMA OthersStay ==
  ASSUME NEW t \in Tasks,
         \A u \in Tasks : u # t => stage'[u] = stage[u] /\ retries'[u] = retries[u]
  PROVE  /\ Status' = [Status EXCEPT ![t] = StatusOf(t)']
         /\ Attempts' = [Attempts EXCEPT ![t] = AttemptsOf(t)']
<1>1. \A u \in Tasks : u # t => StatusOf(u)' = StatusOf(u)
  BY DEF StatusOf
<1>2. \A u \in Tasks : u # t => AttemptsOf(u)' = AttemptsOf(u)
  BY DEF AttemptsOf
<1>3. QED BY <1>1, <1>2 DEF Status, Attempts

LEMMA NobodyMoves ==
  ASSUME \A u \in Tasks : StatusOf(u)' = StatusOf(u) /\ AttemptsOf(u)' = AttemptsOf(u)
  PROVE  UNCHANGED <<Status, Attempts>>
BY DEF Status, Attempts

(* A task that is where it was, or a step that touches no task.            *)
LEMMA TasksUntouched ==
  ASSUME UNCHANGED <<stage, retries>>
  PROVE  UNCHANGED <<Status, Attempts>>
<1>1. \A u \in Tasks : StatusOf(u)' = StatusOf(u) /\ AttemptsOf(u)' = AttemptsOf(u)
  BY DEF StatusOf, AttemptsOf
<1>2. QED BY <1>1, NobodyMoves

(* What a task's status and attempts are at each stage of the pool.        *)
LEMMA StatusIs ==
  ASSUME NEW t \in Tasks
  PROVE  /\ stage[t] = "new" => StatusOf(t) = "new" /\ AttemptsOf(t) = retries[t]
         /\ stage[t] \in {"queued", "chosen"} =>
              StatusOf(t) = "waiting" /\ AttemptsOf(t) = retries[t]
         /\ stage[t] = "retrying" =>
              StatusOf(t) = "waiting" /\ AttemptsOf(t) = retries[t] + 1
         /\ stage[t] = "running" =>
              StatusOf(t) = "trying" /\ AttemptsOf(t) = retries[t] + 1
         /\ stage[t] \in {"ok", "exhausted"} =>
              StatusOf(t) = stage[t] /\ AttemptsOf(t) = retries[t] + 1
         /\ stage[t] = "rejected" =>
              StatusOf(t) = "rejected" /\ AttemptsOf(t) = retries[t]
BY DEF StatusOf, AttemptsOf

(* The same in the state after a step.                                     *)
LEMMA StatusBecomes ==
  ASSUME NEW t \in Tasks
  PROVE  /\ stage'[t] \in {"queued", "chosen"} =>
              StatusOf(t)' = "waiting" /\ AttemptsOf(t)' = retries'[t]
         /\ stage'[t] = "retrying" =>
              StatusOf(t)' = "waiting" /\ AttemptsOf(t)' = retries'[t] + 1
         /\ stage'[t] = "running" =>
              StatusOf(t)' = "trying" /\ AttemptsOf(t)' = retries'[t] + 1
         /\ stage'[t] \in {"ok", "exhausted"} =>
              StatusOf(t)' = stage'[t] /\ AttemptsOf(t)' = retries'[t] + 1
         /\ stage'[t] = "rejected" =>
              StatusOf(t)' = "rejected" /\ AttemptsOf(t)' = retries'[t]
BY DEF StatusOf, AttemptsOf

(* A step of one task, from the values before and after it.                *)
LEMMA ServiceMove ==
  ASSUME IInv, NEW t \in Tasks,
         \A u \in Tasks : u # t => stage'[u] = stage[u] /\ retries'[u] = retries[u],
         \/ StatusOf(t) = "new" /\ StatusOf(t)' \in {"waiting", "rejected"}
            /\ AttemptsOf(t)' = AttemptsOf(t)
         \/ StatusOf(t) = "waiting" /\ StatusOf(t)' = "trying"
            /\ AttemptsOf(t) <= MaxRetries /\ AttemptsOf(t)' = AttemptsOf(t) + 1
         \/ StatusOf(t) = "trying" /\ StatusOf(t)' = "ok"
            /\ AttemptsOf(t)' = AttemptsOf(t)
         \/ StatusOf(t) = "trying" /\ StatusOf(t)' = "waiting"
            /\ AttemptsOf(t) <= MaxRetries /\ AttemptsOf(t)' = AttemptsOf(t)
         \/ StatusOf(t) = "trying" /\ StatusOf(t)' = "exhausted"
            /\ AttemptsOf(t) = MaxRetries + 1 /\ AttemptsOf(t)' = AttemptsOf(t)
  PROVE  Service!SvcNext
<1>1. /\ Status' = [Status EXCEPT ![t] = StatusOf(t)']
      /\ Attempts' = [Attempts EXCEPT ![t] = AttemptsOf(t)']
  BY OthersStay
<1>2. Status[t] = StatusOf(t) /\ Attempts[t] = AttemptsOf(t)
  BY DEF Status, Attempts
<1>3. ASSUME AttemptsOf(t)' = AttemptsOf(t)
      PROVE  UNCHANGED Attempts
  BY <1>1, <1>2, <1>3 DEF Attempts
<1>4. CASE /\ StatusOf(t) = "new" /\ StatusOf(t)' \in {"waiting", "rejected"}
           /\ AttemptsOf(t)' = AttemptsOf(t)
  <2>1. Service!Take(t) \/ Service!TurnAway(t)
    BY <1>1, <1>2, <1>3, <1>4
    DEF Service!Take, Service!TurnAway, Service!Move, Status, Attempts
  <2>2. QED BY <2>1 DEF Service!SvcNext
<1>5. CASE /\ StatusOf(t) = "waiting" /\ StatusOf(t)' = "trying"
           /\ AttemptsOf(t) <= MaxRetries /\ AttemptsOf(t)' = AttemptsOf(t) + 1
  <2>1. Service!Attempt(t)
    BY <1>1, <1>2, <1>5 DEF Service!Attempt, Service!Move, Status, Attempts
  <2>2. QED BY <2>1 DEF Service!SvcNext
<1>6. CASE /\ StatusOf(t) = "trying" /\ StatusOf(t)' = "ok"
           /\ AttemptsOf(t)' = AttemptsOf(t)
  <2>1. Service!Succeed(t)
    BY <1>1, <1>2, <1>3, <1>6 DEF Service!Succeed, Service!Move, Status, Attempts
  <2>2. QED BY <2>1 DEF Service!SvcNext
<1>7. CASE /\ StatusOf(t) = "trying" /\ StatusOf(t)' = "waiting"
           /\ AttemptsOf(t) <= MaxRetries /\ AttemptsOf(t)' = AttemptsOf(t)
  <2>1. Service!TryAgain(t)
    BY <1>1, <1>2, <1>3, <1>7 DEF Service!TryAgain, Service!Move, Status, Attempts
  <2>2. QED BY <2>1 DEF Service!SvcNext
<1>8. CASE /\ StatusOf(t) = "trying" /\ StatusOf(t)' = "exhausted"
           /\ AttemptsOf(t) = MaxRetries + 1 /\ AttemptsOf(t)' = AttemptsOf(t)
  <2>1. Service!GiveUp(t)
    BY <1>1, <1>2, <1>3, <1>8 DEF Service!GiveUp, Service!Move, Status, Attempts
  <2>2. QED BY <2>1 DEF Service!SvcNext
<1>9. QED BY <1>4, <1>5, <1>6, <1>7, <1>8

(* A step that changes one task's stage, from the code's side.             *)
LEMMA StageMoves ==
  ASSUME IInv, NEW t \in Tasks, NEW to, stage' = [stage EXCEPT ![t] = to]
  PROVE  /\ stage'[t] = to
         /\ \A u \in Tasks : u # t => stage'[u] = stage[u]
BY DEF IInv, TypeOK

LEMMA ServiceStep ==
  ASSUME IInv, Next
  PROVE  Service!SvcNext \/ UNCHANGED <<Status, Attempts>>
<1>1. ASSUME NEW t \in Tasks, Accept(t) PROVE Service!SvcNext
  <2>1. stage' = [stage EXCEPT ![t] = "queued"] /\ stage[t] = "new" /\ UNCHANGED retries
    BY <1>1 DEF Accept, Enqueue
  <2>2. /\ retries'[t] = retries[t]
        /\ \A u \in Tasks : u # t => stage'[u] = stage[u] /\ retries'[u] = retries[u]
    BY <2>1, StageMoves
  <2>3. stage'[t] = "queued" BY <2>1, StageMoves
  <2>4. /\ StatusOf(t) = "new" /\ StatusOf(t)' = "waiting"
        /\ AttemptsOf(t)' = AttemptsOf(t)
    BY <2>1, <2>2, <2>3, StatusIs, StatusBecomes
  <2>5. QED BY <2>2, <2>4, ServiceMove
<1>2. ASSUME NEW t \in Tasks, Reject(t) PROVE Service!SvcNext
  <2>1. stage' = [stage EXCEPT ![t] = "rejected"] /\ stage[t] = "new" /\ UNCHANGED retries
    BY <1>2 DEF Reject
  <2>2. /\ retries'[t] = retries[t]
        /\ \A u \in Tasks : u # t => stage'[u] = stage[u] /\ retries'[u] = retries[u]
    BY <2>1, StageMoves
  <2>3. stage'[t] = "rejected" BY <2>1, StageMoves
  <2>4. /\ StatusOf(t) = "new" /\ StatusOf(t)' = "rejected"
        /\ AttemptsOf(t)' = AttemptsOf(t)
    BY <2>1, <2>2, <2>3, StatusIs, StatusBecomes
  <2>5. QED BY <2>2, <2>4, ServiceMove
<1>3. ASSUME NEW t \in Tasks, DispatchStart(t) PROVE Service!SvcNext
  <2>1. stage' = [stage EXCEPT ![t] = "running"] /\ stage[t] = "chosen" /\ UNCHANGED retries
    BY <1>3 DEF DispatchStart
  <2>2. retries[t] <= MaxRetries BY PoolAssumption DEF IInv, TypeOK
  <2>3. /\ retries'[t] = retries[t]
        /\ \A u \in Tasks : u # t => stage'[u] = stage[u] /\ retries'[u] = retries[u]
    BY <2>1, StageMoves
  <2>4. stage'[t] = "running" BY <2>1, StageMoves
  <2>5. /\ StatusOf(t) = "waiting" /\ StatusOf(t)' = "trying"
        /\ AttemptsOf(t) <= MaxRetries /\ AttemptsOf(t)' = AttemptsOf(t) + 1
    BY <2>1, <2>2, <2>3, <2>4, StatusIs, StatusBecomes
  <2>6. QED BY <2>3, <2>5, ServiceMove
<1>4. ASSUME NEW t \in Tasks, Succeeded(t) PROVE Service!SvcNext
  <2>1. stage' = [stage EXCEPT ![t] = "ok"] /\ stage[t] = "running" /\ UNCHANGED retries
    BY <1>4 DEF Succeeded, Leave
  <2>2. /\ retries'[t] = retries[t]
        /\ \A u \in Tasks : u # t => stage'[u] = stage[u] /\ retries'[u] = retries[u]
    BY <2>1, StageMoves
  <2>3. stage'[t] = "ok" BY <2>1, StageMoves
  <2>4. /\ StatusOf(t) = "trying" /\ StatusOf(t)' = "ok"
        /\ AttemptsOf(t)' = AttemptsOf(t)
    BY <2>1, <2>2, <2>3, StatusIs, StatusBecomes
  <2>5. QED BY <2>2, <2>4, ServiceMove
<1>5. ASSUME NEW t \in Tasks, Failed(t) PROVE Service!SvcNext
  <2>1. stage' = [stage EXCEPT ![t] = "retrying"] /\ stage[t] = "running" /\ UNCHANGED retries
    BY <1>5 DEF Failed, Leave
  <2>2. retries[t] + 1 <= MaxRetries BY <1>5, PoolAssumption DEF Failed, IInv, TypeOK
  <2>3. /\ retries'[t] = retries[t]
        /\ \A u \in Tasks : u # t => stage'[u] = stage[u] /\ retries'[u] = retries[u]
    BY <2>1, StageMoves
  <2>4. stage'[t] = "retrying" BY <2>1, StageMoves
  <2>5. /\ StatusOf(t) = "trying" /\ StatusOf(t)' = "waiting"
        /\ AttemptsOf(t) <= MaxRetries /\ AttemptsOf(t)' = AttemptsOf(t)
    BY <2>1, <2>2, <2>3, <2>4, StatusIs, StatusBecomes
  <2>6. QED BY <2>3, <2>5, ServiceMove
<1>6. ASSUME NEW t \in Tasks, Exhausted(t) PROVE Service!SvcNext
  <2>1. stage' = [stage EXCEPT ![t] = "exhausted"] /\ stage[t] = "running" /\ UNCHANGED retries
    BY <1>6 DEF Exhausted, Leave
  <2>2. retries[t] = MaxRetries BY <1>6, PoolAssumption DEF Exhausted, IInv, TypeOK
  <2>3. /\ retries'[t] = retries[t]
        /\ \A u \in Tasks : u # t => stage'[u] = stage[u] /\ retries'[u] = retries[u]
    BY <2>1, StageMoves
  <2>4. stage'[t] = "exhausted" BY <2>1, StageMoves
  <2>5. /\ StatusOf(t) = "trying" /\ StatusOf(t)' = "exhausted"
        /\ AttemptsOf(t) = MaxRetries + 1 /\ AttemptsOf(t)' = AttemptsOf(t)
    BY <2>1, <2>2, <2>3, <2>4, StatusIs, StatusBecomes
  <2>6. QED BY <2>3, <2>5, ServiceMove
<1>7. ASSUME NEW t \in Tasks, Requeue(t) PROVE UNCHANGED <<Status, Attempts>>
  <2>1. /\ stage' = [stage EXCEPT ![t] = "queued"] /\ stage[t] = "retrying"
        /\ retries' = [retries EXCEPT ![t] = @ + 1]
    BY <1>7 DEF Requeue, Enqueue
  <2>2. /\ retries'[t] = retries[t] + 1
        /\ \A u \in Tasks : u # t => retries'[u] = retries[u]
    BY <2>1 DEF IInv, TypeOK
  <2>3. /\ stage'[t] = "queued"
        /\ \A u \in Tasks : u # t => stage'[u] = stage[u]
    BY <2>1, StageMoves
  <2>4. StatusOf(t)' = StatusOf(t) /\ AttemptsOf(t)' = AttemptsOf(t)
    BY <2>1, <2>2, <2>3, StatusIs, StatusBecomes
  <2>5. ASSUME NEW u \in Tasks, u # t
        PROVE  StatusOf(u)' = StatusOf(u) /\ AttemptsOf(u)' = AttemptsOf(u)
    <3>1. stage'[u] = stage[u] /\ retries'[u] = retries[u] BY <2>2, <2>3, <2>5
    <3>2. QED BY <3>1 DEF StatusOf, AttemptsOf
  <2>6. QED BY <2>4, <2>5, NobodyMoves
<1>8. ASSUME DispatchPick PROVE UNCHANGED <<Status, Attempts>>
  <2>1. queue \in Seq(Tasks) /\ queue # <<>> BY <1>8 DEF DispatchPick, IInv, TypeOK
  <2>2. PICK t \in Tasks : t = Head(queue) /\ t = queue[1] /\ 1 \in DOMAIN queue
    BY <2>1
  <2>3. stage' = [stage EXCEPT ![t] = "chosen"] /\ UNCHANGED retries
    BY <1>8, <2>2 DEF DispatchPick
  <2>4. stage[t] = "queued" BY <2>2 DEF IInv, TaskHeldOnce, IsIn
  <2>5. /\ stage'[t] = "chosen"
        /\ \A u \in Tasks : u # t => stage'[u] = stage[u]
    BY <2>2, <2>3, StageMoves
  <2>6. StatusOf(t)' = StatusOf(t) /\ AttemptsOf(t)' = AttemptsOf(t)
    BY <2>2, <2>3, <2>4, <2>5, StatusIs, StatusBecomes
  <2>7. ASSUME NEW u \in Tasks, u # t
        PROVE  StatusOf(u)' = StatusOf(u) /\ AttemptsOf(u)' = AttemptsOf(u)
    <3>1. stage'[u] = stage[u] /\ retries'[u] = retries[u] BY <2>3, <2>5, <2>7
    <3>2. QED BY <3>1 DEF StatusOf, AttemptsOf
  <2>8. QED BY <2>6, <2>7, NobodyMoves
<1>9. ASSUME DispatchIdle \/ DispatchBlocked \/ WakeBySignal \/ WakeByAgent \/ HealthTick
             \/ DrainScan \/ DrainRemove \/ DrainDone
      PROVE  UNCHANGED <<Status, Attempts>>
  <2>1. UNCHANGED <<stage, retries>>
    BY <1>9 DEF DispatchIdle, DispatchBlocked, Sleep, WakeBySignal, WakeByAgent,
                HealthTick, DrainScan, DrainRemove, DrainDone, taskVars
  <2>2. QED BY <2>1, TasksUntouched
<1>10. ASSUME NEW a \in Agents,
              Probe(a) \/ DrainDestroy(a) \/ AddAgent(a) \/ ShutdownAgent(a) \/ AgentCrash(a)
       PROVE  UNCHANGED <<Status, Attempts>>
  <2>1. UNCHANGED <<stage, retries>>
    BY <1>10 DEF Probe, ProbeAnswered, ProbeMissed, DrainDestroy, AddAgent,
                 ShutdownAgent, AgentCrash, taskVars
  <2>2. QED BY <2>1, TasksUntouched
<1>11. QED
  BY <1>1, <1>2, <1>3, <1>4, <1>5, <1>6, <1>7, <1>8, <1>9, <1>10
  DEF Next, Dispatch, Execute

(* The pool implements TaskService for any number of callers, any limits   *)
(* and any number of failures: a task is tried at most max_retries + 1     *)
(* times, one attempt at a time, and is answered MaxRetriesExceeded only   *)
(* when all of them have been used up.                                     *)
THEOREM PromiseKept == Spec => Promise
<1>1. Init => Service!SvcInit
  <2>1. SUFFICES ASSUME Init PROVE Service!SvcInit OBVIOUS
  <2>2. \A t \in Tasks : StatusOf(t) = "new" /\ AttemptsOf(t) = 0
    BY <2>1, StatusIs DEF Init
  <2>3. QED BY <2>2 DEF Service!SvcInit
<1>2. IInv /\ [Next]_vars => [Service!SvcNext]_(Service!svcVars)
  <2>1. SUFFICES ASSUME IInv, [Next]_vars
                 PROVE  Service!SvcNext \/ UNCHANGED <<Status, Attempts>>
    BY DEF Service!svcVars, Status, Attempts
  <2>2. CASE Next BY <2>1, <2>2, ServiceStep
  <2>3. CASE UNCHANGED vars
    <3>1. UNCHANGED <<stage, retries>> BY <2>3 DEF vars, taskVars
    <3>2. QED BY <3>1, TasksUntouched
  <2>4. QED BY <2>1, <2>2, <2>3
<1>3. Spec => []IInv BY IInvInit, IInvStep, PTL DEF Spec
<1>4. QED BY <1>1, <1>2, <1>3, PTL DEF Spec, Promise, Service!SvcSpec

=============================================================================
