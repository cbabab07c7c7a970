----------------------------- MODULE TaskService -----------------------------
(***************************************************************************)
(* What the judge core manager promises the callers of AgentPool::submit,  *)
(* without agents, queues or loops: a task is turned away at once or is    *)
(* taken; a task that was taken is tried at most MaxRetries + 1 times, one *)
(* attempt at a time, and is answered with a verdict or, only once every   *)
(* attempt has been used up, with MaxRetriesExceeded.                      *)
(***************************************************************************)
EXTENDS Naturals

CONSTANTS
  Tasks,       \* the calls of submit
  MaxRetries   \* PoolConfig::max_retries

VARIABLES
  status,      \* where each call stands
  attempts     \* executions of the task that have been started

svcVars == <<status, attempts>>

SvcInit ==
  /\ status = [t \in Tasks |-> "new"]
  /\ attempts = [t \in Tasks |-> 0]

Move(t, from, to) ==
  /\ status[t] = from
  /\ status' = [status EXCEPT ![t] = to]

Take(t)     == Move(t, "new", "waiting") /\ UNCHANGED attempts
TurnAway(t) == Move(t, "new", "rejected") /\ UNCHANGED attempts

Attempt(t) ==
  /\ Move(t, "waiting", "trying")
  /\ attempts[t] <= MaxRetries
  /\ attempts' = [attempts EXCEPT ![t] = @ + 1]

Succeed(t) == Move(t, "trying", "ok") /\ UNCHANGED attempts

TryAgain(t) ==
  /\ Move(t, "trying", "waiting")
  /\ attempts[t] <= MaxRetries
  /\ UNCHANGED attempts

GiveUp(t) ==
  /\ Move(t, "trying", "exhausted")
  /\ attempts[t] = MaxRetries + 1
  /\ UNCHANGED attempts

SvcNext ==
  \E t \in Tasks :
    \/ Take(t) \/ TurnAway(t)
    \/ Attempt(t)
    \/ Succeed(t) \/ TryAgain(t) \/ GiveUp(t)

SvcSpec == SvcInit /\ [][SvcNext]_svcVars
=============================================================================
