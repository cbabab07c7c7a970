SPECIFICATION Spec
CONSTANTS
  Tasks = {t1, t2, t3}
  Agents = {a1}
  NoAgent = NoAgent
  MaxQueue = 2
  MaxRetries = 1
  MaxConcurrent = 2
  FailureThreshold = 2
  MinAgents = 0
  MaxFaults = 2
  MaxScaleDowns = 1
SYMMETRY PoolSymmetry
INVARIANTS
  TypeOK
  TasksAccounted
  NoLostWakeup
  FirstTriesBounded
  DrainedLosesAtMostOne
