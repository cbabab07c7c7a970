SPECIFICATION FairSpec
CONSTANTS
  Tasks = {t1}
  Agents = {a1, a2}
  NoAgent = NoAgent
  MaxQueue = 1
  MaxRetries = 1
  MaxConcurrent = 1
  FailureThreshold = 2
  MinAgents = 1
  MaxFaults = 1
  MaxScaleDowns = 1
PROPERTIES
  Promise
  EveryTaskAnswered
  AgentsLeave
