SPECIFICATION ScalerFairSpec
CONSTANTS
  Slots = {a1, a2, a3}
  NoAgent = NoAgent
  MinAgents = 1
  MaxAgents = 1
  Capacity = 1
  Batch = 1
  ConfirmTicks = 1
  UpCooldown = 2
  DownCooldown = 2
  LowPct = 60
  MaxAdopted = 1
  ProvisionTicks = 2
  DrainTicks = 1
  MaxQueue = 2
  MaxBuffer = 1
INVARIANTS
  OvershootBounded
PROPERTIES
  FullQueueMoves
  ScaleDownKeepsMin
