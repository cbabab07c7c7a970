SPECIFICATION RestartedSpec
CONSTANTS
  Agents = {a1, a2}
  MaxFaults = 2
INVARIANTS
  TypeOK
  FleetIsWhole
PROPERTIES
  ShutdownEnds
  DeadIsRemoved
