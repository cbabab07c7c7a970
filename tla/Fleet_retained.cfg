SPECIFICATION RestartedSpec
CONSTANTS
  Agents = {a1}
  MaxFaults = 0
PROPERTY RetainedIsRemoved
