SPECIFICATION FairSpec
CONSTANTS
  Conns = {c1, c2}
  Clients = {ip}
  Paths <- MCPaths
  Claiming <- MCClaiming
  Tables <- MCTables
  Healthz <- PathH
  MaxConnections = 1
  PerSec = 1
  IdleSecs = 2
  NoConn = NoConn
  NoToken = NoToken
  Claimed = Claimed
  MaxRotations = 1
  MaxRequests = 2
INVARIANTS
  TypeOK
  AllowanceHeld
  ForwardedAsConfigured
PROPERTIES
  KeysCatchUp
CHECK_DEADLOCK FALSE
