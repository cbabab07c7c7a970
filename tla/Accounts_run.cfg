SPECIFICATION Spec
CONSTANTS
  Requests = {r1, r2, r3, r4}
  Names = {n1, n2}
  Emails = {e1, e2}
  Nothing = Nothing
  RefreshTtl = 1
  AccessTtl = 0
  Leeway = 1
  MaxTime = 2
  MaxGrants = 2
  MaxFaults = 1
SYMMETRY AccountsSymmetry
INVARIANTS
  TypeOK
  RegistrationTold
  LogoutHolds
  RefusalsHaveCause
CHECK_DEADLOCK FALSE
