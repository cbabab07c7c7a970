SPECIFICATION FairSpec
CONSTANTS
  InputSize = 1
  Expected <- MCExpected
  OutputLimit = 2
  PipeSize = 1
  MaxWrites = 4
  MaxFaults = 1
INVARIANTS
  TypeOK
  VerdictJustified
  NobodyLeft
PROPERTY CaseEnds
