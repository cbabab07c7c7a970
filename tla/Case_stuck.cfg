SPECIFICATION FairSpec
CONSTANTS
  InputSize = 2
  Expected <- MCExpected
  OutputLimit = 2
  PipeSize = 1
  MaxWrites = 2
  MaxFaults = 0
PROPERTY CaseEnds
