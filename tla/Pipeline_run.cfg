SPECIFICATION SupervisedSpec
CONSTANTS
  Submissions = {s1, s2}
  Verdicts = {accepted, wrong}
  NoVerdict = NoVerdict
  Nobody = Nobody
  MaxFaults = 3
INVARIANTS
  TypeOK
  NothingLost
  RefusedNeverJudged
PROPERTIES
  QueuedIsJudged
  AckedVerdictStands
CHECK_DEADLOCK FALSE
