SPECIFICATION FairSpec
CONSTANTS
  good = good
  stopper = stopper
  broken = broken
  Handlers = {h1, h2}
  Tasks = {good, stopper, broken}
  Compiles = {good, stopper}
  StopOnFirst = {stopper}
  Answers <- MCAnswers
  NoTask = NoTask
  BatchMax = 2
  MaxFrame = 2
  MaxFaults = 1
INVARIANTS
  TypeOK
  OutcomeIsOwn
  NothingLeft
PROPERTY
  DrainEnds
CHECK_DEADLOCK FALSE
