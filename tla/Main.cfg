SPECIFICATION FairMainSpec
CONSTANTS
  MaxRetries = 1
  MaxProbeFaults = 2
  Nil = Nil
CHECK_DEADLOCK FALSE
INVARIANTS
  MainTypeOK
  NilOnlyIfBroken
  ConfigOfSearch
  StrategyFitsMaster
  StopsAsAsked
PROPERTIES
  EndsEventually
