SPECIFICATION MainSpec
CONSTANTS
  MaxRetries = 1
  MaxProbeFaults = 0
  Nil = Nil
CHECK_DEADLOCK FALSE
INVARIANTS
  ControlCHandled
