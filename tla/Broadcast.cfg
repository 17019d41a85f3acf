\* One broadcast without a test, two requests one after another, one fault.
SPECIFICATION Spec
CONSTANTS
  MaxAudience = 2
  Percent = 50
  BatchSize = 2
  MaxRetries = 1
  MaxOps = 2
  MaxFaults = 1
  Testing = FALSE
  AutoWinner = FALSE
  Serial = TRUE
INVARIANTS TypeOK NoneSkipped OneEmailEach
PROPERTIES CancelIsFinal
CHECK_DEADLOCK FALSE
