\* An A/B test with an automatic winner, one request, under fairness.
SPECIFICATION FairSpec
CONSTANTS
  MaxAudience = 2
  Percent = 50
  BatchSize = 2
  MaxRetries = 1
  MaxOps = 1
  MaxFaults = 0
  Testing = TRUE
  AutoWinner = TRUE
  Serial = TRUE
INVARIANTS NoneSkipped
PROPERTIES CancelDrains PauseDrains
CHECK_DEADLOCK FALSE
