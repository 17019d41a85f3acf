\* A broadcast or recurring task under every request, with fairness; writes may be late.
SPECIFICATION FairSpec
CONSTANTS
  MaxExecs = 2
  MaxCursor = 0
  MaxRetries = 1
  MaxRequests = 2
  Prompt = FALSE
PROPERTIES StaleRunningReaped
CHECK_DEADLOCK FALSE
