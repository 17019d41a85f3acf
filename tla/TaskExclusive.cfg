\* A task that only the scheduler touches; final writes are prompt.
SPECIFICATION Spec
CONSTANTS
  MaxExecs = 2
  MaxCursor = 2
  MaxRetries = 1
  MaxRequests = 0
  Prompt = TRUE
INVARIANTS TypeOK Exclusive GivenUpIsEarned
PROPERTIES ProgressKept
CHECK_DEADLOCK FALSE
