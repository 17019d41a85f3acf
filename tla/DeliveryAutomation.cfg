\* One automation e-mail: a queue row without a ledger.
SPECIFICATION Spec
CONSTANTS
  Entries = {e}
  Ledgered = {}
  MaxAttempts = 3
  MaxClaims = 4
PROPERTIES CompletedRowStays
CHECK_DEADLOCK FALSE
