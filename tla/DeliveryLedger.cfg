\* One broadcast e-mail, two tries, three claims that may overlap, under fairness.
SPECIFICATION FairSpec
CONSTANTS
  Entries = {e}
  Ledgered = {e}
  MaxAttempts = 2
  MaxClaims = 3
INVARIANTS TypeOK LedgerInv AtMostOnce
PROPERTIES NoBlindResend EffectSpec CrashRecovery
CHECK_DEADLOCK FALSE
