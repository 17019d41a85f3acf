\* One event, a journey of two steps of which one calls a webhook, one fault, and an
\* automation that stays as it is.
SPECIFICATION Spec
CONSTANTS
    Relays = {p1}
    Workers = {w1, w2}
    None = None
    Steps = 2
    Webhooks = {1}
    MaxAttempts = 1
    MaxCopies = 1
    MaxFaults = 1
    MaxEdits = 0
SYMMETRY Sym
INVARIANTS TypeOK NothingLost SettledHappened
PROPERTIES JourneyRefined
CHECK_DEADLOCK FALSE
