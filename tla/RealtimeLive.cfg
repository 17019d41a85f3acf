\* One event and a journey of one step under fairness; the automation is paused and
\* activated again.
SPECIFICATION FairSpec
CONSTANTS
    Relays = {p1}
    Workers = {w1}
    None = None
    Steps = 1
    Webhooks = {1}
    MaxAttempts = 1
    MaxCopies = 2
    MaxFaults = 1
    MaxEdits = 2
PROPERTIES EventuallyConsumed JourneyEnds
CHECK_DEADLOCK FALSE
