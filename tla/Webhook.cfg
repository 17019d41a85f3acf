\* One delivery, two workers; outcomes are written in time.
SPECIFICATION FairSpec
CONSTANTS
    Workers = {w1, w2}
    Deliveries = {d1}
    None = None
    MaxAttempts = 2
    Threshold = 2
    Window = 0
    RunMaxAge = 1
    MaxTime = 1
    MaxFaults = 1
    MaxStalls = 2
    MaxEdits = 1
    Prompt = TRUE
INVARIANTS TypeOK NoOverlap DuplicatesNeedFaults
PROPERTIES DeliveredStays EventuallySettled
CHECK_DEADLOCK FALSE
