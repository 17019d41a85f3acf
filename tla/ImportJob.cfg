\* Two lines of every kind in chunks of one; two requests beside the task.
SPECIFICATION FairSpec
CONSTANTS
    Users = {u1, u2}
    Worker = Worker
    None = None
    Lines = 2
    Kinds = {"good", "unmappable", "malformed"}
    ChunkSize = 1
    MaxRetries = 3
    MaxCalls = 2
    MaxFaults = 1
INVARIANTS TypeOK CountersAgree CompletedMeansDone ImportedOnce OutcomeTrue
PROPERTIES OutcomeStays QueuedRowsEnd
CHECK_DEADLOCK FALSE
