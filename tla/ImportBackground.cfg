\* The task alone, no faults.
SPECIFICATION FairSpec
CONSTANTS
    Users = {}
    Worker = Worker
    None = None
    Lines = 2
    Kinds = {"good"}
    ChunkSize = 2
    MaxRetries = 2
    MaxCalls = 0
    MaxFaults = 0
PROPERTIES BackgroundJobEnds
CHECK_DEADLOCK FALSE
