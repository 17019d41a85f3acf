\* A reply while a step of the journey is being committed; the stated promise is broken.
SPECIFICATION Spec
CONSTANTS
    Relays = {p1}
    Workers = {w1, w2}
    None = None
    Steps = 2
    Webhooks = {1}
    MaxAttempts = 1
    MaxCopies = 1
    MaxFaults = 0
    MaxEdits = 1
SYMMETRY Sym
PROPERTY ExitIsFinal
CHECK_DEADLOCK FALSE
