SPECIFICATION LiveSpec
CONSTANTS
    a = a
    b = b
    c = c
    m = m
    Tasks = {a, b, c, m}
    Deps <- Chain
    Gated <- ApprovedTasks
    Merge <- Gate
    Hooked <- Gate
    MaxConcurrency = 2
    MaxMoves = 3
CHECK_DEADLOCK FALSE
INVARIANTS InputsStand SkippedHasReason SessionsReturn
PROPERTIES FinishedWorkStands ReadyIsLaunched
