SPECIFICATION LiveSpec
CONSTANTS
    p1 = p1
    p2 = p2
    Pids <- TwoPids
    Kinds <- AllKinds
    MaxTries = 2
    MaxLives = 3
    MaxCrashes = 2
INVARIANTS ExclusiveAlone
PROPERTIES AloneSucceeds
CHECK_DEADLOCK FALSE
