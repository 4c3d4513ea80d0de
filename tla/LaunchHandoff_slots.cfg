SPECIFICATION Spec
CONSTANTS
    t1 = t1
    t2 = t2
    Tasks <- TwoTasks
    MaxAttempt = 2
    MaxConcurrency = 1
    MaxTries = 2
    MaxStuck = 1
    AgeCutoff = TRUE
    Faults <- NoFaults
SYMMETRY TaskSymmetry
INVARIANTS SlotsRespected
