SPECIFICATION FairSpec
CONSTANTS
    t1 = t1
    t2 = t2
    Tasks <- OneTask
    MaxAttempt = 3
    MaxConcurrency = 1
    MaxTries = 2
    MaxStuck = 1
    AgeCutoff = TRUE
    Faults <- NoStalls
PROPERTIES LaunchSettles UnownedRunEnds
