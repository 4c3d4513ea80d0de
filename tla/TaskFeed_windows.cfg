SPECIFICATION LiveSpec
CONSTANTS
    t1 = t1
    Tasks <- OneTask
    Modes <- Windows
    MaxWrites = 3
    MaxFailures = 1
    Polled <- OneTask
INVARIANTS CacheIsWhole ShownIsWhole WatermarkIsShown
PROPERTIES ResyncEnds
CHECK_DEADLOCK FALSE
