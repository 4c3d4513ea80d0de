SPECIFICATION BusLiveSpec
CONSTANTS
    p1 = p1
    p2 = p2
    v1 = v1
    NoProc = NoProc
    Dead = Dead
    Absent = Absent
    Procs <- TwoProcs
    Viewers <- OneViewer
    FailuresBeforeReserve = 2
    ProbesFirst = TRUE
    MaxStarts = 5
    MaxCrashes = 2
    MaxErasures = 2
PROPERTIES HolderIsFound
CHECK_DEADLOCK FALSE
