SPECIFICATION FairSpec
CONSTANTS
    p1 = p1
    Polls <- OnePoll
    SlotCount = 2
    MaxPr = 3
    MaxGen = 3
    MaxMoves = 2
INVARIANTS CompletedIsLanded
PROPERTIES ClosedForACause DecidedIsHeard
CHECK_DEADLOCK FALSE
