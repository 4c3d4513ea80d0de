SPECIFICATION LiveSpec
CONSTANTS
    t1 = t1
    t2 = t2
    Tasks <- OneTask
    Budget = 2
    FailureClasses <- AnyClass
    MaxFailures = 4
    MaxRestarts = 1
    MaxRefusals = 1
    MaxHelp = 1
INVARIANTS RequeuesWithinBudget AskedOncePerFailure
PROPERTIES ParkedIsLeftToAPerson StalledIsHandled
CHECK_DEADLOCK FALSE
