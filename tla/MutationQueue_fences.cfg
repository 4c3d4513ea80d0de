SPECIFICATION Spec
CONSTANTS
    w1 = w1
    Workflows <- OneWorkflow
    MaxIntents = 3
    MaxRestarts = 1
    Kinds <- FenceKinds
    Priorities <- Both
    Forms <- Awaited
    QuickRestart = TRUE
INVARIANTS HardFenceClears FailureToldOnce OverlapIsSuperseded CallerHearsTheRecord
PROPERTIES RunsSerially
CHECK_DEADLOCK FALSE
