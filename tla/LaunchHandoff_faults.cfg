SPECIFICATION Spec
CONSTANTS
    t1 = t1
    t2 = t2
    Tasks <- OneTask
    MaxAttempt = 3
    MaxConcurrency = 1
    MaxTries = 2
    MaxStuck = 1
    AgeCutoff = FALSE
    Faults <- AllFaults
INVARIANTS OnlySelectedActive RunningIsOwned ClaimedIsRecoverable
PROPERTIES OutcomesAreFinal AcceptedNeverRequeued StuckBudgetStops EndIsHeard EndedRevivedOnlyByRetry
