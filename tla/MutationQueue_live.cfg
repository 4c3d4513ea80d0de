SPECIFICATION FairSpec
CONSTANTS
    w1 = w1
    Workflows <- OneWorkflow
    MaxIntents = 2
    MaxRestarts = 1
    Kinds <- LiveKinds
    Priorities <- Normal
    Forms <- EveryForm
    QuickRestart = FALSE
PROPERTIES IntentsEnd CallersAnswered
CHECK_DEADLOCK FALSE
