SPECIFICATION Spec
CONSTANTS
    a = a
    b = b
    w = w
    t1 = t1
    t2 = t2
    x1 = x1
    Stores <- Pair
    Workflow = w
    Tasks <- OneTask
    Attempts <- OneAttempt
    TaskOf <- Belongs
    TaskRows <- FreshRows
    AttemptRows <- LaunchRows
    Kept <- KeptFresh
    MaxWrites = 4
    MaxWire = 2
    Deletes = TRUE
    Prunes = TRUE
SYMMETRY StoreSymmetry
INVARIANTS NothingIsForgotten BatchesApply
PROPERTIES DeletionStands
CHECK_DEADLOCK FALSE
