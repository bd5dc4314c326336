SPECIFICATION Spec
CONSTANTS
    Queues = 2
    Batches = 2
    Into <- Shared
    Bytes <- Units
    Sourced = {}
    StagingOn = {1, 2}
    Window = 1
    HasDisk = TRUE
    Budgets = {1}
    MaxChanges = 1
    Predictions = {0}
    Polled = {}
    Policy = TRUE
    Faults = {}
    MaxFaults = 0
    MayCancel = FALSE
CHECK_DEADLOCK FALSE
INVARIANTS TypeOK HeldStays FullHasWork
PROPERTY NeverPastBudget
