SPECIFICATION Spec
CONSTANTS
    Queues = 1
    Batches = 3
    Into <- OneQueue
    Bytes <- Uneven
    Sourced = {}
    StagingOn = {1}
    Window = 1
    HasDisk = TRUE
    Budgets = {3}
    MaxChanges = 0
    Predictions = {0}
    Polled = {}
    Policy = FALSE
    Faults = {}
    MaxFaults = 0
    MayCancel = FALSE
CHECK_DEADLOCK FALSE
INVARIANT StalledRunHasNoRoom
