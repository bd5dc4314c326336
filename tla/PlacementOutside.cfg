SPECIFICATION Spec
CONSTANTS
    Queues = 1
    Batches = 3
    Into <- OneQueue
    Bytes <- Units
    Sourced = {1}
    StagingOn = {1}
    Window = 1
    HasDisk = TRUE
    Budgets = {2}
    MaxChanges = 0
    Predictions = {0}
    Polled = {}
    Policy = FALSE
    Faults = {"bound"}
    MaxFaults = 1
    MayCancel = FALSE
CHECK_DEADLOCK FALSE
INVARIANT MemoryIsCounted
