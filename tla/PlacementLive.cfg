SPECIFICATION FairSpec
CONSTANTS
    Queues = 1
    Batches = 3
    Into <- OneQueue
    Bytes <- Uneven
    Sourced = {1}
    StagingOn = {1}
    Window = 1
    HasDisk = TRUE
    Budgets = {3}
    MaxChanges = 0
    Predictions = {0}
    Polled = {1}
    Policy = FALSE
    Faults = {"bound"}
    MaxFaults = 1
    MayCancel = FALSE
CHECK_DEADLOCK FALSE
PROPERTY Drains
