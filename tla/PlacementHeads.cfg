SPECIFICATION FairSpec
CONSTANTS
    Queues = 2
    Batches = 2
    Into <- Apart
    Bytes <- Units
    Sourced = {}
    StagingOn = {1, 2}
    Window = 1
    HasDisk = TRUE
    Budgets = {1}
    MaxChanges = 0
    Predictions = {0}
    Polled = {1, 2}
    Policy = FALSE
    Faults = {}
    MaxFaults = 0
    MayCancel = FALSE
CHECK_DEADLOCK FALSE
PROPERTY Drains
