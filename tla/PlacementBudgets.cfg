SPECIFICATION Spec
CONSTANTS
    Queues = 1
    Batches = 3
    Into <- OneQueue
    Bytes <- Uneven
    Sourced = {1}
    StagingOn = {}
    Window = 1
    HasDisk = TRUE
    Budgets = {2, 3}
    MaxChanges = 1
    Predictions = {0, 1}
    Polled = {}
    Policy = FALSE
    Faults = {}
    MaxFaults = 0
    MayCancel = FALSE
CHECK_DEADLOCK FALSE
INVARIANTS TypeOK ReservationsBacked
PROPERTY NeverPastBudget
