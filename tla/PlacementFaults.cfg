SPECIFICATION Spec
CONSTANTS
    Queues = 1
    Batches = 2
    Into <- OneQueue
    Bytes <- Units
    Sourced = {1}
    StagingOn = {1}
    Window = 1
    HasDisk = TRUE
    Budgets = {1, 2}
    MaxChanges = 1
    Predictions = {0, 1}
    Polled = {}
    Policy = TRUE
    Faults = {"bound", "submit", "io", "decode"}
    MaxFaults = 2
    MayCancel = TRUE
CHECK_DEADLOCK FALSE
INVARIANTS ReservationsBacked OneMove
PROPERTY NeverPastBudget
