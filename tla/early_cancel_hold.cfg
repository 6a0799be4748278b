SPECIFICATION PSpec
CONSTANTS
    Jobs = {j1}
    Workers = {w1}
    NoJob = NoJob
    NoWorker = NoWorker
    Hold <- MCHold
    Outputs <- MCOutputs
    InitialBalance = 2
    OtherFrozen = 2
    MaxCost = 0
    MaxSpend = 0
    MaxReady = 0
    MaxRetries = 2
    MaxCalls = 1
    MaxOutages = 0
    MaxFaults = 0
    EarlyCancel = TRUE
    ApiFaults = FALSE
    CommitLoss = FALSE
SYMMETRY MCSymmetry
INVARIANT NoStrandedHold
CHECK_DEADLOCK FALSE
