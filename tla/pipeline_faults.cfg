SPECIFICATION PSpec
CONSTANTS
    Jobs = {j1}
    Workers = {w1, w2}
    NoJob = NoJob
    NoWorker = NoWorker
    Hold <- MCHold
    Outputs <- MCOutputs
    InitialBalance = 2
    OtherFrozen = 2
    MaxCost = 0
    MaxSpend = 0
    MaxReady = 0
    MaxRetries = 2
    MaxCalls = 1
    MaxOutages = 1
    MaxFaults = 1
    EarlyCancel = TRUE
    ApiFaults = TRUE
    CommitLoss = TRUE
SYMMETRY MCSymmetry
INVARIANTS LiveJobsFunded CompletedCharged NoOrphanUpstream
CHECK_DEADLOCK FALSE
