SPECIFICATION PFairSpec
CONSTANTS
    Jobs = {j1}
    Workers = {w1, w2}
    NoJob = NoJob
    NoWorker = NoWorker
    Hold <- MCHold
    Outputs <- MCOutputs
    InitialBalance = 2
    OtherFrozen = 2
    MaxCost = 0
    MaxSpend = 0
    MaxReady = 0
    MaxRetries = 2
    MaxCalls = 2
    MaxOutages = 0
    MaxFaults = 2
    EarlyCancel = FALSE
    ApiFaults = FALSE
    CommitLoss = FALSE
INVARIANTS ChargedOnlyIfCompleted NoStrandedHold
PROPERTIES LegalTransitions HoldContract QueuedJobEnds
CHECK_DEADLOCK FALSE
