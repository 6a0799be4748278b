SPECIFICATION QFairSpec
CONSTANTS
    Jobs = {j1}
    Workers = {w1, w2}
    NoJob = NoJob
    NoWorker = NoWorker
    MaxOutages = 1
    MaxFaults = 1
    MaxReady = 1
INVARIANTS InflightTracked ExclusiveProcessing
PROPERTIES OwnerKeepsLock InflightServed
