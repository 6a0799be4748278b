SPECIFICATION LSpec
CONSTANTS
    j1 = j1
    j2 = j2
    Jobs = {j1, j2}
    Hold <- MCHold
    InitialBalance = 3
    OtherFrozen = 2
    MaxCost = 2
    MaxSpend = 6
INVARIANTS MoneyConserved NoPhantomRelease 
