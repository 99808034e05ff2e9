SPECIFICATION FairSpec
CONSTANTS
    j1 = j1
    j2 = j2
    w1 = w1
    w2 = w2
    Job <- TwoJobs
    Garbled <- GarbledJob
    Worker <- TwoWorkers
    Concurrency = 2
    MaxRetries = 2
INVARIANTS
    SlotAccounting
    OnePlace
    RetryBudget
    BoundedLoss
PROPERTIES
    StopsOnCancel
    EveryJobSettles
