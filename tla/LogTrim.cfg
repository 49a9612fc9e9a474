CONSTANTS
    Worker = {w1, w2}
    NoWorker = NoWorker
    Limit = 2
    Threshold = 3
    Guarded = FALSE
    MaxLogs = 6
    MaxTime = 3
CHECK_DEADLOCK FALSE
SPECIFICATION LiveSpec
INVARIANTS
    NewestKept
PROPERTIES
    AdvisoryLockFreed
