CONSTANTS
    Capacity = 2
CHECK_DEADLOCK FALSE
SPECIFICATION FairSpec
INVARIANTS
    ClosedWithDone
PROPERTIES
    DoneIsLast
    Served
    WorkerEnds
