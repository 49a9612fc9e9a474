CONSTANTS
    Task <- MCTask
    Worker = {w1, w2}
    NoTask = NoTask
    NoCount = NoCount
    Disjoint = TRUE
    Api = {a1}
    Server = Server
    MaxRuns = 2
    Parts = 2
    Blank = {2}
    Requests = {"rerun", "parse"}
    SameConfig = FALSE
    Faulty = FALSE
    MaxCrashes = 1
    ApiFails = FALSE
CHECK_DEADLOCK FALSE
SPECIFICATION LiveSpec
INVARIANTS
    StoredIsListed
PROPERTIES
    TasksSettle
    ProgressEnds
