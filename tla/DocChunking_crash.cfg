CONSTANTS
    Task <- MCTask
    Worker = {w1}
    NoTask = NoTask
    NoCount = NoCount
    Disjoint = TRUE
    Api = {a1}
    Server = Server
    MaxRuns = 1
    Parts = 2
    Blank = {}
    Requests = {"chunks", "cancel"}
    SameConfig = TRUE
    Faulty = FALSE
    MaxCrashes = 4
    ApiFails = FALSE
CHECK_DEADLOCK FALSE
SPECIFICATION Spec
SYMMETRY WorkerSymmetry
INVARIANTS
    NothingForgotten
    LastTaskOnly
    TriesAreCrashes
PROPERTIES
    CounterImplemented
