CONSTANTS
    Task <- MCTask
    Worker = {w1, w2}
    NoTask = NoTask
    NoCount = NoCount
    Disjoint = TRUE
    Api = {a1}
    Server = Server
    MaxRuns = 2
    Parts = 2
    Blank = {}
    Requests = {"rerun", "parse", "stop"}
    SameConfig = FALSE
    Faulty = FALSE
    MaxCrashes = 0
    ApiFails = FALSE
CHECK_DEADLOCK FALSE
SPECIFICATION Spec
SYMMETRY WorkerSymmetry
INVARIANTS
    AtMostOneLast
    DoneMeansStored
    DoneMeansFinalized
    StoppedIsEmpty
