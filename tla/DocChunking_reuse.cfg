CONSTANTS
    Task <- MCTask
    Worker = {w1}
    NoTask = NoTask
    NoCount = NoCount
    Disjoint = TRUE
    Api = {a1}
    Server = Server
    MaxRuns = 3
    Parts = 2
    Blank = {}
    Requests = {"rerun", "parse"}
    SameConfig = TRUE
    Faulty = TRUE
    MaxCrashes = 0
    ApiFails = TRUE
CHECK_DEADLOCK FALSE
SPECIFICATION Spec
SYMMETRY WorkerSymmetry
INVARIANTS
    DoneMeansStored
    
    PipelineInv
