CONSTANTS
    Doc = {d1, d2}
    Kb = {k1}
    User = {u1}
    Cursor = TRUE
    Prunes = TRUE
    Requests = {"link", "unlink", "stop", "resume", "remove", "rebuild"}
    BatchFails = TRUE
    TaskFails = TRUE
    AllDue = TRUE
    KeepLogs = 2
    DropLogs = 2
    MaxTime = 2
    MaxEvents = 2

SPECIFICATION Spec
SYMMETRY DocSymmetry
 
PROPERTY UpToDateStays
\* Nothing is due, and no one asks for anything.
CHECK_DEADLOCK FALSE
