CONSTANTS
    Client = {c1, c2}
    NoOne = NoOne
    TtlCovers = FALSE
    Doc = {d1, d2}
    Summary = {s1, s2}
    NoLine = NoLine
    MaxDocs = 1
    StoreFails = TRUE
    RedisFails = TRUE
    Crashes = TRUE
CHECK_DEADLOCK FALSE
SPECIFICATION LiveSpec
INVARIANTS
    NoInterleaving
PROPERTIES
    NavRefined
    LostOnlyToTtl
    CallsEnd
    
