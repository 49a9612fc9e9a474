CONSTANTS
    Id = {t1}
    User = {u1, u2}
    Msg = {m1, m2}
    Ingestor = {i1}
    None = None
    MaxDeliver = 2
    Slots = 1
    Workers = 1
CHECK_DEADLOCK FALSE
SPECIFICATION FairSpec
INVARIANTS
    
    WorkedOnOnce

    
