CONSTANTS
    Item = {i1, i2}
    Turn <- MCTurn
    PushKinds = {"preempt"}
    StopKinds = {"idle"}
    CtxCancels = FALSE
CHECK_DEADLOCK FALSE
SPECIFICATION LiveSpec
INVARIANTS
    EndHasCause
PROPERTIES
    AcksClose
    LoopEnds
