CONSTANTS
    Item = {i1, i2}
    Turn <- MCTurn
    PushKinds = {"plain", "preempt", "delay", "strategy"}
    StopKinds = {"cancel"}
    CtxCancels = TRUE
CHECK_DEADLOCK FALSE
SPECIFICATION Spec
SYMMETRY ItemSymmetry
INVARIANTS
    AcksInOnePlace
    PreemptIsTargeted
    KeptInOrder
