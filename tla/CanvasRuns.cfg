CONSTANTS
    Run = {r1, r2, r3}
    NoRun = NoRun
    Canvas = {c}
    Session = {s1, s2}
CHECK_DEADLOCK FALSE
SPECIFICATION Spec
SYMMETRY CanvasSymmetry
INVARIANTS
    OneLiveRun
    ResumedOnce
    
    TurnsKept
