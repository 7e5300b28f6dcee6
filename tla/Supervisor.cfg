SPECIFICATION Spec
CONSTANTS
    Child = c
    Desc = {d1, d2}
    MaxAttempts = 2
    MaxSignals = 2
INVARIANTS
    TypeOK
    TrackedBeforeExec
    
    ReturnIsTargets
PROPERTIES
    BarrierEnds
    TermEndsRun
CHECK_DEADLOCK
    FALSE
