SPECIFICATION Spec
CONSTANTS
    Tid = {1, 2}
    Root = 1
    RingLimit = 2
    QueueLimit = 2
    MaxGen = 3
    MaxExecs = 1
    MaxCalls = 2
INVARIANTS
    TypeOK
    OnlyTargetsReport
    EventsAreAccounted
    TableFollowsProc
    
    
CHECK_DEADLOCK
    FALSE
