SPECIFICATION FairSpec
CONSTANTS
    Window = 2
    Stall = 2
    FailSpan = 2
    FailLimit = 2
    QueueLimit = 2
    LossDen = 2
    Wrap = 1000
    MaxTime = 5
    MaxCount = 1
    MaxFails = 2
INVARIANTS
    TypeOK
    WindowIsTight
PROPERTIES
    StallAlarmIsTrue
    StallIsFatal
