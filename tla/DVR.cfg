SPECIFICATION Spec
CONSTANTS
    Hour = 5
    Duration = 2
    WindowSize = 2
    DvrDuration = 5
    CleanPeriod = 3
    RingSegments = 1
    MaxAhead = 1
    MaxQueue = 1
    Start = 13
    End = 23
CHECK_DEADLOCK FALSE
INVARIANTS TimeshiftPlays SpanPlays
PROPERTY ExpiredRemoved
