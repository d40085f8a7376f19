\* A job, live or not, whose worker is started again and again; the source of a
\* job that is not live may be silent twice as long, the output of a live one
\* three ticks.
CONSTANTS
    Threshold = 2
    NonliveThreshold = 4
    OutputThreshold = 3
    StartTicks = 2
    MaxStarts = 3
SPECIFICATION HCSpec
PROPERTIES
    KilledForReason
    StalledReplaced
    UnsyncedReplaced
