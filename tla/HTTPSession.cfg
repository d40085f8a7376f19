SPECIFICATION Spec
CONSTANTS
    Slots = {s1, s2}
    Jobs = {j1, j2}
    None = None
    Wild = Wild
    MaxAge = 1
    MaxRequests = 2
CHECK_DEADLOCK FALSE
INVARIANTS RefsCover PrivMatchesSession
PROPERTIES GivenBackOnce StalePlayEnds
