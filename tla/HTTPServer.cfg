SPECIFICATION Spec
CONSTANTS
    Slots = {s1, s2}
    MaxThreads = 2
    Horizon = 1
CHECK_DEADLOCK FALSE
INVARIANT OneOwner
PROPERTIES StrandedByKeyClash HangupKept RequestEnds ImplementsProtocol
