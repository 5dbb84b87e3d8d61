CONSTANTS
    Clients = {k1}
    MinuteLimit = 3
    BurstLimit = 2
    Minute = 6
    Second = 2
    MaxTime = 19
SPECIFICATION Spec
INVARIANT
    SlidingWindow
CHECK_DEADLOCK FALSE
