CONSTANTS
    Clients = {k1}
    MinuteLimit = 3
    BurstLimit = 2
    Minute = 6
    Second = 2
    MaxTime = 19
SPECIFICATION Spec
INVARIANTS
    TypeOK
    MinuteBound
    BurstBound
    RetryAfterHonest
    DormantForgotten
PROPERTIES
    RefusalsDeserved
    ImplementsFixedWindow
CHECK_DEADLOCK FALSE
