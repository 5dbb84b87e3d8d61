CONSTANTS
    Clients = {k1}
    MinuteLimit = 1
    BurstLimit = 1
    Minute = 2
    Second = 1
    MaxTime = 3
    Requests = {r1, r2}
    MaxLost = 1
SPECIFICATION FairSpec
INVARIANTS
    TypeOK
    BooksBalance
    UpstreamBounded
    ToolCallsCounted
PROPERTY
    EveryRequestEnds
CHECK_DEADLOCK FALSE
