CONSTANTS
    Boards <- MCBoards
    StartsWith <- MCStartsWith
    Readers = {r1}
    Actors = {a1}
    Ttl = 0
    RequestTimeout = 2
    MaxEntries = 2
    MaxVersion = 1
    MaxTime = 3
SPECIFICATION FairSpec
INVARIANT
    CachingOff
PROPERTY
    EveryCallEnds
CHECK_DEADLOCK FALSE
