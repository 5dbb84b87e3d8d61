CONSTANTS
    Boards <- MCBoards
    StartsWith <- MCStartsWith
    Readers = {r1}
    Actors = {a1}
    Ttl = 2
    RequestTimeout = 1
    MaxEntries = 2
    MaxVersion = 1
    MaxTime = 2
SPECIFICATION Spec
PROPERTY
    NoStaleAtActionEnd
CHECK_DEADLOCK FALSE
