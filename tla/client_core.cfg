CONSTANTS
    Boards <- MCBoards
    StartsWith <- MCStartsWith
    Readers = {r1, r2}
    Actors = {a1}
    Ttl = 2
    RequestTimeout = 1
    MaxEntries = 2
    MaxVersion = 1
    MaxTime = 3
SYMMETRY Symmetry
SPECIFICATION Spec
INVARIANTS
    TypeOK
    StalenessBounded
    AckedActionsVisible
CHECK_DEADLOCK FALSE
