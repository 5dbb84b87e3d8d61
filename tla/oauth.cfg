CONSTANTS
    Logins = {l1, l2}
    Sessions = {s1, s2}
    Callers = {c1, c2}
    StateTimeout = 2
    CleanupEvery = 1
    RefreshAhead = 2
    Lifetimes = {0, 3}
    MaxRotations = 2
    MaxTime = 6
SYMMETRY Symmetry
SPECIFICATION Spec
INVARIANTS
    TypeOK
    StateSpentOnce
    StatesForgotten
    GoneStaysGone
    NoFreeSessions
    LatestTokenKept
PROPERTY
    ImplementsSessionLife
CHECK_DEADLOCK FALSE
