CONSTANTS
    list = list
    b1 = b1
    b12 = b12
    b2 = b2
    Keys <- MCKeys
    Values = {x, y}
    Prefixes <- MCPrefixes
    Lifetimes = {0, 1, 2}
    MaxEntries = 3
    MaxTime = 3
SPECIFICATION Spec
INVARIANTS
    TypeOK
    CapacityHeld
PROPERTY
    KeepsContract
