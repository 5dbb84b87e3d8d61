CONSTANTS
    Clients = {k1}
    MinuteLimit = 3
    BurstLimit = 3
    Minute = 3
    Second = 3
    Requests = {r1, r2}
    MaxLost = 1
    Boards <- MCBoards
    StartsWith <- MCStartsWith
    Ttl = 2
    RequestTimeout = 1
    MaxEntries = 1
    MaxVersion = 1
    MaxTime = 1
    Routes = {"preflight", "local"}
    Policies <- MCPolicies
    ToolNames <- MCToolNames
    Instances = {"default"}
SPECIFICATION FairSpec
INVARIANTS
    TypeOK
    ReadYourActions
    ForbiddenStaysAway
PROPERTY
    ServesAsGateway
CHECK_DEADLOCK FALSE
