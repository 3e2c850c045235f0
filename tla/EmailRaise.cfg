SPECIFICATION Spec
CONSTANTS
    a = a
    b = b
    x = x
    NoCopy = NoCopy
    Messages = {a, b}
    PriorityOf <- MCPriority
    ExpireAt <- MCExpire
    Malformed = {}
    MaxRetries = 3
    MaxTime = 0
    MaxCrashes = 0
INVARIANTS
    ErrorsAreRetried
CHECK_DEADLOCK FALSE
