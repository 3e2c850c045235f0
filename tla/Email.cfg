SPECIFICATION FairSpec
CONSTANTS
    a = a
    b = b
    x = x
    NoCopy = NoCopy
    Messages = {a, b, x}
    PriorityOf <- MCPriority
    ExpireAt <- MCExpire
    Malformed = {x}
    MaxRetries = 1
    MaxTime = 1
    MaxCrashes = 2
INVARIANTS
    TypeOK
    MailsNeedCrash
    Accounted
    RetryBudget
PROPERTIES
    Leaves
CHECK_DEADLOCK FALSE
