SPECIFICATION FairSpec
CONSTANTS
    alice = alice
    bob = bob
    c1 = c1
    c2 = c2
    c3 = c3
    c5 = c5
    m1 = m1
    m2 = m2
    NoConn = NoConn
    NoUser = NoUser
    Users = {alice, bob}
    Conns = {c1, c2, c3, c5}
    Messages = {m1, m2}
    UserOf <- MCUserOf
    Receiver <- MCReceiver
    Malformed = {m2}
    MaxLosses = 1
INVARIANTS
    TypeOK
    NoStaleEntry
    AloneIsRegistered
    NewestWins
PROPERTIES
    DropsExplained
    ClosedIsRemoved
    QueueDrains
CHECK_DEADLOCK FALSE
