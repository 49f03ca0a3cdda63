\* Three requests share three connections, under fairness.
SPECIFICATION FairSpec
CONSTANTS
    u1 = u1
    u2 = u2
    a = a
    b = b
    NoEmail = NoEmail
    Tables <- MCTables
    Requests = {1, 2, 3}
    Users = {u1, u2}
    Emails = {a, b}
    PoolSize = 3
    MaxFaults = 1
INVARIANTS
    TypeOK
    Durable
    LatestEventIsRow
    LeakedByNotFound
    NoCircularWait
PROPERTIES
    ImplementsUserEvents
    StuckUntilFault
    AnsweredUnlessPoolStuck
CHECK_DEADLOCK FALSE
