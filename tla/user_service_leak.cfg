\* One update of a user that does not exist.
SPECIFICATION Spec
CONSTANTS
    u1 = u1
    u2 = u2
    a = a
    b = b
    NoEmail = NoEmail
    Tables <- MCTables
    Requests = {1}
    Users = {u1, u2}
    Emails = {a, b}
    PoolSize = 2
    MaxFaults = 0
INVARIANTS
    TransactionEnds
CHECK_DEADLOCK FALSE
