SPECIFICATION Spec
CONSTANTS
    c1 = c1
    c2 = c2
    Clients = {c1, c2}
    Skew <- MCSkew
    MaxSkew = 1
    MaxDelay = 1
    Window = 4
    MaxRequests = 2
    TTL = 2
    MaxTime = 8
    MaxCalls = 4
    MaxFaults = 1
INVARIANTS
    TypeOK
    WindowBounded
    RetrySuffices
CHECK_DEADLOCK FALSE
