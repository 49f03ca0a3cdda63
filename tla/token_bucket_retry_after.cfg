SPECIFICATION Spec
CONSTANTS
    Capacity = 4
    Rate = 1
    Second = 2
    TTL = 4
    Amounts <- OneToken
    MaxTime = 8
    MaxResets = 1
    MaxFaults = 2
INVARIANTS
    DeniedHasRetryAfter
