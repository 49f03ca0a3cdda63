SPECIFICATION Spec
CONSTANTS
    Capacity = 4
    Rate = 1
    Second = 2
    TTL = 4
    Amounts <- MCAmounts
    MaxTime = 8
    MaxResets = 1
    MaxFaults = 2
INVARIANTS
    TypeOK
    GrantBounded
    WaitSuffices
PROPERTIES
    ImplementsEagerBucket
