\* Two relays race for three rows, polled two at a time, through two faults.
SPECIFICATION Spec
CONSTANTS
    r1 = r1
    r2 = r2
    Relays = {r1, r2}
    Events = {1, 2, 3}
    User <- OneUser
    MaxRetries = 3
    BatchSize = 2
    ProcessingTimeout = 1
    MaxFaults = 2
SYMMETRY RelaySymmetry
INVARIANTS
    TypeOK
    SentIsPublished
    CopiesBounded
    ClaimExclusive
    FailedNeverRequeued
    StrandedBounded
PROPERTIES
    MarkFinalUnlessReset
    ImplementsDelivery
CHECK_DEADLOCK FALSE
