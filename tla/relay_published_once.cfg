SPECIFICATION Spec
CONSTANTS
    r1 = r1
    r2 = r2
    Relays = {r1, r2}
    Events = {1}
    User <- OneUser
    MaxRetries = 3
    BatchSize = 1
    ProcessingTimeout = 1
    MaxFaults = 2
INVARIANTS
    PublishedOnce
CHECK_DEADLOCK FALSE
