SPECIFICATION FairSpec
CONSTANTS
    r1 = r1
    r2 = r2
    Relays = {r1}
    Events = {1}
    User <- OneUser
    MaxRetries = 3
    BatchSize = 1
    ProcessingTimeout = 1
    MaxFaults = 1
PROPERTIES
    FailedRetried
CHECK_DEADLOCK FALSE
