\* Two relays under fairness, rows polled one at a time, with and without a fault.
SPECIFICATION FairSpec
CONSTANTS
    r1 = r1
    r2 = r2
    Relays = {r1, r2}
    Events = {1, 2}
    User <- OneUser
    MaxRetries = 3
    BatchSize = 1
    ProcessingTimeout = 1
    MaxFaults = 1
PROPERTIES
    NewEventuallyTaken
    EventuallySent
CHECK_DEADLOCK FALSE
