\* One relay that stops and starts again, and the backfill tool that runs
\* beside it: order within a user.
SPECIFICATION StreamSpec
CONSTANTS
    r1 = r1
    Relays = {r1}
    Events = {1, 2, 3}
    User <- OneUser
    MaxRetries = 3
    BatchSize = 2
    ProcessingTimeout = 1
    MaxFaults = 4
    BackfillLimit = 2
    MaxBackfills = 2
    Half = 8
    Texts <- Every
    NoKey = NoKey
    EventTypes = {"created"}
    Crc <- Plain
    Sha <- Mirrored
INVARIANTS
    StreamTypeOK
    DisorderBounded
    BackfillOnlyRepeats
    StreamCopiesBounded
CHECK_DEADLOCK FALSE
