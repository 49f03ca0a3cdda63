SPECIFICATION FairSpec
CONSTANTS
    address = address
    apiKey = apiKey
    key = key
    None = None
    Requests = {1, 2}
    Origins <- MCOrigins
    Keys <- MCKeys
    Token = 2
    Amounts = {3}
    Asked <- MCAsked
    LimitCapacity = 3
    LimitRate = 1
    ApiCapacity = 4
    ApiRate = 2
    BulkSize = 2
    MaxTicks = 1
    MaxFaults = 1
INVARIANTS
    TypeOK
    RejectedUntouched
    AdmissionsBounded
    ApiGrantsBounded
PROPERTIES
    LimiterIsBucket
    ApiIsBucket
    Answered
    Drains
CHECK_DEADLOCK FALSE
