SPECIFICATION FairSpec
CONSTANTS
    Requests = {r1, r2}
    Clients = {c1, c2}
    LeaseDuration = 1
    MaxQueueSize = 1
    NoRequest = NoRequest
    MaxTime = 2
    MaxRecords = 5
    MaxCrashes = 1
    MaxFaults = 1
CHECK_DEADLOCK FALSE
INVARIANTS
    TypeOK
    OnePlace
    JournalMatchesMemory
    JournalValid
PROPERTIES
    ImplementsContract
    CallsReturn
