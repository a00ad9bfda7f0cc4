SPECIFICATION Spec
CONSTANTS
    Requests = {r1}
    Clients = {c1}
    LeaseDuration = 1
    MaxQueueSize = 1
    NoRequest = NoRequest
    MaxTime = 2
    MaxRecords = 5
    MaxCrashes = 2
    MaxFaults = 0
CHECK_DEADLOCK FALSE
INVARIANTS
    AlwaysResumable
