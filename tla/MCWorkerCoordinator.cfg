SPECIFICATION FairSpec
CONSTANTS
    w1 = w1
    w2 = w2
    o1 = o1
    Workers = {w1, w2}
    Origins = {o1}
    MaxConcurrency = 2
    MinDelay = 1
    LeaseDuration = 2
    StaleAfter = 1
    MaxTime = 4
INVARIANTS
    TypeOK
    OwnershipBounded
    PermitHonoured
    PermitsSpaced
PROPERTIES
    DeadWorkersLetGo
