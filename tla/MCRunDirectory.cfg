SPECIFICATION FairSpec
CONSTANTS
    p1 = p1
    p2 = p2
    p3 = p3
    here = here
    there = there
    Nobody = Nobody
    Procs = {p1, p2, p3}
    Host <- Machines
    MaxMishaps = 1
INVARIANTS
    TypeOK
    ExclusiveButWindows
PROPERTIES
    DirectoryFreed
    AbortHeard
CHECK_DEADLOCK FALSE
