SPECIFICATION FairSpec
CONSTANTS
    Procs = {p1, p2}
    Events = {e1, e2}
    Inodes = {i1, i2}
    MaxEvents = 1
    MayCrash = TRUE
    StuckLocks = {p1}
    StuckStaging = {p1}
    NoPid = NoPid
    NoFile = NoFile
INVARIANTS LockMatchesHolder MutualExclusion WithinCap NoStagingLeak
PROPERTIES StaleVerdict Terminates Recovers ImplementsSpool
CHECK_DEADLOCK FALSE
