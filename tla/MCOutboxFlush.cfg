SPECIFICATION FairSpec
CONSTANTS
    Threads = {t1, t2}
    Events <- ThreeEvents
    Batch = 1
    Refused <- Second
    Perishable <- Second
    MaxTroubles = 1
    MaxCrashes = 1
    NoTimer = NoTimer
    DeadTimer = DeadTimer
INVARIANTS NoneLost SentOnce LockHeldByFlush 
 
CHECK_DEADLOCK FALSE
