SPECIFICATION Spec
CONSTANTS
    n1 = n1
    n2 = n2
    p1 = p1
    p2 = p2
    Calls <- TwoCalls
    Native <- TwoCalls
    HostId <- NoId
    Action <- Does
    Ids <- GivenIds
    MaxPending = 3
    None = None
INVARIANTS OutcomesDistinct
CHECK_DEADLOCK FALSE
