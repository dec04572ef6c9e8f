SPECIFICATION Spec
CONSTANTS
    c1 = c1
    c2 = c2
    c3 = c3
    Calls <- TwoCalls
    Ids <- TwoIds
    CallId <- OwnId
    Guarded = {c1}
    PolicySays <- AnyAnswer
    Privileged = {}
    ServerIds = {1}
    MaxPending = 2
    FailOpen = TRUE
    UsePermits = TRUE
    None = None
INVARIANTS MalformedBlocks
CHECK_DEADLOCK FALSE
