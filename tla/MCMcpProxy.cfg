SPECIFICATION Spec
CONSTANTS
    c1 = c1
    c2 = c2
    c3 = c3
    Calls <- ThreeCalls
    Ids <- TwoIds
    CallId <- SharedId
    Guarded = {c1, c2}
    PolicySays <- AnyOrFew
    Privileged = {c2}
    ServerIds = {}
    MaxPending = 1
    FailOpen = TRUE
    UsePermits = FALSE
    None = None
INVARIANTS Bounded OutcomeTrue OneOutcome OutcomesSettled MalformedBlocks
PROPERTIES CancelReachesKnown ImplementsGate
CHECK_DEADLOCK FALSE
