SPECIFICATION MCSpec
CONSTANTS
    c1 = c1
    c2 = c2
    c3 = c3
    NoCall = NoCall
    Calls = {c1, c2, c3}
    Cap = 2
    Intercepted = {c1, c2, c3}
    Privileged = {c1}
    FailOpen = TRUE
    Replies <- Answering
    RewriteAnswer = "deny"
    Frail = {c1}
    MaxFaults = 1
INVARIANT CapKept
CHECK_DEADLOCK FALSE
