SPECIFICATION MCSpec
CONSTANTS
    c1 = c1
    c2 = c2
    Calls = {c1, c2}
    Selections <- BothOrOne
    Privileged = {c1}
    RewriteAnswer = "approval"
    MaxConcurrent = 1
    Listed = {c1}
    Replies <- Model
INVARIANTS SlotsSound Authorized OneOutcome Accounted
PROPERTIES ImplementsGate Settles Drains
CHECK_DEADLOCK FALSE
