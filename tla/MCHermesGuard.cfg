SPECIFICATION Spec
CONSTANTS
    n1 = n1
    n2 = n2
    p1 = p1
    p2 = p2
    Calls <- FourCalls
    Native <- NativeCalls
    HostId <- Given
    Action <- Does
    Ids <- GivenIds
    MaxPending = 3
    None = None
INVARIANTS PendingBounded TraceTrue TraceKept
PROPERTIES FreshKept ImplementsGate
SYMMETRY Twins
CHECK_DEADLOCK FALSE
