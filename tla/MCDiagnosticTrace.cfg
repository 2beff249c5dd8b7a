CONSTANTS
    Procs = {p1, p2, p3, p4}
    Root = p1
    MaxCalls = 3
    None = None
    Bounds <- MCBounds
SPECIFICATION FairSpec
INVARIANTS TargetOnlyObserved LedgersAgree CompleteIsWhole
CHECK_DEADLOCK FALSE
PROPERTIES ObserverReturns
