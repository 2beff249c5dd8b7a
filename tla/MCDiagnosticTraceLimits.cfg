CONSTANTS
    Procs = {p1, p2}
    Root = p1
    MaxCalls = 2
    None = None
    Bounds <- MCBounds
SPECIFICATION Spec
INVARIANT PublishDirectiveIsHonoured
CHECK_DEADLOCK FALSE
