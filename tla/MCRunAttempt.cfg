\* Two invocations that share names, on a host that changes artifacts:
\* publication, crashes, power loss and drift.
SPECIFICATION Spec
CONSTANTS
    Runs = {r1, r2}
    Roots = {o1, o2}
    Targets = {t1}
    Hosts <- ContendedOrDrifting
    None = None
    Other = Other
SYMMETRY Symmetry
INVARIANTS
    OutputRootIsOwn
    PublishedReceiptIsOwn
    LaunchIsFresh
PROPERTIES
    ReceiptNeverReplaced
