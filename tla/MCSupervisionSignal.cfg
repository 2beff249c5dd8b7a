SPECIFICATION Spec
CONSTANTS
    MaxForks = 1
    CleanupPolls = 1
    ControlFaults = FALSE
    OutputLimit <- MCOutputLimit
    MaxExcess = 1
INVARIANTS
    SignaledMeansChildRan
