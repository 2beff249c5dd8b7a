SPECIFICATION FairSpec
CONSTANTS
    MaxForks = 2
    CleanupPolls = 1
    ControlFaults = TRUE
    OutputLimit <- MCOutputLimit
    MaxExcess = 1
INVARIANTS
    ChildOnlyInsideBoundary
    ResultIsTruthful
    NothingOutlivesResult
    ReusableIsCleanRun
PROPERTIES
    SupervisorReturns
