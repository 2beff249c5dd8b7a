CONSTANTS
    None = None
    MaxDrifts = 2
    Files <- MCFiles
    FirstDisk <- MCFirstDisk
    FalseReports <- MCFalseReports
    FalseVerifications <- MCFalseVerifications
    Commands <- MCCommands
SPECIFICATION Spec
INVARIANTS ReportsAreAboutHeld AcceptedSatisfiesPolicy ExitTellsOutput
CHECK_DEADLOCK FALSE
