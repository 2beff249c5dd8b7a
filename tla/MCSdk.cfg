SPECIFICATION PlanSpec
CONSTANTS
    NoValue = NoValue
    WirePlans <- MCWirePlans
    Quantum = 2
    MaxBytes = 6
INVARIANTS SdkPlanIsAccepted
CHECK_DEADLOCK FALSE
