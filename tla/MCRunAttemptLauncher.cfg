\* The launcher file is replaced during an attempt.
SPECIFICATION Spec
CONSTANTS
    Runs = {r1}
    Roots = {o1}
    Targets = {t1}
    Hosts <- Drifting
    None = None
    Other = Other
INVARIANTS
    LauncherIsRecorded
