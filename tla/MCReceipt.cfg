SPECIFICATION Spec
CONSTANTS
    MaxEdits = 2
    MaxAlterations = 3
INVARIANTS
    ProducedIsAccepted
    AcceptedIsProduced
