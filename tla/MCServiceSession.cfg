SPECIFICATION FairSession
CONSTANTS
    Names = {"svc", "alias", "origin"}
    Service = "svc"
    Addresses4 = {1, 2}
    Addresses6 = {6}
    Lifetimes = {0, 2, 4}
    RecordsPerResponse = 2
    MaxMessages = 4
    MaxDepth = 2
    MaxAnswers = 2
    ResolutionDeadline = 2
    AttemptDeadline = 1
    MaxClock = 4
    EndpointAttempts = 2
    SetupDeadline = 3
    HandshakeLimit = 1
    ChildLimit = 2
    ServiceLimit = 3
    BufferSize = 2
    ChildWrites = 3
    ServiceWrites = 4
INVARIANTS
    EndpointIsEvidenced
    LimitsHold
    OkIsComplete
    NotifyFollowsLastByte
PROPERTIES
    SessionEnds
