SPECIFICATION DocumentSpec
CONSTANTS
    Alphabet <- MCAlphabet
    Seeds <- MCSeeds
    MaxAdded = 3
    MaxDepth = 2
    MaxItems = 6
    NoValue = NoValue
    WirePlans <- MCWirePlans
    Quantum = 2
    MaxBytes = 6
    Binary <- MCBinary
    FirstTrees <- MCFirstTrees
    Image <- MCImage
    Profiles <- MCProfiles
    PathOrder <- MCPathOrder
    NameOrder <- MCNameOrder
    LibrarySets <- MCLibrarySets
    Edits <- MCEdits
    MaxEdits = 2
    MaxDependencies = 6
    MaxLinks = 2
    MaxFile = 2
    MaxTotal = 11
    None = None
    a = a
    b = b
    c = c
    d = d
    e = e
    t1 = t1
    t2 = t2
    t3 = t3
    d1 = d1
    d2 = d2
    r1 = r1
    r2 = r2
    r3 = r3
    Commands = {a, b, c, d, e}
    Targets = {t1, t2, t3}
    ReceiptOf <- MCReceiptOf
    DraftOf <- MCDraftOf
    Parent <- MCParent
    RootOf <- MCRootOf
    Beneath <- MCBeneath
    Plans <- MCPlans
    TraceEvents <- MCTraceEvents
    Loads <- MCLoads
    Ends <- MCEnds
    Sizes <- MCSizes
    Bounds <- MCBounds
    Comparisons <- MCComparisons
    MaxForeign = 1
    Contents = {1, 2}
    NoAnswer = NoAnswer
    Outcomes <- MCOutcomes
    OtherCalls <- MCOtherCalls
    Limit = 3
    PipeSize = 3
    Chunk = 2
    NoGroup = NoGroup
    GroupLimits <- MCGroupLimits
    Hosts <- MCHosts
    Kernels <- MCKernels
    PageSize = 2
    MaxCount = 2
    MaxMeddling = 1
INVARIANTS CarrierIsCanonical PolicyIsExact SdkAgreesWithParser HelperIsTruthful ReportIsExact PairIsWhole ExitTellsPublication DraftIsJustified EventsAreRecordable ModelsAreFaithful GroupIsExact
PROPERTIES TargetsNeverReplaced
CHECK_DEADLOCK FALSE
