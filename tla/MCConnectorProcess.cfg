SPECIFICATION FairSpec
CONSTANTS
    ByteLimit = 2
    Scenes <- MCScenes
INVARIANTS
    ResultIsTruthful
    ChannelOnlyWhenAuthenticated
    NoUnwatchedConnector
PROPERTIES
    ImplementsLifecycle
    CallsReturn
