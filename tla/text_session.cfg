CONSTANTS
    MaxTexts = 2
    MaxExtras = 2
    MaxToolRounds = 1
    MaxBatch = 2
    ToolClasses = {"auto", "confirm", "unknown"}
    IdSources = {"own"}
SPECIFICATION FairSpec
INVARIANTS
    ConfirmedOnly
    GateReachable
    TurnActiveExact
    TextsInOrder
PROPERTIES
    InterruptedStreamStops
    KeepsPromise
    GateReleases
    TurnEnds
    SessionEnds
CHECK_DEADLOCK FALSE
