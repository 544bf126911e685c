CONSTANTS
    MaxTexts = 1
    MaxExtras = 1
    MaxToolRounds = 1
    MaxBatch = 1
    ToolClasses = {"confirm"}
    IdSources = {"own"}
SPECIFICATION FairSpec
PROPERTY DisconnectEndsSession
CHECK_DEADLOCK FALSE
