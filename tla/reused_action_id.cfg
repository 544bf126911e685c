CONSTANTS
    MaxTexts = 2
    MaxExtras = 2
    MaxToolRounds = 1
    MaxBatch = 1
    ToolClasses = {"confirm"}
    IdSources = {"index"}
SPECIFICATION Spec
INVARIANT ConfirmedOnly
CHECK_DEADLOCK FALSE
