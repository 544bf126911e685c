CONSTANTS
    MaxTurns = 2
    MaxChunks = 1
    MaxAsks = 2
    MaxBreaks = 1
SPECIFICATION Spec
INVARIANT RunsWhatWasShown
CHECK_DEADLOCK FALSE
