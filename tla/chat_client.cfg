CONSTANTS
    MaxTurns = 2
    MaxChunks = 2
    MaxAsks = 1
    MaxBreaks = 1
SPECIFICATION FairSpec
INVARIANTS
    BubblesOfOneTurn
    InputReturns
PROPERTIES
    BusyEnds
CHECK_DEADLOCK FALSE
