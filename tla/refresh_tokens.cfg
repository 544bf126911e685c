CONSTANTS
    Calls = {c1, c2, c3}
    MaxTokens = 3
    AccessTTL = 1
    RefreshTTL = 2
    MaxTime = 2
SPECIFICATION AccessSpec
SYMMETRY CallSymmetry
INVARIANTS
    OnlyLatestLive
    OneLivePerFamily
PROPERTIES
    DeadStaysDead
    NoLateSession
