CONSTANTS
    Platforms = {"web", "native"}
    MaxTaps = 4
    MaxAudio = 1
    MaxFaults = 1
SPECIFICATION Spec
INVARIANTS
    MicIsTold
    LastTapDecides
    StopSilences
CHECK_DEADLOCK FALSE
