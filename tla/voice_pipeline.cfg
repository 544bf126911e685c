CONSTANTS
    MaxInputs = 2
    MaxHints = 1
    MaxTokens = 1
    MaxQuestions = 1
    FrameMs = 2
    SilenceMs = 4
    MinSpeechMs = 3
    PrerollFrames = 2
SPECIFICATION FairSpec
INVARIANTS
    SpeaksOwnReply
    FallsSilent
    InputsInOrder
    InterruptedFromLater
PROPERTIES
    BargeInEndsTurn
    HangUpEndsSession
    InputsAreHeard
CHECK_DEADLOCK FALSE
