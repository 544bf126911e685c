CONSTANTS
    MaxInputs = 2
    MaxHints = 0
    MaxTokens = 1
    MaxQuestions = 0
SPECIFICATION Spec
INVARIANTS
    SpeechStopsPlayback
CHECK_DEADLOCK FALSE
