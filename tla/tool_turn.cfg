CONSTANTS
    Modules <- Discovered
    Communities <- MCCommunities
    Provisions = {"home assistant"}
    Meant <- MCMeant
    ArgParts = 3
    RecallLimit = 1
    MaxToolRounds = 2
    MaxTurns = 2
    MaxCalls = 2
    MaxFaults = 2
SPECIFICATION Spec
INVARIANTS
    NamesResolve
    TranscriptPaired
    ActionsAccounted
    MessagesTellTheTurns
PROPERTIES
    CallsAsStreamed
    ActsOnDemand
    PromptHasContext
CHECK_DEADLOCK FALSE
