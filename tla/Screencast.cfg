SPECIFICATION FairCastSpec
CONSTANTS
    EventCap = 2
    MaxChunks = 3
    MaxEvents = 2
    Scenarios <- MCScenarios
INVARIANTS
    FinalizedAsRecorded
    LiesAreTakenBack
PROPERTIES
    CastsEnd
CHECK_DEADLOCK FALSE
