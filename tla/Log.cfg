SPECIFICATION LogSpec
CONSTANTS
    Requests = {q1, q2}
    Messages = {x1}
    BufferLimit = 3
    EvidenceLimit = 1
    Profiles <- LogProfiles
SYMMETRY Symmetry
INVARIANTS
    IdsKeepTheirMeaning
    ListedRequestsCanBeGot
PROPERTIES
    AnsweredClicksDoNotFallBack
CHECK_DEADLOCK FALSE
