SPECIFICATION FairSpec
CONSTANTS
    c1 = c1
    c2 = c2
    Clients = {c1, c2}
    Brokers = {b1, b2}
    None = None
    Profiles <- MCProfiles
    MaxFaults = 1
    ReclaimsName = TRUE
INVARIANTS
    OneRegistryUndisturbed
    ConflictsArePreserved
    EarlierBrokersNeverBeside
PROPERTIES
    OrphansExit
    CallsReturn
CHECK_DEADLOCK FALSE
