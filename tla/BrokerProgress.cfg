SPECIFICATION FairBrokerSpec
CONSTANTS
    Sessions = {s1}
    Tabs = {b1, b2}
    Targets = {t1}
    Identities = {}
    Workspaces = {}
    None = None
    Ttl = 0
    TombstoneCap = 1
    MaxClock = 1
    Requests = {r1, r2}
    Profiles <- ProgressProfiles
PROPERTIES
    RequestsFinish
    ReservationsDrain
CHECK_DEADLOCK FALSE
