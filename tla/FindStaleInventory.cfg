SPECIFICATION BrokerSpec
CONSTANTS
    Sessions = {s1, s2}
    Tabs = {b1, b2}
    Targets = {t1}
    Identities = {}
    Workspaces = {}
    None = None
    Ttl = 0
    TombstoneCap = 2
    MaxClock = 0
    Requests = {r1, r2}
    Profiles <- StaleProfiles
INVARIANTS
    MissingMeansGone
CHECK_DEADLOCK FALSE
