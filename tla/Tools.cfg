SPECIFICATION ToolSpec
CONSTANTS
    Sessions = {s1, s2}
    Tabs = {b1, b2}
    Targets = {t1}
    Identities = {}
    Workspaces = {}
    None = None
    Ttl = 0
    TombstoneCap = 2
    MaxClock = 1
    Calls = {c1, c2}
    Monitors = {m1, m2, m3}
    MaxDocument = 1
    Profiles <- MCProfiles
SYMMETRY Symmetry
INVARIANTS
    MonitorsListen
    OwnMessagesOnly
PROPERTIES
    ReferencesActInTheirDocument
    AnsweredSubmitsAreNotRepeated
CHECK_DEADLOCK FALSE
