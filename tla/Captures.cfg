SPECIFICATION CaptureSpec
CONSTANTS
    Sessions = {s1, s2}
    Tabs = {b1, b2}
    Targets = {t1}
    Identities = {}
    Workspaces = {}
    None = None
    Ttl = 0
    TombstoneCap = 2
    MaxClock = 1
    Calls = {c1, c2}
    Jobs = {j1, j2}
    Profiles <- MCProfiles
SYMMETRY Symmetry
INVARIANTS
    ArtifactsFollowSessions
    RecordersAreAnsweredFor
    TracesCanBeEnded
PROPERTIES
    HandoversAreClean
CHECK_DEADLOCK FALSE
