SPECIFICATION Spec
CONSTANTS
    Sessions = {s1, s2}
    Tabs = {b1, b2, b3}
    Targets = {t1, t2}
    Identities = {i1}
    Workspaces = {w1}
    None = None
    Ttl = 0
    TombstoneCap = 1
    MaxClock = 1
SYMMETRY RegistrySymmetry
INVARIANTS
    TargetMapsAgree
    CleanupFollowsOwner
    SweptTargetsStayOut
    TombstonesExact
    AmbientMapsAgree
PROPERTIES
    TabsNeverRevive
    ImplementsTabOwnership
CHECK_DEADLOCK FALSE
