SPECIFICATION BrowserSpec
CONSTANTS
    Browsers = {b1, b2}
    Targets = {t1, t2, t3}
    Calls = {c1, c2}
    None = None
    Profiles <- MCProfiles
SYMMETRY Symmetry
INVARIANTS
    FinalCloseSparesPages
    RecordersStayPrivate
PROPERTIES
    LaunchesFindAFreeProfile
CHECK_DEADLOCK FALSE
