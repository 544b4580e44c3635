SPECIFICATION SessionSpec
CONSTANTS
    Targets = {t1}
    Calls = {c1, c2}
    None = None
    MaxDocument = 2
    MaxGeneration = 2
    MaxRevision = 3
    Profiles <- MCProfiles
INVARIANTS
    LoneHandlersComeBack
    ReportsLastUntilRefreshed
PROPERTIES
    OperationsEnd
CHECK_DEADLOCK FALSE
