SPECIFICATION Spec
CONSTANTS
    k1 = k1
    k2 = k2
    Keys = {k1, k2}
    None = None
    KeepCount <- MCKeepLow
    SharedFolder = TRUE
    Faults = {"crash", "expand", "extract", "file", "start", "stop", "noscript"}
    MaxData = 1
    MaxDate = 3
    Reinstalls = FALSE
SYMMETRY KeySymmetry
INVARIANTS
    NewestSelectedSurvives
    FailedRestoreHarmless
    UndoCabinetThere
PROPERTIES
    RestoreDelivers
    NoDatabaseLost
CHECK_DEADLOCK FALSE
