SPECIFICATION Spec
CONSTANTS
    k1 = k1
    k2 = k2
    Keys = {k1, k2}
    None = None
    KeepCount <- MCKeepDefault
    SharedFolder = FALSE
    Faults = {}
    MaxData = 0
    MaxDate = 5
    Reinstalls = FALSE
INVARIANT
    SelectedSurvives
CHECK_DEADLOCK FALSE
