SPECIFICATION BSpec
CONSTANTS
    k1 = k1
    k2 = k2
    Keys = {k1, k2}
    None = None
    KeepCount <- MCKeepLow
    SharedFolder = FALSE
    Faults = {"makecab", "readonly"}
    MaxData = 2
    MaxDate = 3
INVARIANT
    CabinetsWhole
CHECK_DEADLOCK FALSE
