SPECIFICATION BSpec
CONSTANTS
    k1 = k1
    k2 = k2
    Keys = {k1, k2}
    None = None
    KeepCount <- MCKeepMixed
    SharedFolder = TRUE
    Faults = {"crash", "dbbackup", "makecab", "named"}
    MaxData = 1
    MaxDate = 5
SYMMETRY KeySymmetry
INVARIANTS
    BackupTypeOK
    CabinetsWhole
    FinishedRunIsLatest
    FolderBounded
PROPERTIES
    CabinetsCurrent
    NewestTwoSurvive
CHECK_DEADLOCK FALSE
