SPECIFICATION Spec
CONSTANTS
    k1 = k1
    k2 = k2
    Keys = {k1, k2}
    None = None
    KeepCount <- MCKeepLow
    SharedFolder = FALSE
    Faults = {"dbbackup", "extract", "tree", "noundo"}
    MaxData = 1
    MaxDate = 3
    Reinstalls = TRUE
INVARIANTS
    RestoreTypeOK
    ShortcutsResolve
PROPERTIES
    RestoreDelivers
    ServesOnlyWhatWasServed
    BackupEnds
    RestoreEnds
CHECK_DEADLOCK FALSE
