SPECIFICATION DSpec
CONSTANTS
    c1 = c1
    c2 = c2
    c3 = c3
    Clients = {c1, c2, c3}
    None = None
    InitialDb <- MCDb
    FirstId = 16
    Batch = 2
    DbFaults = {}
    MaxId = 16
INVARIANT
    ImagesAreWhole
