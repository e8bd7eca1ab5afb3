SPECIFICATION MSpec
CONSTANTS
    Text <- MCText
    MaxLen = 3
    MaxChanges = 2
INVARIANT
    DisplayIsReading
PROPERTIES
    RestartsForChange
    CatchesUp
CHECK_DEADLOCK FALSE
