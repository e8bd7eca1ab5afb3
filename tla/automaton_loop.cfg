SPECIFICATION ASpec
CONSTANTS
    Last = 4
    Sends = {1, 3}
    Waits = {1, 2}
    Intercepts = {1, 3}
    Breaks = {}
    Settings <- MCLoop
    MaxSessions = 2
CHECK_DEADLOCK FALSE
INVARIANT LoopWorks
