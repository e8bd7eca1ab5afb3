SPECIFICATION ASpec
CONSTANTS
    Last = 4
    Sends = {1, 3}
    Waits = {1, 2}
    Intercepts = {1, 3}
    Breaks = {1, 2}
    Settings <- MCSettings
    MaxSessions = 3
INVARIANTS
    AnswersAreCurrent
    OneControl
    OnlyAcceptedLeave
    VerdictsUnderstood
PROPERTIES
    CallsReturn
CHECK_DEADLOCK FALSE
