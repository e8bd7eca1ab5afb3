SPECIFICATION SRSpec
CONSTANTS
    All <- MCAll
    Hash <- MCHash
    Passes <- MCPasses
    Retries <- MCRetries
    Timeouts = {TRUE, FALSE}
    MaxReplies <- MCReplies
    MaxMishaps = 1
INVARIANTS
    Partition
    AnsweredWasSent
    GivesUpInTime
    SentTimesRight
PROPERTIES
    SndrcvReturns
CHECK_DEADLOCK FALSE
