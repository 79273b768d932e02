SPECIFICATION LoggerSpec
CONSTANTS
    MaxLogs = 4
    MaxFlushes = 1
    Limit = 2
    Unencodable <- MCUnencodable
    Enabled = TRUE
CHECK_DEADLOCK FALSE
INVARIANTS
    FailureIsTold
