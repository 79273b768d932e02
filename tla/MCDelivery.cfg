SPECIFICATION PartsFairSpec
CONSTANTS
    r1 = r1
    r2 = r2
    r3 = r3
    Requests <- MCRequests
    MaxActiveRequests = 2
    MaxLogs = 3
    MaxFlushes = 1
    Limit = 2
    Unencodable <- MCUnencodable
    Enabled = TRUE
    Custom <- MCCustom
    Counted <- MCCounted
    Rejections <- MCRejections
    Spans <- MCSpans
    MaxBatches = 2
    HostIsIP = FALSE
CHECK_DEADLOCK FALSE
INVARIANTS
    SlotsAreFetches
    LogsAccounted
    CountsAccounted
PROPERTIES
    RequestsEnd
    LogsEnd
    CountsEnd
