SPECIFICATION Spec
CONSTANTS
    p1 = p1
    p2 = p2
    l1 = l1
    l2 = l2
    Plugins <- MCPlugins
    Logs <- MCLogs
    MaxEntries = 1
    MaxStarts = 1
    MaxMessages = 3
    MaxPublished = 3
    LogCollection = TRUE
CHECK_DEADLOCK FALSE
INVARIANTS
    LogsAreCollected
