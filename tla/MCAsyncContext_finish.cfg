SPECIFICATION Spec
CONSTANTS
    Storages = {"native"}
    FlushOnFinish = {TRUE}
    MaxSpans = 3
    MaxEvents = 2
    MaxAwaits = 2
    MaxFlushes = 2
CHECK_DEADLOCK FALSE
INVARIANTS
    ActiveIsExpected
