SPECIFICATION CallsSpec
CONSTANTS
    UserTags <- MCUserTags
    Failures = {"e1", "e2", "other"}
    MaxCalls = 2
    MaxDones = 2
    MaxTags = 1
CHECK_DEADLOCK FALSE
INVARIANTS
    PromiseEndsSpan
