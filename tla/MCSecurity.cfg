SPECIFICATION MCSpec
CONSTANTS
    r1 = r1
    r2 = r2
    r3 = r3
    v1 = v1
    v2 = v2
    Requests <- MCRequests
    Vulns <- MCVulns
    MaxConcurrent = 2
    MaxOps = 1
    MaxEnds = 2
    MaxOutside = 1
    Length = 4
    Reports <- MCReports
    Profiles <- MCProfiles
    InitCalls = {"c1", "c2"}
    UseConfigs <- MCUses
    MaxUses = 2
    MaxRecords = 2
    SecurityConfigs <- MCConfigs
    Roots = {"root"}
    Users <- MCUsers
    MaxCalls = 3
    MaxPolls = 3
SYMMETRY MCSymmetry
CHECK_DEADLOCK FALSE
INVARIANTS
    StartsInOrder
    LogPluginReady
    IastAddsUp
    QuotaKept
    ReportedOnce
    NothingDropped
    EvidenceScrubbed
    RemoteConfigKept
    
