CONSTANTS
    Users = {bench, probe}
    Closers = {sigterm, final}
    NoUser = NoUser
    MaxPools = 2
    Bench = bench
    Final = final
    Queries <- OneQuery
    SubQueries = {0, 1}
    MaxReflections = 2
    MaxAttempts = 3
    MaxFaults = 1
SPECIFICATION FairSpec
INVARIANTS
    FewOrphans
    PlaceholderHasCause
    ConfidenceIsOfAnswer
PROPERTIES
    RunEnds
CHECK_DEADLOCK FALSE
