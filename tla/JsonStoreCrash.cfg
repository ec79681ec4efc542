CONSTANTS
    Writers = {gateway}
    MaxRecords = 7
    MaxCrashes = 4
SPECIFICATION Spec
INVARIANTS
    TypeOK
    OnlyOldestIsLost
PROPERTIES
    PublishedIsFinal
    PreservesRecords
CHECK_DEADLOCK FALSE
