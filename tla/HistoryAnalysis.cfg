CONSTANTS
    Window = 1
    Threshold = 0
    Deployments <- DeploymentsWithoutInfo
    Values = {0, 1}
    Delays <- DelaysOrNot
    TopK = 2
    MaxRecords = 4
    MaxOdd = 1
SPECIFICATION Spec
INVARIANTS
    TypeOK
    SkippedOnlyBehindRevert
    RevertIsExact
    ReferenceBeforeDrift
    UnsimulatedOnlyBeforeHarm
PROPERTIES
    EventsPersist
CHECK_DEADLOCK FALSE
