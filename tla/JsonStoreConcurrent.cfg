CONSTANTS
    Writers = {gateway, cli}
    MaxRecords = 3
    MaxCrashes = 0
SPECIFICATION Spec
INVARIANTS
    SavedIsLoaded
CHECK_DEADLOCK FALSE
