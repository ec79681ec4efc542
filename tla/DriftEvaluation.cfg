\* Two requests that share a monitor, two frames, one crash.
SPECIFICATION LiveSpec
CONSTANTS
    Requests = {r1, r2}
    Ingestion = buffer
    Frames = {0, 1}
    Notifier = TRUE
    MinBaseline = 2
    Limit = 2
    Payloads <- PayloadsForTLC
    MaxCrashes = 1
INVARIANTS
    TypeOK
    OwnThresholds
    RowsFollowAnswer
    AlertedFirst
PROPERTY
    RequestsEnd
