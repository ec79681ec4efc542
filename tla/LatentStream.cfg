CONSTANTS
    Tracks = {"retrieval", "generation"}
    Capacities = {1, 3, 4}
    Widths = {2, 3}
    MinSamples = 2
    MaxArrivals = 3
    Scores = {10, 60, 90}
    Threshold = 15
    BaseThreshold = 15
    MinThreshold = 5
    MaxThreshold = 80
    SensitivityZ = 1
    WindowSize = 3
    Sensitivity = 1
    NodeTypes = {"retrieval", "generation"}
    Priors = {0, 30}
    MaxFusions = 2
SPECIFICATION Spec
INVARIANTS
    FlushFailsForCause
    BufferIsSample
    OutliersNeedClamp
    PriorIsHighest
