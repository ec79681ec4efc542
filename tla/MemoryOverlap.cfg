CONSTANTS
    BatchSize = 2
    FlushInterval = 5
    Callers = {c1, c2}
    MaxPost = 2
    MaxFrames = 3
    MaxStarts = 3
SPECIFICATION Spec
INVARIANTS
    TypeOK
    EveryFrameInOnePlace
PROPERTIES
    DeliverySpec
