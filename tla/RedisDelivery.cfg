CONSTANTS
    Procs = {p1, p2}
    BatchSize = 2
    MaxPost = 2
    MaxFrames = 3
    MaxFaults = 1
    MaxResets = 1
SPECIFICATION FairSpec
INVARIANTS
    TypeOK
    Recoverable
    AckedIsStored
PROPERTIES
    DeliverySpec
    ShutdownCompletes
    FramesAreRead
