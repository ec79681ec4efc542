CONSTANTS
    BatchSize = 2
    FlushInterval = 5
    Callers = {lifespan}
    MaxPost = 2
    MaxFrames = 5
    MaxStarts = 2
SPECIFICATION FairSpec
INVARIANTS
    StoredInOrder
    LiveWorkerIsCurrent
    StopFlushesEarlierFrames
PROPERTIES
    StopReturns
    FramesAreFlushed
