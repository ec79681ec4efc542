CONSTANTS
    Procs = {p1}
    BatchSize = 2
    MaxPost = 1
    MaxFrames = 2
    MaxFaults = 1
    MaxResets = 0
SPECIFICATION FairSpec
PROPERTIES
    AtLeastOnce
