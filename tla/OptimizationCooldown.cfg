CONSTANTS
    Tracks = {"retrieval"}
    Changes = {ch1}
    Scores = {0, 1}
    MinConfidence = 1
    Cooldown = 2
    Window = 10
    MaxFlapping = 5
    MaxTime = 5
    MaxCycleTime = 0
    MaxCycles = 3
    MaxSetBacks = 0
SPECIFICATION Spec
INVARIANTS
    CooldownBlocksForCause
CHECK_DEADLOCK FALSE
