CONSTANTS
    Tracks = {"retrieval", "generation", "unified"}
    Changes = {ch1, ch2}
    Scores = {0, 1}
    MinConfidence = 1
    Cooldown = 2
    Window = 3
    MaxFlapping = 2
    MaxTime = 5
    MaxCycleTime = 1
    MaxCycles = 3
    MaxSetBacks = 1
SYMMETRY ChangeSymmetry
SPECIFICATION Spec
INVARIANTS
    TypeOK
    CooldownRespected
    FlappingBounded
CHECK_DEADLOCK FALSE
