CONSTANTS
    Configs <- MCConfigs
    MaxDepth = 6
    Overlap = FALSE
SPECIFICATION Spec
INVARIANTS VerdictRight ImportsApplied PositionsRight LockTellsRunning
PROPERTY InvalidEnds
CHECK_DEADLOCK FALSE
