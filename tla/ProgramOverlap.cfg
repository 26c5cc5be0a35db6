CONSTANTS
    Configs <- MCConfigs
    MaxDepth = 6
    Overlap = TRUE
SPECIFICATION Spec
INVARIANT LockTellsRunning
CHECK_DEADLOCK FALSE
