SPECIFICATION LevelsSpec
CONSTANTS
    LostReading <- MCLostReading
    LostWriting <- MCLostWriting
    OldFiles <- MCOldFiles
    MaxSaves = 3
    MaxRestarts = 1
INVARIANTS
    ShownIsCounted
    RestartKeepsLevels
CHECK_DEADLOCK FALSE
