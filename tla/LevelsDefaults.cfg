SPECIFICATION LevelsSpec
CONSTANTS
    LostReading <- MCLostReading
    LostWriting <- MCLostWriting
    OldFiles <- MCOldFiles
    MaxSaves = 3
    MaxRestarts = 1
PROPERTIES
    DefaultsKept
CHECK_DEADLOCK FALSE
