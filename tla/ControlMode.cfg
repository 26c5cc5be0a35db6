SPECIFICATION Spec
CONSTANTS
    MaxLaunches = 2
    MaxCommands = 2
    EventsCap = 1
    MaxSenders <- OnlyStart
INVARIANTS
    TicksAfterStart
    AutostartedOnce
CHECK_DEADLOCK FALSE
