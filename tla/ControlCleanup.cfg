SPECIFICATION Spec
CONSTANTS
    MaxLaunches = 2
    MaxCommands = 2
    EventsCap = 1
    MaxSenders <- OnlyEvent
PROPERTIES
    FailureFreesMode
    CleanupsEnd
CHECK_DEADLOCK FALSE
