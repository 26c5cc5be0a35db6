SPECIFICATION Spec
CONSTANTS
    MaxLaunches = 2
    MaxCommands = 1
    EventsCap = 1
    MaxSenders <- MCSenders
PROPERTIES
    FailureFreesMode
    CleanupsEnd
    StopObeyed
CHECK_DEADLOCK FALSE
