SPECIFICATION Spec
CONSTANTS
    Modes <- MCModes
    ControlModes <- NoControl
    FeedModes <- MCFeedModes
    InitialMode = "clock"
    Position <- MCPosition
    Meters <- MCMeters
    FeedMetric = "time"
    ClientMetric = "cpu"
    FeedValues = {1}
    ClientValues = {1}
    Leds <- MCLeds
    BusCap = 2
INVARIANTS
    KnobLedsRight
PROPERTIES
    SwitchCompletes
    MetersHeal
CHECK_DEADLOCK FALSE
