SPECIFICATION Spec
CONSTANTS
    Modes <- MCModes
    ControlModes <- MCControl
    FeedModes <- MCFeedModes
    InitialMode = "clock"
    Position <- MCPosition
    Meters <- MCMeters
    FeedMetric = "time"
    ClientMetric = "cpu"
    FeedValues = {1}
    ClientValues = {1}
    Leds <- MCLeds
    BusCap = 2
INVARIANTS
    RunLedRight
CHECK_DEADLOCK FALSE
