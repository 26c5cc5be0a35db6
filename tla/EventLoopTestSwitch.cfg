SPECIFICATION Spec
CONSTANTS
    Modes <- MCModes
    ControlModes <- MCControlModes
    KnobaOf <- MCKnobaOf
    KnobdOf <- MCKnobdOf
    TickingFeeds <- MCFeeds
    FeedsOf <- MCFeedsOf
    NetworkModes <- MCNetworkModes
PROPERTIES
    TestSwitchWorks
CHECK_DEADLOCK FALSE
