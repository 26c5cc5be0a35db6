SPECIFICATION Spec
CONSTANTS
    Modes <- MCModes
    ControlModes <- MCControlModes
    KnobaOf <- MCKnobaOf
    KnobdOf <- MCKnobdOf
    TickingFeeds <- MCFeeds
    FeedsOf <- MCFeedsOf
    NetworkModes <- MCNetworkModes
INVARIANTS
    KnobsNameBase
    RememberedPositions
    EntryEditsBase
    FeedsMatchMode
PROPERTIES
    PanelSpec
CHECK_DEADLOCK FALSE
