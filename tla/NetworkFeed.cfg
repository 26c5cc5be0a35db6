SPECIFICATION Spec
CONSTANTS
    Clients = {c1, c2}
    Metrics = {m1, m2}
    WireCap = 1
INVARIANTS
    DisconnectionShown
PROPERTIES
    HandlersEnd
    MetersComeBack
CHECK_DEADLOCK FALSE
