SPECIFICATION AgentSpec
CONSTANTS
    Kinds = {"cpu", "net"}
    Sources = {"stdin"}
    MaxConns = 2
PROPERTIES
    EveryKindEmitted
CHECK_DEADLOCK FALSE
