SPECIFICATION AgentSpec
CONSTANTS
    Kinds = {"cpu", "net"}
    Sources = {"stdin"}
    MaxConns = 3
INVARIANTS
    EmittersMatchWriters
PROPERTIES
    Settles
CHECK_DEADLOCK FALSE
