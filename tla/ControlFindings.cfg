\* Each of these fails: put the one to look at in the place of the last line.
\*   INVARIANT CommandHasWriter
\*   INVARIANT OneCommand
\*   INVARIANT NeverToldStop
\*   INVARIANT StartedBeforeTicks
SPECIFICATION Spec
CONSTANTS
    MaxLaunches = 2
    MaxCommands = 2
    EventsCap = 1
    MaxSenders <- OnlyStart
CHECK_DEADLOCK FALSE
INVARIANT CommandHasWriter
