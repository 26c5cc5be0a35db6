\* Each of these fails: put the one to look at in the place of the last line.
\*   INVARIANT DefaultsYield
\*   INVARIANT OnlyCyclesRefused
\*   PROPERTY RefusedUnlocks
CONSTANTS
    Configs <- MCConfigs
    MaxDepth = 6
    Overlap = FALSE
SPECIFICATION Spec
CHECK_DEADLOCK FALSE
INVARIANT DefaultsYield
