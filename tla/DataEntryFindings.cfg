\* Each of these fails: put the one to look at in the place of the last line.
\*   INVARIANT DepositsSaved
\*   PROPERTY StepsRepeat
SPECIFICATION Spec
CONSTANTS
    Modes = {"clock", "timer"}
    Switches = {0, 1, 2}
    WordSize = 2
    MaxAddr = 3
    MaxDeposits = 2
    Savers = {1, 2}
CHECK_DEADLOCK FALSE
INVARIANT DepositsSaved
