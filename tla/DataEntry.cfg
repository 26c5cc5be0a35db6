SPECIFICATION Spec
CONSTANTS
    Modes = {"clock", "timer"}
    Switches = {0, 1, 2}
    WordSize = 2
    MaxAddr = 3
    MaxDeposits = 2
    Savers = {1, 2}
INVARIANTS
    TypeOK
    DataMatchesAddress
    SerialDepositsSaved
PROPERTIES
    DepositsOnly
CHECK_DEADLOCK FALSE
