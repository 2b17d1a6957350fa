SPECIFICATION FairStartupSpec
CONSTANTS
    MaxDelay = 3
    MaxKill = 2
CHECK_DEADLOCK FALSE
INVARIANTS
    FewTimeouts
PROPERTIES
    EventuallyRenamed
