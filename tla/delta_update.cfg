SPECIFICATION FairSpec
CONSTANTS
    LastVersion = 3
    MaxByHand = 1
CHECK_DEADLOCK FALSE
INVARIANTS
    NextPackageFits
PROPERTIES
    EventuallyUpdated
