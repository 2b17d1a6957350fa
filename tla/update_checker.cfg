SPECIFICATION FairSpec
CONSTANTS
    b1 = b1
    b2 = b2
    g1 = g1
    g2 = g2
    Id <- MCId
    BraveId <- MCBraveId
INVARIANTS
    GoogleAskedAlone
    AskedAtMostOnce
    SuccessIsComplete
PROPERTY
    CheckEnds
CHECK_DEADLOCK FALSE
