SPECIFICATION Spec
CONSTANTS
    t1 = t1
    t2 = t2
    t3 = t3
    t4 = t4
    cooking = cooking
    blank = blank
    NoTab = NoTab
    Tab <- MCTab
    Topic <- MCTopic
    Blank = blank
    Errors = {"rate limit", "other"}
    FirstStrips <- MCFirstStrips
    MaxWindow = 4
    MaxAnswer = 2
    MaxEdit = 1
    MaxRequest = 2
    MaxCalls = 2
CHECK_DEADLOCK FALSE
INVARIANTS
    UndoIsOffered
    LoadingIsAsked
PROPERTIES
    MoveMatchesRecord
    UndoRestores
    UndoBringsBack
