SPECIFICATION FairSpec
CONSTANTS
    Docs = {d1}
    MaxSends = 3
    ReqCap = 1
    OutCap = 2
    ResultCap = 1
    SaveFollowsFixAll = TRUE
INVARIANTS
    StoredIsCurrent
    EditorMirrorsStore
CHECK_DEADLOCK FALSE
PROPERTIES
    EditsAreShown
    LoopReturns
    CallsEnd
