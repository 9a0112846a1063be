SPECIFICATION FairSpec
CONSTANTS
    Docs = {d1}
    MaxSends = 3
    ReqCap = 3
    OutCap = 2
    ResultCap = 1
    SaveFollowsFixAll = FALSE
PROPERTY EditsAreShown
CHECK_DEADLOCK FALSE
