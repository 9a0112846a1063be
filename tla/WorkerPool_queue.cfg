SPECIFICATION FairSpec
CONSTANTS
    w1 = w1
    w2 = w2
    Workers <- MCOne
    MaxTasks = 3
    RetryCap = 1
    Poison <- SecondIsPoison
    DeadPost = "throws"
    InitialSlots = 1
    MaxCapacity = 2
INVARIANTS
    CancelSlotsAccounted
PROPERTIES
    EveryTaskSettles
    CallsReturn
CHECK_DEADLOCK FALSE
