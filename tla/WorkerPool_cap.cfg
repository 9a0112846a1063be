SPECIFICATION Spec
CONSTANTS
    w1 = w1
    w2 = w2
    Workers <- MCOne
    MaxTasks = 1
    RetryCap = 1
    Poison <- NoPoison
    DeadPost = "lost"
    InitialSlots = 1
    MaxCapacity = 2
INVARIANT RespawnsCapped
CHECK_DEADLOCK FALSE
