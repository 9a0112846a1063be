SPECIFICATION Spec
CONSTANTS
    w1 = w1
    w2 = w2
    Workers <- MCTwo
    MaxTasks = 2
    RetryCap = 1
    Poison <- NoPoison
    DeadPost = "lost"
    InitialSlots = 1
    MaxCapacity = 2
SYMMETRY Interchangeable
INVARIANTS
    TasksHeldOnce
    CancelledOnlyIfAsked
    TimerMeasuresItsTask
    BacklogIsAttended
    NothingOutlivesThePool
PROPERTY DegradedOnlyWhenDead
CHECK_DEADLOCK FALSE
