SPECIFICATION FairSpec
CONSTANTS
    MaxChunks = 2
    MaxFaults = 1
    Intents <- Everything
INVARIANTS
    OutputInOrder
    ExecutionIsValidated
    HostsAreReaped
    InterruptIsReported
PROPERTY
    SessionEnds
CHECK_DEADLOCK FALSE
