SPECIFICATION Spec
CONSTANTS
    a = a
    b = b
    Fingerprints <- Mounted
    Plain = plain
    MaxTx = 3
    MaxLints = 1
    MaxFaults = 2
    MaxGrace = 1
SYMMETRY Interchangeable
INVARIANTS
    CommittedIsRoutable
    Agreement
    NothingLeaks
    LeasesHold
    NothingSurvivesDispose
    NothingStalls
CHECK_DEADLOCK FALSE
