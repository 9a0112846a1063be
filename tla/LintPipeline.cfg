SPECIFICATION FairSpec
CONSTANTS
    Files = {f1, f2}
    WellFormed = {"original", "fixed"}
    Requests <- AllRequests
    MaxRounds = 3
INVARIANTS
    LeaseDiscipline
    VerifiedObservesChanges
    FixesBuildOnBefore
    EarlierEditsSurvive
    CommitReported
PROPERTY
    StopsWhenAsked
