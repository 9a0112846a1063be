SPECIFICATION Spec
CONSTANTS
    Files = {f1, f2}
    WellFormed = {"original", "fixed", "foreign"}
    Requests <- InMemoryFix
    MaxRounds = 3
INVARIANT
    VerifiedObservesSources
