SPECIFICATION Spec
CONSTANTS
    Length = 3
    MaxDiags = 3
    Diags <- MCDiags
INVARIANTS
    AppliesAtOnce
    ExactlyClashesWait
