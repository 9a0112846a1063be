CONSTANTS
    Requests = {r1, r2}
    Notes = {}
    Inbounds = {}
    Reader = Reader
    App = App
    None = None
    MaxAnswers = 3
SPECIFICATION Spec
INVARIANTS AnswersReachTheirCaller
SYMMETRY CallerSymmetry
CHECK_DEADLOCK FALSE
