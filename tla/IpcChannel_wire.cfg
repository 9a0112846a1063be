CONSTANTS
    Requests = {r1}
    Notes = {n1}
    Inbounds = {i1}
    Reader = Reader
    App = App
    None = None
    MaxAnswers = 1
SPECIFICATION FairSpec
INVARIANTS TypeOK WireStaysFramed OutcomeMatchesWire
PROPERTIES WireIsSealedLog RequestReturns InboundSettles
CHECK_DEADLOCK FALSE
