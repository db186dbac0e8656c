SPECIFICATION Spec
CONSTANTS
    a = a
    b = b
    NoId = NoId
    Calls <- TwoCalls
    Providers <- EveryProvider
    Frontends <- EveryFrontend
    MaxEvents = 5
    MaxDisorder = 4
SYMMETRY CallSymmetry
INVARIANTS TypeOK CallsAsSaid ChunksApart AnswerDelivered 
PROPERTIES Framed
CHECK_DEADLOCK FALSE
