SPECIFICATION Spec
CONSTANTS
    f = f
    g = g
    NoName = NoName
    Names <- TwoNames
    MaxTurns = 5
    MaxCopies = 1
    MaxCalls = 2
SYMMETRY NameSymmetry
INVARIANTS TypeOK IdsUnique UpstreamSeesAll
CHECK_DEADLOCK FALSE
