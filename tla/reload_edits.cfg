SPECIFICATION Spec
CONSTANTS
    r1 = r1
    r2 = r2
    Missing = Missing
    Requests <- TwoRequests
    MaxEdits = 2
INVARIANTS TypeOK LastGoodKept AppliesOnNextRequest
PROPERTIES CatchesUpUnraced
