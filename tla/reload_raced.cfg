SPECIFICATION Spec
CONSTANTS
    r1 = r1
    r2 = r2
    Missing = Missing
    Requests <- OneRequest
    MaxEdits = 2
PROPERTIES EditsApply
