SPECIFICATION Spec
CONSTANTS
    Requests = {q1, q2}
    Ids = {i1, i2}
    MaxFound = 0
    Threads = 2
    Faults = {}
    None = None
SYMMETRY MCSymmetry
INVARIANTS
    SummaryIsOwn
CHECK_DEADLOCK FALSE
