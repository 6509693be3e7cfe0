SPECIFICATION Spec
CONSTANTS
    Texts = {"a", "c"}
    Lines <- SpacedLines
    MaxRefs = 1
    Keys = {1, 2}
    Names = {"n", "m"}
    Prices = {1, 2}
    None = None
    Targets = {t1}
    Workers = {w1, w2}
    StaleAfter = 1
    Pages <- ListingPages
    StartTypes = {"OTHER", "PRODUCT_LISTING"}
    NewTypes = {"OTHER"}
    MaxTime = 2
    Requests = {"remove", "readd"}
    MaxRuns = 2
    MaxFaults = 1
SYMMETRY WorkerSymmetry
INVARIANTS
    SuccessIsComplete
    LastChangedIsReported
