SPECIFICATION Spec
CONSTANTS
    Texts = {"a", "b"}
    Lines <- OwnLines
    MaxRefs = 1
    Keys = {}
    Names = {"n"}
    Prices = {1}
    None = None
    Targets = {t1}
    Workers = {w1}
    StaleAfter = 1
    Pages <- EscapedPages
    StartTypes = {"OTHER"}
    NewTypes = {"OTHER"}
    MaxTime = 3
    Requests = {}
    MaxRuns = 3
    MaxFaults = 0
INVARIANT ComparedHashesAreStored
