SPECIFICATION FairSpec
CONSTANTS
    Texts = {"a"}
    Lines <- OwnLines
    MaxRefs = 0
    Keys = {}
    Names = {"n"}
    Prices = {1}
    None = None
    Targets = {t1}
    Workers = {w1, w2}
    StaleAfter = 1
    Pages <- OnePage
    StartTypes = {"OTHER"}
    NewTypes = {"OTHER"}
    MaxTime = 4
    Requests = {"patch"}
    MaxRuns = 2
    MaxFaults = 1
PROPERTIES
    RunsEnd
