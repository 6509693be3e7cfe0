SPECIFICATION Spec
CONSTANTS
    Texts = {"a", "b"}
    Lines <- OwnLines
    MaxRefs = 0
    Keys = {}
    Names = {"n"}
    Prices = {1}
    None = None
    Targets = {t1}
    Workers = {w1, w2}
    StaleAfter = 1
    Pages <- TextPages
    StartTypes = {"OTHER"}
    NewTypes = {"OTHER"}
    MaxTime = 3
    Requests = {}
    MaxRuns = 3
    MaxFaults = 0
SYMMETRY WorkerSymmetry
INVARIANTS
    TypeOK
    AtMostOneRunning
    EvictedOnlyWhenStale
    ChangesLinkSnapshots
    SuccessfulRunsAreSerial
PROPERTIES
    TerminalIsFinal
    ImplementsLease
