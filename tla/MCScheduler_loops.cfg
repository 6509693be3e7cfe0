SPECIFICATION FairSpec
CONSTANTS
    Schedulers = {s1, s2}
    Targets = {1, 2}
    Malformed = {2}
    Intervals = {2}
    StaleAfter = 1
    MaxTime = 3
    MaxEvents = 1
    None = None
INVARIANTS
    TypeOK
    EveryTargetIsAccounted
PROPERTIES
    ChecksAreSpaced
    DueIsChecked
CHECK_DEADLOCK FALSE
