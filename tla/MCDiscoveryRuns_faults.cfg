SPECIFICATION FairSpec
CONSTANTS
    Requests = {q1, q2}
    Ids = {i1, i2}
    MaxFound = 1
    Threads = 2
    Faults = {"start", "raise", "sitemap", "record", "crash", "early", "poll"}
    None = None
INVARIANTS
    TypeOK
    SuccessIsComplete
    VerdictsAgree
    OneRunPerId
    FinishedIsRecorded
PROPERTIES
    PollingEnds
CHECK_DEADLOCK FALSE
