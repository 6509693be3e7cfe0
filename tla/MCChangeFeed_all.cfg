SPECIFICATION Spec
CONSTANTS
    Companies = {"m", "x"}
    Competitors = {"a", "b"}
    Targets = {"t1", "t2", "t3"}
    Stored = {"t1", "t2"}
    CompetitorOf <- MCCompetitorOf
    WebsiteOf <- MCWebsiteOf
    Demo <- MCDemo
    Readers = {r1}
    Fillers = {f1, f2}
    Texts = {"n", "o"}
    Limits = {1}
    Logs <- MCLogs
    MaxTime = 2
    MaxChanges = 2
    MaxEvents = 3
    None = None
SYMMETRY MCSymmetry
INVARIANTS
    TypeOK
    FeedIsExact
    BackfillFills
PROPERTIES
    EnrichmentIsKept
CHECK_DEADLOCK FALSE
