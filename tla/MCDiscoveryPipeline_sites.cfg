SPECIFICATION FairSpec
CONSTANTS
    IndexWords = {"blog", "service", "services"}
    ItemWords = {"product", "item"}
    RuleItems = {"product"}
    LeafRoots = {"product"}
    LocaleWords = {"en"}
    DynamicWords = {"1"}
    SystemWords = {"tag"}
    PlainWords = {"x", "sitemap"}
    Aliases <- MCAliases
    Websites <- MCWebsites
    MaxSitemaps = 7
    MaxDepth = 2
    Threshold = 4
    SampleSize = 2
    Attempts = 3
    None = None
INVARIANTS
    TypeOK
    VerdictsFollowEvidence
PROPERTIES
    RunEnds
CHECK_DEADLOCK FALSE
