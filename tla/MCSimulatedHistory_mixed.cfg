SPECIFICATION Spec
CONSTANTS
    Texts = {"a", "b", "c"}
    Lines <- SpacedLines
    MaxRefs = 1
    Keys = {1, 2, 3}
    Names = {"n"}
    Prices = {1, 2}
    None = None
    Sims = {m1}
    Kinds = {"ALL", "NEW_PRODUCT", "PRODUCT_REMOVED", "PRICE_CHANGE"}
    Pages <- MCPages
    StartTypes = {"BLOG", "PRODUCT_LISTING"}
    MaxVersions = 2
    MaxSnaps = 4
INVARIANTS
    TypeOK
    TagsAgree
    RealChangesFollowSite
    SimulationIsComplete
