SPECIFICATION Spec
CONSTANTS
    Ids = {i1, i2}
    Urls = {u1, u2}
    Excluded = {u2}
    Sessions = {s1, s2}
    Ops = {"activate", "add", "manual", "edit", "discard", "remove", "patch", "upsert", "purge", "monitor"}
    None = None
SYMMETRY MCSymmetry
INVARIANTS
    TypeOK
    UrlsAreUnique
PROPERTIES
    FreshKeepsActivation
    FreshKeepsActive
    FreshKeepsHistory
