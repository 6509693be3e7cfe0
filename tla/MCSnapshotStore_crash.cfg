SPECIFICATION Spec
CONSTANTS
    Calls = {c1, c2, c3}
    Storages = {s1}
    Stamps = {t1, t2}
    Contents = {a, b}
    Faults = {"write", "insert", "unlink", "crash"}
    None = None
SYMMETRY MCSymmetry
INVARIANTS
    TypeOK
    MetadataMatchesFile
    NoOrphans
PROPERTIES
    ImplementsArchive
CHECK_DEADLOCK FALSE
