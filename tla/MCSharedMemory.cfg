SPECIFICATION ShmSpec
CONSTANTS
    Pages = 3
    MaxLevel = 2
    MaxSize = 2
    None = None
    Thread = {t1, t2}
    Key = {k1, k2}
    Regions = 2
    PAGE_MIN_SIZE = 2
    Size = {1, 2, 3}
SYMMETRY Symmetry
INVARIANTS
    KeysUnique
    AttachedIsKept
    AttachesCounted
    NothingLeaks
CHECK_DEADLOCK FALSE
