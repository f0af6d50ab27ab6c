SPECIFICATION PagingSpec
CONSTANTS
    Pages = 5
    MaxLevel = 3
    MaxSize = 4
    None = None
    Core = {c1, c2}
    VPages = 2
    Entries = 2
    PageSize = 2
    KernelSize = {2, 3}
SYMMETRY Symmetry
INVARIANTS
    
    EachFrameOnce
    LoadsLastStore
    IovecCoversBuffer

    
CHECK_DEADLOCK FALSE
