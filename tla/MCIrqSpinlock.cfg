SPECIFICATION FairSpec
CONSTANTS
    Core = {c1, c2}
    NoCore = NoCore
    MaxDepth = 2
    MaxTicket = 3
INVARIANTS
    IndInv
    MutualExclusion
PROPERTIES
    InterruptFlagRestored
    ImplementsFifoLock
