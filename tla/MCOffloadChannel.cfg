SPECIFICATION FairSpec
CONSTANTS
    Thread = {a, b}
    Worker = {v, w}
    Request <- FileAndSocket
    IntBits = 3
    LongBits = 4
    OutSize = 2
    InSize = 2
    None = None
INVARIANTS
    
    HeadIsAwaited
PROPERTIES
    ImplementsRemoteCall
    CarriedCallReturns
