SPECIFICATION QueueFairSpec
CONSTANTS
    Thread = {p1, p2}
    Modulus = 3
    Size = 4
    Message = {m1, m2}
    Empty = Empty
PROPERTIES
    ImplementsFifoLock
    ImplementsBoundedFifo
    EverySendEnds
