SPECIFICATION FairSpec
CONSTANTS
    Worker = {u, v, w}
    Job = {i, j, k}
    MaxFail = 1
    None = None
PROPERTIES
    ExecutedInStream
    DestroyReturns
CHECK_DEADLOCK FALSE
