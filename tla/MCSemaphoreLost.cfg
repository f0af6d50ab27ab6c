SPECIFICATION SemFairSpec
CONSTANTS
    Core = {c0, c1}
    Bsp = c0
    Thread = {a, b}
    App = a
    None = None
    RunnableMax = 2
    MaxCalls = 0
    QueueSize = 2
    MaxPost = 1
PROPERTIES
    WokenTriesAgain
