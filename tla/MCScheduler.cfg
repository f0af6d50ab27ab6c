SPECIFICATION Spec
CONSTANTS
    Core = {c0, c1}
    Bsp = c0
    Thread = {a, b}
    App = a
    None = None
    RunnableMax = 2
    MaxCalls = 2
INVARIANTS
    LinkedOnce
    RunsOnce
    TotalsAgree
    ThreadsCounted
PROPERTIES
    ExitIsFinal
