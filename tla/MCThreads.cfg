SPECIFICATION Spec
CONSTANTS
    Core = {c0, c1}
    Thread = {a, b, d, e}
    None = None
    Begun = 2
    LocalFew = 0
    LocalMany = 0
    MaxCreate = 1
    MaxUse = 2
    MaxSignal = 1
SYMMETRY Symmetry
INVARIANTS
    EachTcbOnce
    RefsCounted
    StopsOnlyWhenEmpty
    
CHECK_DEADLOCK FALSE
