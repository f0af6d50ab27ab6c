SPECIFICATION FairSpec
CONSTANTS
    Caller = {a, b, c}
    Type = {"print", "exit"}
    Text = {x}
    Size = 2
    None = None
PROPERTIES
    ImplementsRemoteCall
    ReturnsWhileProxyRuns
CHECK_DEADLOCK FALSE
