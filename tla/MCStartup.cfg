SPECIFICATION StartupSpec
CONSTANTS
    Nodes = 2
    CoreCount <- MCCoreCount
    MAX_UNIKERNEL = 2
    Channels = 4
    None = None
INVARIANTS
    
    
    OwnChannel

    
