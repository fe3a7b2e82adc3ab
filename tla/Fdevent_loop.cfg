SPECIFICATION FairSpec
CONSTANTS
    Fdes = {a, b}
    Shared = {}
    MaxFd = 1
    None = None
INVARIANTS
    
    PendingMatches
PROPERTIES
    ReadyIsServed
CHECK_DEADLOCK FALSE
