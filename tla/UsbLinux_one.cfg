SPECIFICATION FairSpec
CONSTANTS
    Handles = {h1}
INVARIANTS
    
    UsedIsLive
PROPERTIES
    UrbNotReused
    LostHandleIsFreed
