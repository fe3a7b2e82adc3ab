SPECIFICATION SharedSpec
CONSTANTS
    Fdes = {a, b}
    Shared = {b}
    MaxFd = 1
    None = None
INVARIANTS
    NoMissingFde
CHECK_DEADLOCK FALSE
