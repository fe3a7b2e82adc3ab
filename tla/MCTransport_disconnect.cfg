SPECIFICATION Spec
CONSTANTS
    u1 = u1
    s1 = s1
    Transports = {s1}
    Usb = {}
    Tcp = {s1}
    Smart = {}
    Waiters = {}
    Null = Null
    Gone = Gone
    Banners <- MCBanners
    NKeys = 1
    MaxRecv = 1
INVARIANTS
    CloseAfterThreads
CHECK_DEADLOCK FALSE
