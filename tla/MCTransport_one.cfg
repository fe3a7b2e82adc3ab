SPECIFICATION Spec
CONSTANTS
    u1 = u1
    s1 = s1
    Transports = {s1}
    Usb = {}
    Tcp = {s1}
    Smart = {c1}
    Waiters = {w1}
    Null = Null
    Gone = Gone
    Banners <- MCBanners
    NKeys = 1
    MaxRecv = 3
INVARIANTS
    NoPacketDropped
    ConnectFirst
    OnlineMatchesState
CHECK_DEADLOCK FALSE
