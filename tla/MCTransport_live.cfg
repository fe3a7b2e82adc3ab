SPECIFICATION FairNoDisconnectSpec
CONSTANTS
    u1 = u1
    s1 = s1
    Transports = {u1}
    Usb = {u1}
    Tcp = {}
    Smart = {c1}
    Waiters = {}
    Null = Null
    Gone = Gone
    Banners <- MCBanners
    NKeys = 1
    MaxRecv = 3
INVARIANTS
    CloseAfterThreads
    OfflineBeforeClose
    SmartPointersValid
    TrackersMatch
PROPERTIES
    LostDeviceIsFreed
    HandshakeAnswered
CHECK_DEADLOCK FALSE
