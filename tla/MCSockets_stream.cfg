SPECIFICATION FairSpec
CONSTANTS
    Smart = {a}
    Forward = {b}
    Service = {c}
    MaxOpen = 1
    MaxUnits = 3
    Payload = 2
    Room = 1
INVARIANTS
    StatusFirst
    FlowControl
    EventsMatchState
PROPERTIES
    StreamPromise
    ClientLeftIsFreed
    UploadProgresses
    LostLinkReleases
CHECK_DEADLOCK FALSE
