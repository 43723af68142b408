SPECIFICATION FairSpec
CONSTANTS
    Users = {u1, u2}
    Params = {p1, p2}
    Settable = {p1}
    Changing = {p2}
    Values = {1, 2}
    ErrorCode = 9
    NoValue = NoValue
    Loop = Loop
    NoOne = NoOne
    MaxCalls = 2
    MaxStreams = 1
    MaxUpdates = 1
    MaxCancels = 1
INVARIANTS
    TypeOK
    CacheCoherent
    WatchersAgree
    SetHonest
PROPERTIES
    CallsReturn
CHECK_DEADLOCK FALSE
