SPECIFICATION FairSpec
CONSTANTS
    Users = {u1, u2}
    Params = {p1, p2}
    Persistent = {p1}
    Writable = {p1}
    Unknown = Unknown
    Unsupported = Unsupported
    NoOne = NoOne
    MaxCalls = 2
    MaxMalformed = 1
    MaxCancels = 1
INVARIANTS
    TypeOK
    OwnAnswers
    StateCurrent
    DefaultsRight
    LastAgrees
PROPERTIES
    CallsReturn
CHECK_DEADLOCK FALSE
