SPECIFICATION Spec
CONSTANTS
    Users = {u1}
    Params = {p1}
    Settable = {p1}
    Changing = {p1}
    Values = {1, 2}
    ErrorCode = 9
    NoValue = NoValue
    Loop = Loop
    NoOne = NoOne
    MaxCalls = 1
    MaxStreams = 1
    MaxUpdates = 1
    MaxCancels = 0
SYMMETRY Symmetry
INVARIANTS
    CacheCoherent
CHECK_DEADLOCK FALSE
