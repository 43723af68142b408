SPECIFICATION Spec
CONSTANTS
    c1 = c1
    c2 = c2
    d1 = d1
    d2 = d2
    Clients = {c1}
    Closers = {d1, d2}
    Connector = Connector
    NoOne = NoOne
    MaxRequests = 1
    Rounds = 1
    MaxCancels = 1
INVARIANT FullyDisconnected
CHECK_DEADLOCK FALSE
