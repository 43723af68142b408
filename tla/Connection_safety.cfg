SPECIFICATION Spec
CONSTANTS
    c1 = c1
    c2 = c2
    d1 = d1
    d2 = d2
    Clients = {c1, c2}
    Closers = {d1, d2}
    Connector = Connector
    NoOne = NoOne
    MaxRequests = 2
    Rounds = 1
    MaxCancels = 0
SYMMETRY Symmetry
INVARIANTS
    TypeOK
    FullyDisconnected
PROPERTY SessionKept
CHECK_DEADLOCK FALSE
