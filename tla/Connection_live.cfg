SPECIFICATION FairSpec
CONSTANTS
    c1 = c1
    c2 = c2
    d1 = d1
    d2 = d2
    Clients = {c1}
    Closers = {d1, d2}
    Connector = Connector
    NoOne = NoOne
    MaxRequests = 2
    Rounds = 1
    MaxCancels = 1
PROPERTIES
    CloseReturns
    TasksEnd
    WaitersResolved
    AcceptedIsSent
CHECK_DEADLOCK FALSE
