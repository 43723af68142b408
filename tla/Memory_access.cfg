SPECIFICATION FairSpec
CONSTANTS
    Tasks = {t1, t2}
    Mems = {m1}
    NoMem = NoMem
    Size = 3
    MaxRequest = 2
    Extents <- MCExtents
    Data <- MCData
    Header = 1
    Junk = 2
    MaxShared = 1
    MaxCalls = 2
    MaxCancels = 1
INVARIANTS
    TypeOK
    ReadAgrees
    WritePrefix
PROPERTIES
    LendingKept
    CallsReturn
CHECK_DEADLOCK FALSE
