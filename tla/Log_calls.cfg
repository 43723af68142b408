SPECIFICATION MCSpec
CONSTANTS
    Tasks = {t1, t2}
    NoTask = NoTask
    NoId = NoId
    IdSpace = 3
    Capacity = 2
    MaxVars = 1
    MaxCreating = 2
    MaxCalls = 4
    MaxSamples = 1
    MaxCancels = 1
INVARIANTS
    TypeOK
    IdsUnique
    BlocksKept
    NoLeak
    VariablesAgree
PROPERTIES
    CallsReturn
CHECK_DEADLOCK FALSE
