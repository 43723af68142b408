SPECIFICATION Spec
CONSTANTS
    Tasks = {t1, t2}
    NoTask = NoTask
    NoId = NoId
    IdSpace = 4
    Capacity = 2
    MaxVars = 1
    MaxCreating = 2
    MaxCalls = 3
    MaxSamples = 1
    MaxCancels = 0
SYMMETRY Symmetry
INVARIANTS
    NoCircularWait
CHECK_DEADLOCK FALSE
