SPECIFICATION Spec
CONSTANTS
    Tasks = {t1, t2}
    NoTask = NoTask
    NoId = NoId
    IdSpace = 3
    Capacity = 2
    MaxVars = 1
    MaxCreating = 1
    MaxCalls = 2
    MaxSamples = 1
    MaxCancels = 0
SYMMETRY Symmetry
INVARIANTS
    StreamsSurvive
CHECK_DEADLOCK FALSE
