SPECIFICATION Spec
CONSTANTS
    Clients = {t1, t2}
    Stations <- MCStations
    AngleCapacity = 1
    PersistCapacity = 1
    MaxPersists = 2
    MaxAngles = 0
INVARIANTS
    PersistHonest
CHECK_DEADLOCK FALSE
