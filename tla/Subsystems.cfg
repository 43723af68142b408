SPECIFICATION MCSpec
CONSTANTS
    itemA = itemA
    itemB = itemB
    itemC = itemC
    Ports = {"log", "param"}
    Items = {itemA, itemB, itemC}
    Firmwares <- MCFirmwares
    MaxItems = 3
    MaxSessions = 3
    Clients = {t1, t2}
    NoOne = NoOne
    Sizes = {0, 2}
    MaxTests = 2
    MaxDrops = 1
    MaxQueries = 3
    MaxApp = 2
    MaxGivenUp = 1
    Readers = {r}
    Ch = Ch
    NewLine = NewLine
    Texts <- MCTexts
    Capacity = 2
    MaxPackets = 3
    AngleCapacity = 1
    PersistCapacity = 1
    Stations <- MCStations
    MaxPersists = 2
    MaxAngles = 2
    MaxPages = 3
    Lists <- MCLists
    Supported = 2
    MaxCalls = 1
    MaxChanges = 1
    MaxSections = 3
    DeckSets <- MCDeckSets
    MaxUses = 2
    MaxFlips = 1
    FlagBytes = {0, 7}
    Changes = {1, 128, 255}
    MaxElements = 2
    Intensities = {0, 33, 101, 255}
    Malformed = Malformed
    NoElement = NoElement
    MaxSegments = 2
    None = None
    MaxSent = 2
    Numbers <- MCNumbers
    Thrusts <- MCThrusts
    Lengths <- MCLengths
INVARIANTS
    TypesOK
    TablesRight
    TestsApart
    AnswersKept
    StreamsWhole
    LighthouseTold
    PagesRight
    DecksRight
    CodecsRight
    CommandsRight
PROPERTIES
    WaitsEnd
CHECK_DEADLOCK FALSE
