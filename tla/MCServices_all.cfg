SPECIFICATION ServicesSpec
CONSTANTS
    alice = alice
    bob = bob
    Callers = {alice, bob}
    ENTITLEMENTS_TTL = 2
    TYPE_TTL = 1
    PROCESS_TTL = 1
    MaxFlight = 1
    Workers = {alice, bob}
    MaxDeliveries = 3
    MaxStamps = 2
    Tasks = {alice, bob}
    MaxLoops = 2
    MaxClients = 4
    TextLength = 6
    MaxMatches = 3
    MaxTail = 1
    Stretches <- MCStretches
    FieldKeys = 2
    VehicleKeys = {1}
    MaxIndex = 1
    Newlines <- MCNewlines
    Blanks <- MCBlanks
    Gaps <- MCGaps
    Moves <- MCMoves
    Asks <- MCAsks
    NoAsk = NoAsk
    Columns = {"status", "token"}
    Ignored = {}
    Sensitive = {"token"}
    Significant = {"status"}
    Lifecycle = "status"
    Unloaded = Unloaded
    NO_VALUE = NO_VALUE
    MaxFlushes = 3
    Threads = {alice, bob}
    BUCKET = "b"
    Keys <- MCKeys
    MaxCalls = 4
    MonthLengths <- MCMonths
    Offsets <- MCOffsets
    Broken = Broken
    NoZone = NoZone
    Todays <- MCTodays
    CustomDays <- MCCustom
INVARIANTS
    AnswersAreRecent
    AnswersFitTheOutage
    DedupHasCause
    NewestIsLatest
    ClientsAreKept
    WritesHaveATransaction
    WordsAreReadOnce
    PricesStayInBand
    EntriesTellTheRow
    UploadsAreFound
    DaysCoverTime
    PriorIsComparable
CHECK_DEADLOCK FALSE
SYMMETRY Symmetry
