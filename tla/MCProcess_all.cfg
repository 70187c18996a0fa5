SPECIFICATION ProcessFairSpec
CONSTANTS
    NumMessages = 2
    PREFETCH = 2
    MaxLosses = 1
    r1 = r1
    r2 = r2
    Requests = {r1, r2}
    LIMIT = 1
    s1 = s1
    s2 = s2
    Sessions = {s1, s2}
    Companies = {}
    ANY_COMPANY = ANY_COMPANY
    MaxEntries = 2
    MaxLoops = 2
INVARIANTS
    MessagesAreAnswered
    TriesAreBounded
    SlotsAreCounted
    CutsFollowLeaving
    PublishedWasCommitted
    CommittedIsHandedOver
PROPERTIES
    QueueDrains
    DisconnectFreesSlot
    QueueIsFlushedOnce
    HandedGetsOut
CHECK_DEADLOCK FALSE
