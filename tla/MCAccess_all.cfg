SPECIFICATION AccessSpec
CONSTANTS
    MaxSeconds = 2
    MaxVersion = 1
    RATE = 2
    BURST = 7
    COST = 3
    EXPIRY = 5
    MaxTicks = 8
    MaxSetBack = 3
    LIMIT = 2
    WINDOW = 3
    Servers = {s1, s2}
    s1 = s1
    s2 = s2
    MaxAhead = 1
    Draws = {1, 2}
    MaxElapsed = 5
    blue = blue
    ocean = ocean
    org = org
    customer = customer
    load = load
    new = new
    Companies = {blue, ocean}
    Rows = {org, customer, load, new}
    Stored <- MCStored
    RecordOf <- MCRecord
    MaxSwitches = 1
    a = a
    b = b
    NoLine = NoLine
    Lines = {a, b}
    ValidLines = {a}
    MaxRecords = 3
    MaxTime = 1
INVARIANTS
    RightsAreLive
    RefusalsHaveCause
    TablesAgree
    RateIsKept
    WindowIsKept
    RowsStayInCompany
    FiledWhereMeant
    EvaluateIsPolicy
    StopHolds
CHECK_DEADLOCK FALSE
