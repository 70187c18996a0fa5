SPECIFICATION FairSpec
CONSTANTS
    p1 = p1
    p2 = p2
    Procs = {p1, p2}
    NumRows = 1
    RELAY_MAX_ATTEMPTS = 2
    RELAY_BATCH = 1
    MaxFaults = 1
PROPERTIES
    DeliveryIsAtLeastOnce
CHECK_DEADLOCK FALSE
