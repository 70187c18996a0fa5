SPECIFICATION Spec
CONSTANTS
    p1 = p1
    p2 = p2
    Procs = {p1, p2}
    NumRows = 2
    RELAY_MAX_ATTEMPTS = 2
    RELAY_BATCH = 2
    MaxFaults = 1
SYMMETRY ProcSymmetry
INVARIANTS
    PublishedWasDelivered
    ClaimsAreExclusive
    CopiesAreCounted
    DuplicatesHaveFaults
PROPERTIES
    KeepsPromise
CHECK_DEADLOCK FALSE
