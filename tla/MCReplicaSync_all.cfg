SPECIFICATION Spec
CONSTANTS
    name = name
    phone = phone
    Fields = {name, phone}
    NumOrgs = 3
    MaxEvents = 3
    MaxRuns = 3
    PREFETCH = 2
SYMMETRY FieldSymmetry
INVARIANTS
    CaughtUp
PROPERTIES
    NeverMovesBack
CHECK_DEADLOCK FALSE
