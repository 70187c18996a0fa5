SPECIFICATION Spec
CONSTANTS
    name = name
    phone = phone
    Fields = {name}
    NumOrgs = 2
    MaxEvents = 3
    MaxRuns = 3
    PREFETCH = 1
PROPERTIES
    ReplayIsDropped
CHECK_DEADLOCK FALSE
