SPECIFICATION Spec
CONSTANTS
    s1 = s1
    s2 = s2
    c1 = c1
    c2 = c2
    ANY_COMPANY = ANY_COMPANY
    Sessions = {s1, s2}
    Companies = {c1, c2}
    MaxEntries = 2
    MaxLoops = 2
INVARIANTS
    LabelsAreResolved
CHECK_DEADLOCK FALSE
