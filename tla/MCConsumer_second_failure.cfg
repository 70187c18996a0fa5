SPECIFICATION ConsumerSpec
CONSTANTS
    NumMessages = 1
    PREFETCH = 1
    MaxLosses = 1
INVARIANTS
    SecondFailureDrops
CHECK_DEADLOCK FALSE
