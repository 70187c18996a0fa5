SPECIFICATION RoutingSpec
INVARIANTS
    ReadOnlyWritesFail
