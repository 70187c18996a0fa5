SPECIFICATION CacheSpec
CONSTANTS
    Callers = {alice}
    ENTITLEMENTS_TTL = 2
    TYPE_TTL = 1
    PROCESS_TTL = 1
    MaxFlight = 1
INVARIANTS
    PhoneGetsNothing
