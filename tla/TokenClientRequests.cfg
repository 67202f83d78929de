CONSTANTS
    Requests = {r1, r2}
    MaxRetries = 1
    MaxEpoch = 1
    Now = 17900
    Hour = 36
    AbsoluteFrom = 1000
    MillisAbove = 1000000
    Lifetimes = {1, 999}
SPECIFICATION FairSpec
INVARIANTS TypeOK SingleFlight FreshToken LifetimeHonoured
PROPERTIES FetchOnlyWhenNeeded NoForeignCancellation RequestsEnd
CHECK_DEADLOCK FALSE
