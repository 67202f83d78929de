CONSTANTS
    Flushers = {}
    Stoppers = {}
    NoFlusher = NoFlusher
    Producers = {p1}
    AlertAbove = 1
    BatchSize = 2
    ChanCap <- OneSlot
    Outcomes = {"error"}
    Refused <- NothingRefused
    MaxRows <- EventsOnly
    MaxStored = 0
SPECIFICATION MetricsSpec
PROPERTIES AlertStands
CHECK_DEADLOCK FALSE
