CONSTANTS
    Flushers = {}
    Stoppers = {s1}
    NoFlusher = NoFlusher
    Producers = {p1, p2}
    AlertAbove = 1
    BatchSize = 2
    ChanCap <- OneSlot
    Outcomes = {"ok", "error", "unacked"}
    Refused <- NothingRefused
    MaxRows <- EventsOnly
    MaxStored = 2
SPECIFICATION MetricsSpec
INVARIANTS MetricsTypeOK InOrder AckedRowsDurable InsertedCounts
PROPERTIES LogImplemented
CHECK_DEADLOCK FALSE
