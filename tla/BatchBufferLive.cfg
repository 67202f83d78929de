CONSTANTS
    Flushers = {f1}
    Stoppers = {s1, s2}
    NoFlusher = NoFlusher
    BatchSize = 2
    ChanCap <- SmallChannels
    Outcomes = {"ok", "error"}
    Refused <- FirstRefused
    MaxRows <- TwoTables
    MaxStored = 0
SPECIFICATION RecoveringSpec
INVARIANTS ExactlyOnce FlushCovers StopCovers
PROPERTIES FlushReturns StopEnds Delivered
CHECK_DEADLOCK FALSE
