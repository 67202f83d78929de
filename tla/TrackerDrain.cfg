CONSTANTS
    Flushers = {}
    Stoppers = {"main"}
    NoFlusher = NoFlusher
    BatchSize = 2
    ChanCap <- Channels
    MaxStored = 0
    MaxAttempts = 2
    Outcomes = {"ok"}
    Refused <- NothingRefused
    MaxRows <- OneRow
    MaxRowsPerPoll = 1
    Unset = Unset
    Garbage = Garbage
    NaN = NaN
    Numbers <- SomeNumbers
SPECIFICATION TrackerSpec
INVARIANTS GracefulDrain
CHECK_DEADLOCK FALSE
