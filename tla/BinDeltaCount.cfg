CONSTANTS
    Bins = {b1}
    MaxDelta = 3
    MinEmptied = 2
    Width = 8
    None = None
    MaxTotal = 4
    MaxEmptied = 2
    MaxError = 1
    MaxMisreads = 1
    MaxWaiting = 1
    MaxCrashes = 2
SPECIFICATION Spec
INVARIANTS TypeOK NeverOvercounts NeverRecounts CountsAll
CHECK_DEADLOCK FALSE
