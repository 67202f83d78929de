CONSTANTS
    Machines = {m1, m2, m3}
    Workers = {w1, w2}
    NoMachine = NoMachine
    MaxBins = 2
    ScrapedCap = 1
SPECIFICATION FairSpec
INVARIANTS TypeOK CycleComplete NoSendOnClosed PoolMoves
PROPERTIES CycleEnds EveryMachineAsked
