CONSTANTS
    Machines = {m1, m2}
    Workers = {w1, w2}
    NoMachine = NoMachine
    MaxBins = 1
    ScrapedCap = 1
SPECIFICATION Spec
INVARIANTS SuccessMeansScraped
