CONSTANTS
    Machines = {m1}
    Statuses = {s1, s2}
    Names = {n1, n2}
    Raws = {j1, j2}
    None = None
    MayDrop = FALSE
    MayRepeat = FALSE
    MayBlank = TRUE
    MayForget = FALSE
    MaxChanges = 3
    MaxCrashes = 1
    MaxRows = 1
SPECIFICATION FairSpec
INVARIANTS EventsTellAll
PROPERTIES Reconciled PollSettles
CHECK_DEADLOCK FALSE
