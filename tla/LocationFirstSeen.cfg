CONSTANTS
    Machines = {m1}
    Statuses = {s1, s2}
    Names = {n1}
    Raws = {j1}
    None = None
    MayDrop = FALSE
    MayRepeat = FALSE
    MayBlank = FALSE
    MayForget = FALSE
    MaxChanges = 2
    MaxCrashes = 0
    MaxRows = 1
SPECIFICATION Spec
PROPERTIES FirstSeenPreserved
CHECK_DEADLOCK FALSE
