CONSTANTS
    Machines = {m1, m2}
    Statuses = {s1, s2}
    Names = {n1}
    Raws = {j1}
    None = None
    MayDrop = TRUE
    MayRepeat = TRUE
    MayBlank = FALSE
    MayForget = TRUE
    MaxChanges = 2
    MaxCrashes = 1
    MaxRows = 1
SPECIFICATION Spec
SYMMETRY Perms
VIEW NoLost
INVARIANTS TypeOK DatabaseFollows
PROPERTIES PollSettles
CHECK_DEADLOCK FALSE
