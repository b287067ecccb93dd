SPECIFICATION Spec
CONSTANTS
    NONE = NONE
    l1 = l1
    x1 = x1
    p1 = p1
    p2 = p2
    c1 = c1
    Lists = {l1}
    Items = {x1}
    ListOf <- MCListOf
    Procs = {p1, p2}
    Clients = {c1}
    MaxTime = 1
    MaxVer <- MCMaxVer
    HistoryLimit = 2
    MayFail = TRUE
SYMMETRY Symmetry
INVARIANTS TypeOK MissedOnlyIfLate
PROPERTIES AbsentMeansDeleted ToldChangesArrive
