SPECIFICATION MCSpec
CONSTANTS
    NONE = NONE
    KEEP = KEEP
    x1 = x1
    e1 = e1
    e2 = e2
    p1 = p1
    p2 = p2
    Items = {x1}
    HistIds = {e1, e2}
    Cats = {}
    OwnCats = {}
    Procs = {p1, p2}
    BaseGiven = TRUE
    MayFail = FALSE
SYMMETRY Symmetry
PROPERTIES GuardedUpdateMatchesStored
CHECK_DEADLOCK FALSE
