SPECIFICATION MCSpec
CONSTANTS
    NONE = NONE
    KEEP = KEEP
    x1 = x1
    x2 = x2
    e1 = e1
    own = own
    foreign = foreign
    p1 = p1
    p2 = p2
    Items = {x1, x2}
    HistIds = {e1}
    Cats = {own, foreign}
    OwnCats = {own}
    Procs = {p1, p2}
    BaseGiven = FALSE
    MayFail = TRUE
SYMMETRY Symmetry
INVARIANTS TypeOK ScheduledOnlyIfCompleted CompletedRecurringIsScheduled CompletedItemsWereRecorded CategoryOfOwnHousehold
