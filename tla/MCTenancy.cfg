SPECIFICATION Spec
CONSTANTS
    NONE = NONE
    Houses = {h1}
    Users = {u1, u2}
    Cats = {c1, c2}
    Procs = {p1, p2}
SYMMETRY Symmetry
INVARIANTS TypeOK OwnerIsMember OrphansOnlyByRace PositionsDistinctUnlessRaced
CHECK_DEADLOCK FALSE
