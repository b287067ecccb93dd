SPECIFICATION Spec
CONSTANTS
    NONE = NONE
    h1 = h1
    l1 = l1
    i1 = i1
    c1 = c1
    w1 = w1
    w2 = w2
    Houses = {h1}
    Lists = {l1}
    Items = {i1}
    Cats = {c1}
    Users = {u1}
    HouseOf <- MCHouseOf
    ListOf <- MCListOf
    Readers = {r1}
    Writers = {w1, w2}
    MayFail = TRUE
    MaxCached = 1
SYMMETRY Symmetry
INVARIANTS TypeOK StaleOnlyIfExcused
