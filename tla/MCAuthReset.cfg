SPECIFICATION MCSpec
CONSTANTS
    NONE = NONE
    u1 = u1
    p1 = p1
    p2 = p2
    t1 = t1
    t2 = t2
    t3 = t3
    r1 = r1
    Users = {u1}
    Procs = {p1, p2}
    Tokens = {t1, t2, t3}
    ResetIds = {r1}
    VerifyIds = {}
    MaxPwd = 2
    MayFail = FALSE
SYMMETRY Symmetry
INVARIANTS ResetEndsEverySession
CHECK_DEADLOCK FALSE
