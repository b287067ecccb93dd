SPECIFICATION MCSpec
CONSTANTS
    NONE = NONE
    u1 = u1
    p1 = p1
    p2 = p2
    t1 = t1
    t2 = t2
    t3 = t3
    r1 = r1
    r2 = r2
    v1 = v1
    Users = {u1}
    Procs = {p1, p2}
    Tokens = {t1, t2, t3}
    ResetIds = {r1, r2}
    VerifyIds = {v1}
    MaxPwd = 3
    MayFail = TRUE
SYMMETRY Symmetry
INVARIANTS TypeOK ForksOnlyOnOverlap TerminatedUnlessUnderWay ResetRevokesEarlierSessions PasswordLedger OneResetLinkUnlessCrossed VerifiedByConsumedToken
PROPERTIES DeadFamilyStaysDead RevokedUntilExpired
