SPECIFICATION FairSpec
CONSTANTS
    NONE = NONE
    r1 = r1
    r2 = r2
    a1 = a1
    i1 = i1
    k1 = k1
    Slots = {r1, r2, a1}
    Instances = {i1}
    InstanceOf <- MCInstanceOf
    AuthSlots = {a1}
    Keys = {k1}
    KeyOf <- MCKeyOf
    Requests = 1
    StrictRequests = 1
    Threshold = 2
    HalfOpenMax = 2
    MaxEffects = 2
INVARIANTS TypeOK RepeatedOnlyIfExcused
PROPERTIES FirstAnswerStays BreakersRecover
