SPECIFICATION MCSpec
CONSTANTS
    NONE = NONE
    i1 = i1
    i2 = i2
    c1 = c1
    c2 = c2
    c3 = c3
    alice = alice
    bob = bob
    h1 = h1
    h2 = h2
    m1 = m1
    m2 = m2
    d1 = d1
    Instances = {i1, i2}
    Conns = {c1, c2, c3}
    ClientIds = {alice, bob}
    Households = {h1, h2}
    Broadcasts = {m1}
    Directs = {}
    InstanceOf <- MCInstanceOf
    IdOf <- MCIdOf
    HouseholdOf <- OneHousehold
    Target <- MCTarget
    Cap = 1
    MaxAccepted = 1
    MaxSends = 2
    PubSubOn = TRUE
    MayShutdown = FALSE
INVARIANTS ConnectedClientsAreMapped
CHECK_DEADLOCK FALSE
