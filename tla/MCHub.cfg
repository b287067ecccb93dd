SPECIFICATION MCFairSpec
CONSTANTS
    NONE = NONE
    i1 = i1
    i2 = i2
    c1 = c1
    c2 = c2
    c3 = c3
    alice = alice
    bob = bob
    h1 = h1
    h2 = h2
    m1 = m1
    m2 = m2
    d1 = d1
    Instances = {i1, i2}
    Conns = {c1, c2, c3}
    ClientIds = {alice, bob}
    Households = {h1, h2}
    Broadcasts = {m1, m2}
    Directs = {d1}
    InstanceOf <- MCInstanceOf
    IdOf <- MCIdOf
    HouseholdOf <- TwoHouseholds
    Target <- MCTarget
    Cap = 1
    MaxAccepted = 2
    MaxSends = 2
    PubSubOn = TRUE
    MayShutdown = TRUE
INVARIANTS TypeOK NoPanic OnceAtHome
PROPERTIES BestEffortBroadcast ClosedConnectionsGoAway
CHECK_DEADLOCK FALSE
