SPECIFICATION FairSpec
CONSTANTS
    new1 = new1
    new2 = new2
    old = old
    Instances = {new1, new2, old}
    NumFiles = 4
    Shipped <- MCShipped
    ReRunnable <- MCReRunnable
    InModels <- MCInModels
    MaxStops = 2
INVARIANTS TypeOK ServesOnFullSchema StuckOnlyIfInterrupted
PROPERTIES ServesInTheEnd
CHECK_DEADLOCK FALSE
