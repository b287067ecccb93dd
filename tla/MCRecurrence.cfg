SPECIFICATION Spec
CONSTANTS
    NONE = NONE
    KEEP = KEEP
    Starts <- MCStarts
    MaxDays = 35
INVARIANTS ReappearsAfterItsPeriod
