CONSTANTS
    t1 = t1
    t2 = t2
    b1 = b1
    Turns = {t1, t2}
    Blanks = {b1}
    PoolSize = 2
    Endpoints <- MCEndpoints
    MaxCrashes = 1
    MaxFaults = 1
    MaxDeletes = 1
SPECIFICATION MCSpec
CHECK_DEADLOCK FALSE
INVARIANTS
    FileSound
    HistorySound
    ToldMatchesHistory
PROPERTIES
    ImplementsStore
    ListingComplete
    EveryTurnIsTold
