CONSTANTS
    k1 = k1
    k2 = k2
    s1 = s1
    s2 = s2
    d1 = d1
    d2 = d2
    web = web
    c1 = c1
    c2 = c2
    None = None
    Days = {1, 2, 3}
    Pools = {"p1"}
    PoolOf <- StorePoolOf
    TargetOf <- StoreTargetOf
    LeaseTicks = 2
    ShortDelay = 1
    LongDelay = 2
    LastDay = 2
    Keys = {k1, k2}
    Symbols = {s1, s2}
    Workers = {d1, d2}
    Daemons = {}
    Mortal = {}
    Stoppable = {}
    Clients = {}
    MaxToggles = 0
    MaxEdits = 0
SYMMETRY Symmetry
SPECIFICATION StoreSpec
INVARIANTS
    TypeOK
    SingleRunning
    RowsConsistent
PROPERTIES
    DoneWorkStays
    ManualRunsStay
    ImplementsQueue
