CONSTANTS
    k1 = k1
    k2 = k2
    s1 = s1
    s2 = s2
    d1 = d1
    d2 = d2
    web = web
    c1 = c1
    c2 = c2
    None = None
    Days = {1, 2}
    Pools = {"p1", "p2"}
    PoolOf <- MCPoolOf
    TargetOf <- MCSameDay
    LeaseTicks = 1
    ShortDelay = 1
    LongDelay = 1
    LastDay = 1
    Keys = {k1}
    Symbols = {s1}
    Workers = {d1, d2}
    Daemons = {d1, d2}
    Mortal = {d1}
    Stoppable = {}
    Clients = {c1}
    MaxToggles = 2
    MaxEdits = 0
SPECIFICATION EndsSpec
PROPERTIES
    CancelledRunsReturn
    SwitchOffDrains
    DemandEnds
