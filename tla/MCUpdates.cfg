CONSTANTS
    pool = pool
    target = target
    r1 = r1
    web = web
    d1 = d1
    c1 = c1
    day1 = day1
    None = None
    Ids = {1, 2}
    Slots = {pool, target}
    Scheduled = {pool}
    Days = {day1}
    Workers = {web, d1}
    Services = {d1}
    Mortal = {d1}
    Stoppable = {web}
    Clients = {c1}
    Runs = {r1}
    RunOf <- MCRunOf
    MaxToggles = 1
CHECK_DEADLOCK FALSE
SPECIFICATION Spec
INVARIANTS
    QueueSafe
    
PROPERTIES
    ManualUpdatesStay
    ClosesAfterRun
    ChildQueue
    AskedUpdatesEnd
