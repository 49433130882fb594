CONSTANTS
    s1 = s1
    s2 = s2
    h1 = h1
    h2 = h2
    c1 = c1
    c2 = c2
    c3 = c3
    k1 = k1
    k2 = k2
    None = None
    NULL = NULL
    Servers = {s1}
    Commands = {c1}
    Values <- ConfigValues
    Default <- ConfigDefault
    Legacy = 20
    Unversioned = FALSE
    MaxSaves = 2
    MaxFaults = 1
    Unset = Unset
    Timeout = 6
    Retries = 2
    Limits = {2, 3, 5, 9}
    Budgets = {1, 4}
    AutoBudget = 3
    Gens = {1, 2, 3}
    Subs = {s1, s2}
    Handlers = {h1, h2}
CHECK_DEADLOCK FALSE
SPECIFICATION ProcessSpec
INVARIANTS
    RuntimeSafe
    ProcessSafe
PROPERTIES
    SwitchIsWhole
    CallKept
    DocumentKept
    WorkEnds
