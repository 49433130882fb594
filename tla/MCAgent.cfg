CONSTANTS
    a = a
    b = b
    s1 = s1
    t1 = t1
    strange = strange
    unknown = unknown
    N = 3
    Unknown = unknown
    Tools = {t1}
    Strange = strange
    Matches <- AgentMatches
    Turns = {a, b}
    Streams = {a}
    Vague = {a}
    Sessions = {s1}
    Window = 7
    LoopCalls = 1
    PlanSteps = 1
CHECK_DEADLOCK FALSE
SPECIFICATION AgentSpec
INVARIANTS
    PlanSafe
    ChatSafe
PROPERTIES
    ManualTitleStays
    AgentEnds
