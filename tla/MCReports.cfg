CONSTANTS
    None = None
    NULL = NULL
    a = a
    b = b
    s1 = s1
    Callers = {"api", "cli"}
    Subs = {s1}
    Runs = {1, 2}
    Switches = {TRUE}
    MaxSymbols = 2
    MaxFaults = 1
    NoFile = NoFile
    Stock = {a}
    Index = {b}
    Gold = {}
    Sweepers = {"loop"}
    MaxMishaps = 2
    MaxReads = 1
    MaxCrashes = 1
    Requests <- RequestSet
    Prices = {0, 30, 150}
    Statements <- StatementSet
    Valuations <- ValuationSet
    Industries <- IndustrySet
    Newses <- NewsSet
    Marks <- MarkSet
    Risks = {0, 10}
    Sector = "general"
    MaxFailures = 1
CHECK_DEADLOCK FALSE
SPECIFICATION ReportsSpec
INVARIANTS
    
    ReportSound
    ArchiveSafe
    PushSafe
PROPERTIES
    ReportStepsKept
