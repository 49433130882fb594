CONSTANTS
    None = None
    Collectors = {1}
    PerCollector = 2
    Sources = 1
    Attempts = 2
    Days = {1, 2, 3}
    Dated = TRUE
    Compared = TRUE
    Normal = 2
    Retry = 1
    Threshold = 2
    OpenFor = 3
    MaxTime = 3
    MaxFaults = 1
CHECK_DEADLOCK FALSE
SPECIFICATION MCSpec
INVARIANTS
    CollectionSafe
PROPERTIES
    HistoryKept
    SourcesRest
    CollectionStepsKept
