\* Two goroutines reload while a call runs; one API at the start, one new.
SPECIFICATION Spec
CONSTANTS
    Names = {a, b}
    SetupNames = {a}
    Entries <- FewEntries
    Configs <- FewConfigs
    Callers = {c1}
    Reloaders = {t1, t2}
    MaxEdits = 3
INVARIANTS
    AllOrNothing
    HystrixOutlastsDeadline
    SetupCallsHaveTime
    QuietMeansCurrent
PROPERTIES
    CommandsStay
    ReloadsReturn
    RefinesRegistry
