CONSTANTS
    None = None
    s1 = s1
    s2 = s2
    k1 = k1
    Clients = {c1}
    Securities = {s1, s2}
    Benchmark <- NoBenchmark
    ThesisOf <- ThesisOnFirst
    Keys = {k1}
    Batches = {b1}
    Sessions = {0}
    AsOf = 0
    Cutoffs = {0}
    MinBars = 1
    Sqlite = FALSE
    MaxVersions = 2
    MaxTime = 1
SPECIFICATION Spec
PROPERTIES
    RefusalJustified
    PastInboxStable
CHECK_DEADLOCK FALSE
