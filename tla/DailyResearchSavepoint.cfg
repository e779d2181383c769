CONSTANTS
    None = None
    s1 = s1
    s2 = s2
    k1 = k1
    Clients = {c1}
    Securities = {s1, s2}
    Benchmark <- SecondIsBenchmark
    ThesisOf <- NoThesis
    Keys = {}
    Batches = {b1}
    Sessions = {0}
    AsOf = 0
    Cutoffs = {0}
    MinBars = 1
    Sqlite = TRUE
    MaxVersions = 1
    MaxTime = 1
SPECIFICATION Spec
INVARIANTS
    RunAtomic
CHECK_DEADLOCK FALSE
