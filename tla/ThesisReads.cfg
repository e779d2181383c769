\* No symmetry: it is not sound for liveness.
CONSTANTS
    None = None
    Clients = {c1, c2}
    Keys = {k1}
    Securities = {s1, s2}
    Registered = {s1}
    RowLocks = TRUE
    MaxTime = 1
    MaxVersions = 2
SPECIFICATION FairSpecReads
INVARIANTS
    ActivationsMonotone
    EditsNotLost
    ReadsAreAtomic
PROPERTIES
    NoVersionAfterArchive
    SettledReadsRepeat
    ImplementsLog
    RequestsEnd
