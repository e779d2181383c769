\* SQLite: the row lock is not taken.
CONSTANTS
    None = None
    Clients = {c1, c2}
    Keys = {k1}
    Securities = {s1, s2}
    Registered = {s1}
    RowLocks = FALSE
    MaxTime = 2
    MaxVersions = 2
SPECIFICATION Spec
PROPERTY NoVersionAfterArchive
