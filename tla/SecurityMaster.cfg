SPECIFICATION Spec
CONSTANTS
    None = None
    Clients = {c1, c2}
    s1 = s1  s2 = s2  idx = idx
    X = X  I = I
    plain = plain  mic = mic
    Securities = {s1, s2, idx}
    Names = {X, I}
    Spaces = {plain, mic}
    Matches <- MCMatches
    Uploads <- MCUploads
    MaxTime = 1
SYMMETRY MCSymmetry
INVARIANTS
    OverlapNeedsConcurrency
    MappingJustified
    LaterRowsResolve
PROPERTIES
    BenchmarkAnswersRepeat
