SPECIFICATION Spec
CONSTANTS
    None = None
    Clients = {c1, c2}
    s1 = s1  s2 = s2  idx = idx
    X = X  XM = XM  Y = Y  I = I
    k1 = k1  n1 = n1  n2 = n2
    Securities = {s1, s2, idx}
    References = {X, XM, Y, I}
    Identifiers = {X, Y, I}
    IdentifierOf <- MCIdentifierOf
    Means <- MCMeans
    SectorBenchmark <- MCSectorBenchmark
    DefaultBenchmark = I
    MarketMapping <- MCMarketMapping
    ThesisKeys = {k1}
    ThesisOwner <- MCThesisOwner
    Notes = {n1, n2, None}
    main = main  fresh = fresh
    Targets = {main, fresh}
    Uploads <- MCUploads
    Covered <- MCCovered
    MaxTime = 1
    MaxImports = 2
INVARIANTS
    ImportAtomic
    OneContentPerSnapshot
    OverlapNeedsRace
    ThesisKnownAtCutoff
PROPERTIES
    ImportsEnd
CHECK_DEADLOCK FALSE
