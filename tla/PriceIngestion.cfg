CONSTANTS
    None = None
    yahoo = yahoo
    fixture = fixture
    y1 = y1
    f1 = f1
    f2 = f2
    s1 = s1
    s2 = s2
    Clients = {c1, c2}
    Providers = {yahoo, fixture}
    FetchStamping = {yahoo}
    Requests = {y1, f1, f2}
    ProviderOf <- BothProviders
    Items <- AskedItems
    Sessions = {0}
    Values = {v1, v2}
    MaxTime = 1
SPECIFICATION Spec
SYMMETRY IngestionSymmetry
INVARIANTS
    BarsHaveBatch
PROPERTIES
    SettledHistoryRepeats
    ImplementsFeed
