SPECIFICATION Spec
CONSTANTS
    None = None
    Securities = {1, 2, 3, 4}
    FeatureNames = {1, 2}
    Versions = {"a", "b"}
    Configs = {"v0"}
    Numbers = {1, 2, 3, 4}
    Sections <- MCSections
    MaxTime = 3
    MaxRuns = 2
    Registry <- MCRegistry
    Definitions <- MCDefinitions
    Histories <- MCHistories
    Unit = 12
    Decisions = {0, 1, 2, 3}
    Calendar = {0, 2, 3}
    Period <- MCPeriod
    Specs <- MCSpecs
    Missing = None
    Series = {"eps"}
    Contributors = {"x", "y"}
    Amounts = {0, 1, 2, 3, 4, 9}
    WholeFloat = 4
    Lookback = 1
    VendorBatches <- MCVendorBatches
INVARIANTS
    NeutralOrFlat
PROPERTIES
    AnswersReplay
    NoLookAhead
    VendorAnswersReplay
CHECK_DEADLOCK FALSE
