SPECIFICATION Spec
CONSTANTS
    None = None
    Unit = 4
    Features = {"residual", "volume", "relative", "beta"}
    Impacts <- MCImpacts
    Contents <- MCContents
    FullScore = 4
    Components <- MCComponents
    Labels <- MCLabels
    Securities = {1, 2}
    Snapshots <- MCSnapshots
    Weights <- MCWeights
    Limit = 1
    MaxFindings = 2
INVARIANTS
    PipelineAccepted
    EvidenceOnlyAdds
    WeightOnlyPrioritizes
    BreachReachesCard
    BriefKeepsTiers
CHECK_DEADLOCK FALSE
