SPECIFICATION StudySpec
CONSTANTS
    None = None
    r1 = r1  r2 = r2
    plain = plain  early = early
    Records = {r1, r2}
    Payloads = {plain, early}
    Terms = {"split", "dividend"}
    SlotsPerDay = 4
    MaxDay = 2
    EventBatches <- MCEventBatches
    ActionBatches <- MCActionBatches
    Open = 1
    Close = 2
    Timings = {"BMO", "AMC", "INTRADAY", "DATE_ONLY", None}
    TimingOf <- MCTimingOf
    Studies <- MCStudies
    Delays = {0, 5}
INVARIANTS
    FirstReaction
    EligibleDisjoint
    NewestUnlessMoved
PROPERTIES
    StudyReplays
CHECK_DEADLOCK FALSE
