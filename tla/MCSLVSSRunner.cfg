CONSTANTS
    MaxIterations <- MCMaxIterations
    HistoryCap <- MCHistoryCap
    ConfidenceThreshold = 85
    AutoScale = TRUE
    AutoGenerate = TRUE
    LearnFromFailures = TRUE
    Veri3fyStages = 3
    MaxScale <- MCMaxScale
    MinPassStreak = 3
    DecayOnFailure = TRUE
    ScaleLogCap <- MCScaleLogCap
    ArtifactLogCap <- MCArtifactLogCap
    MaxStarts = 1
    MaxFaults = 2
    AbortFaults = TRUE
    MaxClockJumps = 1
SPECIFICATION Spec
INVARIANT TypeOK
INVARIANT ScaleWithinBounds
INVARIANT StreaksMatchReference
INVARIANT GenerationMatchesSpec
INVARIANT GateMatchesSpec
INVARIANT WeightsWithinUnit
INVARIANT PassesLearned
CHECK_DEADLOCK FALSE
