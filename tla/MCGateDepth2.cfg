CONSTANTS
    MaxIterations <- MCMaxIterations
    HistoryCap <- MCHistoryCap
    ConfidenceThreshold = 100
    AutoScale = TRUE
    AutoGenerate = TRUE
    LearnFromFailures = TRUE
    Veri3fyStages = 2
    MaxScale <- MCMaxScale
    MinPassStreak = 3
    DecayOnFailure = TRUE
    ScaleLogCap <- MCScaleLogCap
    ArtifactLogCap <- MCArtifactLogCap
    MaxStarts = 1
    MaxFaults = 2
    AbortFaults = TRUE
    MaxClockJumps = 1
SPECIFICATION Spec
INVARIANT GateMatchesSpec
CHECK_DEADLOCK FALSE
