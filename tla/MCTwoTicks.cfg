CONSTANTS
    MaxIterations = 6
    HistoryCap <- MCHistoryCap
    ConfidenceThreshold = 85
    AutoScale = TRUE
    AutoGenerate = TRUE
    LearnFromFailures = TRUE
    Veri3fyStages = 3
    MaxScale <- MCMaxScale
    MinPassStreak = 3
    DecayOnFailure = TRUE
    ScaleLogCap <- MCScaleLogCap
    ArtifactLogCap <- MCArtifactLogCap
    MaxStarts = 2
    MaxFaults = 0
    AbortFaults = FALSE
    MaxClockJumps = 0
SPECIFICATION Spec
INVARIANT AtMostOneTick
CHECK_DEADLOCK FALSE
