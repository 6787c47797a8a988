CONSTANTS
    MaxIterations = 5
    HistoryCap <- MCHistoryCap
    ConfidenceThreshold = 85
    AutoScale = FALSE
    AutoGenerate = TRUE
    LearnFromFailures = TRUE
    Veri3fyStages = 3
    MaxScale <- MCMaxScale
    MinPassStreak = 3
    DecayOnFailure = TRUE
    ScaleLogCap <- MCScaleLogCap
    ArtifactLogCap <- MCArtifactLogCap
    MaxStarts = 2
    MaxFaults = 1
    AbortFaults = FALSE
    MaxClockJumps = 1
SPECIFICATION Spec
PROPERTY Progress
CHECK_DEADLOCK FALSE
