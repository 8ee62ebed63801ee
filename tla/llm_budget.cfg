\* Two scans over two days, every way a call may fail.
SPECIFICATION Spec
CONSTANTS
    p1 = p1
    p2 = p2
    NoOne = NoOne
    Scanners <- MCScanners
    Scores <- MCScores
    Market <- MCMarket
    Indicators <- MCIndicators
    Suspicious <- MCSuspicious
    Assessments <- MCAssessments
    Reviews <- MCReviews
    Costs <- MCCosts
    Failures <- MCAllFailures
    CapUsd = 5
    ConfidenceMin = 55
    FallbackScore = 75
    DoubtLow = 48
    DoubtHigh = 63
    RedisFails = TRUE
    MaxScans = 2
    MaxDay = 1
SYMMETRY ScannerSymmetry
INVARIANTS
    NeverOvercharged
    GateAgrees
PROPERTIES
    StopsCalling
CHECK_DEADLOCK FALSE
