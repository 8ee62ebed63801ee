\* Two runs of one strategy, the tracker and the operator.
SPECIFICATION GuardsSpec
CONSTANTS
    p1 = p1
    p2 = p2
    Scanners <- MCScanners
    Outcomes <- MCOutcomes
    GuardWindow = 3
    ThrottleWindow = 2
    MaxSignals = 5
SYMMETRY ScannerSymmetry
INVARIANTS
    OnlyInFlightPublish
PROPERTIES
    LockOutIsFinal
