\* Two concurrent runs of the deterministic path, under strong fairness.
SPECIFICATION FairSpec
CONSTANTS
    p1 = p1
    p2 = p2
    gold = gold
    NoOne = NoOne
    Scanners <- MCScanners
    Instruments <- MCInstruments
    Registry <- MCRegistry1
    LlmEnabled = FALSE
    MaxPerDay = 1
    BarsPerDay = 2
    MaxLag = 1
    MaxClock = 1
    MaxRuns = 2
PROPERTIES
    SignalLifecycle
    RunsEnd
