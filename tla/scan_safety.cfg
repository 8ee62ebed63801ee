\* Two concurrent runs, one strategy, LLM pipeline on.
SPECIFICATION Spec
CONSTANTS
    p1 = p1
    p2 = p2
    gold = gold
    NoOne = NoOne
    Scanners <- MCScanners
    Instruments <- MCInstruments
    Registry <- MCRegistry1
    LlmEnabled = TRUE
    MaxPerDay = 1
    BarsPerDay = 3
    MaxLag = 1
    MaxClock = 2
    MaxRuns = 2
SYMMETRY ScannerSymmetry
INVARIANTS
    ChainLinked
    InsertNeverConflicts
    DailyCapOpen
    PublishedIsAudited
    SentAtMostOnce
PROPERTIES
    AuditRefinesLog
