\* Every strategy on the frames about the thresholds it tests.
SPECIFICATION Spec
CONSTANTS
    ATR = 100
    Centre = 20000
    Tick = 20
    Equity = 10000
    BlackoutBefore = 2
    BlackoutAfter = 1
    DriftMax = 5
    MaxPerDay = 3
    RrMin = 15
    MultiTimeframe = TRUE
    Frames <- MCFrames
    Contexts <- MCContexts
    Flaws <- MCFlaws
    Tables <- MCTables
    Adx <- MCAdx
    Risks <- MCRisks
    LotSteps <- MCLotSteps
    Prices <- MCPrices
    Profile <- MCProfile
    LlmEnabled <- MCBoth
INVARIANTS
    MirrorSymmetric
    CandidateIsSound
    NeverOverRisks
    NoNewsAtPublish
    TradesItsRegime
