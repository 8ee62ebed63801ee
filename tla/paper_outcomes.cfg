\* One crypto signal, every price path of three bars, under the tracker's fairness.
SPECIFICATION FairSpec
CONSTANTS
    Trades <- MCTrades
    Bars <- MCBars
    Minutes <- MCMinutes
    Crypto = TRUE
    MaxBars = 3
INVARIANTS
    ResolvedWasFilled
    WorstCase
    DifferOnlyAtTheFill
PROPERTIES
    OutcomeIsFinal
    UnfilledExpires
CHECK_DEADLOCK FALSE
