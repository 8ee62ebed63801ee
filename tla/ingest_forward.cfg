\* A provider that counts forward from since; outages of any length.
SPECIFICATION FairSpec
CONSTANTS
    Legs <- MCForward
    Limit = 5
    ColdLimit = 3
    GapBars = 1
    MaxBad = 1
    Horizon = 8
INVARIANTS
    NoHole
    PartialIsNewest
PROPERTIES
    CatchesUp
