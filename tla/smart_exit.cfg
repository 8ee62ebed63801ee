\* Every bar between the prices, with gaps.
SPECIFICATION ExitSpec
CONSTANTS
    Risk = 4
    Target = 10
    PartialAt = 4
    BreakevenAt = 4
    TrailAt = 6
    Trails <- MCTrails
    Reach = 12
INVARIANTS
    LossIsBounded
PROPERTIES
    StopNeverLoosens
CHECK_DEADLOCK FALSE
