\* Bars through a bucket of one token that other processes empty as well.
SPECIFICATION FairJobs
CONSTANTS
    Cap = 3
    Cost = 2
    Expire = 3
    Quota = 2
    Window = 6
    Horizon = 6
    scan = scan
    Jobs <- MCJobs
    LegChoices <- MCLegs
    RetryLimit = 2
    Threshold = 3
    AlertCooldown = 2
INVARIANTS
    WindowBound
PROPERTIES
    RefinesBucket
    TellsInTime
    FailsOverFirst
    ScansEnd
