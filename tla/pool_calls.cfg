\* Two callers, credentials of two providers.
SPECIFICATION FairPoolSpec
CONSTANTS
    scan = scan
    coroner = coroner
    Callers <- MCTwoCallers
    Flavors <- MCMixed
    Errors <- MCErrors
    Prefix = "gemini"
    RateTtl = 1
    AuthTtl = 2
    SubscriptionTtl = 2
INVARIANTS
    ExhaustedIsTrue
PROPERTIES
    NeverAskedTwice
    CallsEnd
