\* Two processes share a login of the gateway, while it is logged in, out and rerouted.
SPECIFICATION FairSpec
CONSTANTS
    worker = worker
    api = api
    Procs <- MCProcs
    PollLimit = 2
    MaxIssued = 3
    Families <- MCFamilies
    InitialKeys <- MCKeys
    WizardArgs <- MCWizardArgs
    DefaultModel <- MCDefaultModel
    Profiles <- MCProfiles
    FlavorOf <- MCFlavorOf
    KnownOAuth <- MCKnownOAuth
    KindOf <- MCKindOf
    ValidAccounts = {"default", "work"}
    AdcAccounts <- MCAdc
    HasVertex = TRUE
    InitialSettings <- MCSettings
    Mine <- MCMine
    Others <- MCOthers
    UseArgs <- MCUseArgs
    MaxUses = 1
INVARIANTS
    StoredIsAlive
PROPERTIES
    LoginEnds
    RoutesResolve
