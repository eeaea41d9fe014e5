\* Two callers that run any of the operations, three operations in all.
SPECIFICATION Spec
CONSTANTS
    Callers = {c1, c2}
    Sites = {s1}
    Providers = {"google", "bing", "cloudflare"}
    AccountIds = {"google", "google2", "bing", "cloudflare"}
    ProviderOf <- MCProviderOf
    ProviderOrder <- MCProviderOrder
    DefaultId <- MCDefaultId
    TargetIds = {"site", "bing"}
    NoSite = NoSite
    None = None
    InitialStates <- MCInitialStates
    MaxStarts = 3
INVARIANTS
    OneStreamPerSite
    FileNamesWhatExists
    ReportsAreTrue
    RecordsUnique
    TargetsUseTheKey
    FileLoads
PROPERTY UpdatesSurvive
SYMMETRY CallersAlike
CHECK_DEADLOCK FALSE
