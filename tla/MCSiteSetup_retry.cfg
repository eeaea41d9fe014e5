\* One caller, who tries a second time.
SPECIFICATION Spec
CONSTANTS
    Callers = {c1}
    Sites = {s1}
    Providers = {"google", "bing", "cloudflare"}
    AccountIds = {"google", "google2", "bing", "cloudflare"}
    ProviderOf <- MCProviderOf
    ProviderOrder <- MCProviderOrder
    DefaultId <- MCDefaultId
    TargetIds = {"site", "bing"}
    NoSite = NoSite
    None = None
    InitialStates <- MCInitialStates
    MaxStarts = 2
INVARIANT
    RetriesReuseTheStream
CHECK_DEADLOCK FALSE
