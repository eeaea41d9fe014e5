SPECIFICATION ServiceSpec
CONSTANTS
    Wanted <- AllMethods
    MaxRequests = 3
    BatchSize = 3
    u1 = u1
    u2 = u2
    u3 = u3
    s1 = s1
    s2 = s2
    Url = {u1, u2, u3}
    Sender = {s1, s2}
    Window = 2
    MaxAttempts = 2
    MaxRecent = 2
    MaxBatch = 2
    MaxTime = 4
SYMMETRY Symmetry
INVARIANTS
    AnswersTellEffects
    SurfacesAgree
    InFlightDisjoint
    RateLimited
    PendingIsInFlight
PROPERTIES
    DeclaredEffects
    ResentOnlyAfterEviction
CHECK_DEADLOCK FALSE
