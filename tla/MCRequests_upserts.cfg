SPECIFICATION ServiceSpec
CONSTANTS
    Wanted <- Upserts
    MaxRequests = 2
    BatchSize = 1
    s1 = s1
    Url = {}
    Sender = {s1}
    Window = 1
    MaxAttempts = 1
    MaxRecent = 1
    MaxBatch = 1
    MaxTime = 0
PROPERTY
    RepeatsAddNothing
CHECK_DEADLOCK FALSE
