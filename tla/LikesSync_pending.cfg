SPECIFICATION LikesSpec
CONSTANTS
    Kinds <- TrackLikes
    Targets = {t1}
    Payloads = {}
    NoPayload = NoPayload
    Ids = {i1, i2, i3}
    NoId = NoId
    Handlers = {h1}
    Flushers = {f1}
    BatchSize = 2
    WorkTimeout = 1
    LockTimeout = 2
    Backoff = 2
    MaxRetries = 2
    MaxRequests = 4
    MaxFaults = 0
INVARIANTS UnconfirmedIsPending
