SPECIFICATION ToggleRefreshSpec
CONSTANTS
    Kinds <- TrackLikes
    Targets = {t1, t2}
    Payloads = {}
    NoPayload = NoPayload
    Ids = {i1, i2}
    NoId = NoId
    Handlers = {h1}
    Flushers = {f1}
    BatchSize = 2
    WorkTimeout = 1
    LockTimeout = 2
    Backoff = 2
    MaxRetries = 2
    MaxRequests = 2
    MaxFaults = 1
    Refreshers = {r1}
    ChunkSize = 1
PROPERTIES ViewHeals
