\* Two backend processes, two concurrent requests on one track.
SPECIFICATION LikesSpec
CONSTANTS
    Kinds <- TrackLikes
    Targets = {t1}
    Payloads = {}
    NoPayload = NoPayload
    Ids = {i1, i2, i3, i4}
    NoId = NoId
    Handlers = {h1, h2}
    Flushers = {f1, f2}
    BatchSize = 2
    WorkTimeout = 1
    LockTimeout = 2
    Backoff = 2
    MaxRetries = 2
    MaxRequests = 3
    MaxFaults = 3
SYMMETRY Symmetry
INVARIANTS NoTakeover
PROPERTIES ViewSpec OnlyHolderRemoves
