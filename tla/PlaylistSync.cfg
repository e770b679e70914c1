\* One backend process, two playlists, one queued creation; one shared row and a list of it.
SPECIFICATION CachesSpec
CONSTANTS
    Kinds <- PlaylistKinds
    Targets = {p1, p2, n1}
    Playlists = {p1, p2}
    Existing = {p1}
    Nonces = {n1}
    Payloads = {a, b}
    NoPayload = NoPayload
    Ids = {i1, i2}
    NoId = NoId
    Handlers = {h1}
    Flushers = {f1}
    BatchSize = 2
    WorkTimeout = 1
    LockTimeout = 2
    Backoff = 2
    MaxRetries = 2
    MaxRequests = 2
    MaxFaults = 1
    Callers = {g1}
    Listings = {l1}
    NoCopy = NoCopy
    MaxEdits = 1
    MaxLikes = 1
    MaxLapses = 1
INVARIANTS RepeatsNeedFaults LastEditArrives OwnWritesShow
PROPERTIES DeletedStaysGone ColdCatchesUp
