\* Two comments on one track.
SPECIFICATION PlaylistSpec
CONSTANTS
    Kinds <- CommentKinds
    Targets = {t1}
    Playlists = {}
    Existing = {}
    Nonces = {}
    Payloads = {a, b}
    NoPayload = NoPayload
    Ids = {i1, i2}
    NoId = NoId
    Handlers = {h1}
    Flushers = {f1}
    BatchSize = 2
    WorkTimeout = 1
    LockTimeout = 2
    Backoff = 2
    MaxRetries = 2
    MaxRequests = 2
    MaxFaults = 0
INVARIANTS CommentsArrive
