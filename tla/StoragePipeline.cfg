\* Two uploads of one file, a quota of one chunk.
SPECIFICATION FairSpec
CONSTANTS
    Uploads = {u1, u2}
    Limited = TRUE
    Limit = 1
    CounterMod = 4
    MaxChunks = 2
    MaxFaults = 2
    Files = {f1}
    Durations = {0, 1, 2, 5}
    MinDuration = 1
    Epsilon = 2
    BatchSize = 2
    MaxTranscodes = 1
    MaxAttempts = 2
INVARIANTS QuotaKept NothingLeft
PROPERTIES KeepsLonger UploadsSettle
CHECK_DEADLOCK FALSE
