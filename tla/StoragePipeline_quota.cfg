\* Two uploads of one chunk each, nothing fails.
SPECIFICATION Spec
CONSTANTS
    Uploads = {u1, u2}
    Limited = TRUE
    Limit = 1
    CounterMod = 4
    MaxChunks = 1
    MaxFaults = 0
    Files = {f1}
    Durations = {2}
    MinDuration = 1
    Epsilon = 2
    BatchSize = 1
    MaxTranscodes = 1
    MaxAttempts = 1
INVARIANT SourceLimit
CHECK_DEADLOCK FALSE
