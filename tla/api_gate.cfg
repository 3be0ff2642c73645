CONSTANTS
    Thread = {t1, t2}
    Endpoint = {playback}
    MinInterval = 2
    RetryAfter = {2}
    Forced = {playback}
    Threshold = 2
    MaxTime = 5
    MaxCalls = 4
SPECIFICATION Spec
CHECK_DEADLOCK FALSE
INVARIANTS OfflineReported
