SPECIFICATION Safety
CONSTANTS
    NB_BUFFER = 3
    NULL = NULL
    Caller = {c1}
    MaxOverlaps = 1
    MaxCalls = 3
PROPERTY FirstLiveFrameIsKey
CHECK_DEADLOCK FALSE
