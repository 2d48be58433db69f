SPECIFICATION Spec
CONSTANTS
    NB_BUFFER = 2
    NULL = NULL
    Caller = {c1, c2}
    MaxOverlaps = 1
    MaxCalls = 2
INVARIANTS
    MediaInv
    QueuedFramesIntact
    OverwriteOnlyWhenFull
PROPERTIES
    KeyFrameHasParameters
    ReplayAdvances
    StoppedStreamDries
CHECK_DEADLOCK FALSE
