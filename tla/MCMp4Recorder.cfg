SPECIFICATION Safety
CONSTANTS
    Caller = {c1}
    Fps = 2
    FileSeconds = 1
    CutSeconds = 1
    QUEUE_SIZE = 2
    MaxFile = 3
    MaxAccepted = 1
    MaxPower = 0
    MaxCalls = 1
INVARIANTS
    RecorderInv
    FrameInv
    RecorderOwnsFile
    OneOpenFile
    StartsWithKeyFrame
    FileIsBounded
PROPERTIES
    FramesInOrder
    ClosedFileStays
CHECK_DEADLOCK FALSE
