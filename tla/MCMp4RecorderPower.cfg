SPECIFICATION Spec
CONSTANTS
    Caller = {c1}
    Fps = 2
    FileSeconds = 1
    CutSeconds = 1
    QUEUE_SIZE = 2
    MaxFile = 2
    MaxAccepted = 0
    MaxPower = 2
    MaxCalls = 1
INVARIANTS
    OneOpenFile
PROPERTIES
    ClosedFileFinishes
    FileEnds
    PowerOffStopsRecording
CHECK_DEADLOCK FALSE
