SPECIFICATION Safety
CONSTANTS
    Caller = {c1}
    Fps = 2
    FileSeconds = 1
    CutSeconds = 1
    QUEUE_SIZE = 4
    MaxFile = 3
    MaxAccepted = 1
    MaxPower = 0
    MaxCalls = 0
INVARIANTS
    NoFrameLost
CHECK_DEADLOCK FALSE
