SPECIFICATION Safety
CONSTANTS
    Caller = {c1}
    Fps = 2
    FileSeconds = 1
    CutSeconds = 1
    QUEUE_SIZE = 2
    MaxFile = 2
    MaxAccepted = 1
    MaxPower = 1
    MaxCalls = 0
INVARIANTS
    SavingSurvivesPowerOff
CHECK_DEADLOCK FALSE
