SPECIFICATION Safety
CONSTANTS
    MaxFile = 2
    OnCard = 2
    Seconds = 2
    Rate = 2
    AudioRate = 1
    KeyFrames <- MCKeyFrames
    Clip <- MCInside
    Requester = {"phone", "gsensor"}
    Asks <- MCAsks
    Budgets <- MCTwoClips
PROPERTY CutOnlyWithoutFile
CHECK_DEADLOCK FALSE
