SPECIFICATION Safety
CONSTANTS
    MaxFile = 2
    OnCard = 2
    Seconds = 2
    Rate = 2
    AudioRate = 1
    KeyFrames <- MCKeyFrames
    Clip <- MCOneClip
    Requester = {"phone", "gsensor"}
    Asks <- MCAsks
    Budgets <- MCClipAndSeek
INVARIANT ListDataValid
CHECK_DEADLOCK FALSE
