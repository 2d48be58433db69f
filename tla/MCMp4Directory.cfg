SPECIFICATION Spec
CONSTANTS
    MaxFile = 3
    OnCard = 2
    Seconds = 2
    Rate = 2
    AudioRate = 1
    KeyFrames <- MCKeyFrames
    Clip <- MCClip
    Requester = {"phone", "portal", "gsensor"}
    Asks <- MCAsks
    Budgets <- MCBudgets
INVARIANTS
    DirInv
    UnfinishedClipStays
PROPERTIES
    ClipInOrder
    ReplayInOrder
    
CHECK_DEADLOCK FALSE
