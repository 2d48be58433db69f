SPECIFICATION Spec
CONSTANTS
    Client = {c1, c2, c3}
    MAX_CONN = 2
    MaxFd = 4
    MaxPosts = 4
    Scripts <- MCScripts
    AppClient = {c1, c2, c3}
    MAX_APP_CLIENT = 2
    OVER_TIME_SEC = 2
    MaxAppFd = 3
    Producer = {"cut", "photo"}
    AppScripts <- MCAppScripts
    MAX_BAG_NUM = 3
    PortalScripts <- MCPortalScripts
    PushScripts <- MCPushScripts
    c1 = c1
    c2 = c2
    c3 = c3
INVARIANTS
    ConnInv
    ServedUnlessRaced
    AppInv
    AnnouncedInOrder
    PortalInv
    DealtWithOnce
    AnswersInOrder
    UploadFindsItself
    PushInv
PROPERTIES
    OwnClose
    OnlyTeardownStrands
    ReplyIsOwn
    ResultIsOwn
    KeptAlive
CHECK_DEADLOCK FALSE
