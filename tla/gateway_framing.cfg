SPECIFICATION Spec
CONSTANTS
    NDevices = 2
    Layout = "standard"
    Answers <- DataOnly
    Lengths = {}
    Segmented = FALSE
    RetryCount = 1
    CollectInterval = 2
    CleanupInterval = 1
    MaxConnAge = 4
    IdleTimeout = 2
    OutCap = 1
    MaxTime = 4
    None = None
CHECK_DEADLOCK FALSE
PROPERTIES AnswerIsAccepted
