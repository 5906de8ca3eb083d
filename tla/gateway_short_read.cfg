SPECIFICATION Spec
CONSTANTS
    NDevices = 1
    Layout = "repeated"
    Answers <- DataOnly
    Lengths = {}
    Segmented = TRUE
    RetryCount = 1
    CollectInterval = 2
    CleanupInterval = 1
    MaxConnAge = 4
    IdleTimeout = 2
    OutCap = 1
    MaxTime = 4
    None = None
CHECK_DEADLOCK FALSE
INVARIANTS ReadingIsAnswer
