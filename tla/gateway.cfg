SPECIFICATION EitherSpec
CONSTANTS
    NDevices = 2
    Layout = "repeated"
    Answers <- AnyAnswer
    Lengths <- SomeLengths
    Segmented = FALSE
    RetryCount = 1
    CollectInterval = 2
    CleanupInterval = 1
    MaxConnAge = 2
    IdleTimeout = 1
    OutCap = 1
    MaxTime = 4
    None = None
CHECK_DEADLOCK FALSE
INVARIANTS TypeOK ReadingIsAnswer OneSocket PanicNeedsCutAnswer
PROPERTIES RoundReachesAll ShutdownCloses
