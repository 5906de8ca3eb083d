SPECIFICATION FairSpec
CONSTANTS
    NDevices = 1
    Samples <- OneThreshold
    PUEReadings <- AnyPUE
    Level1Duration = 2
    Level2Duration = 1
    CheckInterval = 1
    Webhook = TRUE
    RetryCount = 1
    OutCap = 1
    MaxTime = 3
    MaxRestarts = 1
    None = None
CHECK_DEADLOCK FALSE
INVARIANTS TypeOK NoFalseAlarm NoMissedAlarm SentWasAccepted RetriesBounded
PROPERTIES PromiseKept PassCompletes ShutdownCompletes
