SPECIFICATION Spec
CONSTANTS
    NDevices = 2
    Samples <- OneThreshold
    PUEReadings <- NormalPUE
    Level1Duration = 1
    Level2Duration = 1
    CheckInterval = 1
    Webhook = FALSE
    RetryCount = 0
    OutCap = 1
    MaxTime = 4
    MaxRestarts = 0
    None = None
CHECK_DEADLOCK FALSE
PROPERTIES BroadcastNamesDevice
