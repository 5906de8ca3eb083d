SPECIFICATION Spec
CONSTANTS
    Devices <- OneDevice
    CoolingDevices <- OneDevice
    Powers <- NormalAndHigh
    ITPower = 4
    OtherPower = 1
    PUEThreshold = 180
    CalculationInterval = 1
    CheckInterval = 1
    Level2Duration = 1
    OutCap = 3
    MaxTime = 6
    None = None
CHECK_DEADLOCK FALSE
PROPERTIES PUEAlertIsCurrent
