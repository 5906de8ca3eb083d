SPECIFICATION Spec
CONSTANTS
    NDevices = 1
    Cooling <- OneCooling
    Samples <- CalmOrHigh
    PowerLimit = 0
    DeviceDuration = 1
    PUEDuration = 2
    DataWindow = 2
    CalcInterval = 2
    MaxTime = 4
    None = None
CHECK_DEADLOCK FALSE
INVARIANTS AlertIsUnbroken
PROPERTIES PromiseKept
