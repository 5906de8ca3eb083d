SPECIFICATION FairSpec
CONSTANTS
    Devices <- ThreeDevices
    CoolingDevices <- TwoCooling
    Powers <- TwoPowers
    ITPower = 4
    OtherPower = 1
    PUEThreshold = 180
    CalculationInterval = 1
    CheckInterval = 1
    Level2Duration = 1
    OutCap = 1
    MaxTime = 2
    None = None
CHECK_DEADLOCK FALSE
INVARIANTS TypeOK SumOfOneMoment
PROPERTIES ShutdownCompletes
