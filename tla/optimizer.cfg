SPECIFICATION EitherSpec
CONSTANTS
    Areas <- AllAreas
    Chillers <- TwoChillers
    Terminals <- FourTerminals
    AreaOf <- Layout
    SetpointTemp <- Setpoints
    RatedCapacity <- Capacities
    Readings <- AnyReading
    SafetyMargin = 110
    Utilization = 90
    OvercoolDelta = 2
    UndercoolDelta = 2
    OutCap = 1
CHECK_DEADLOCK FALSE
INVARIANTS TypeOK WithinCapacity HottestFirst NoAdviceWithoutReading
PROPERTIES ShutdownCompletes
