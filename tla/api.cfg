SPECIFICATION FairSpec
CONSTANTS
    c1 = c1
    c2 = c2
    Clients = {c1, c2}
    Workloads <- EveryWorkload
    NotANumber = NotANumber
    NDevices = 2
    DeviceType <- Types
    PoolSize = 1
    Newest = 1
    MaxAlerts = 1
    MaxRows = 2
    MaxTime = 2
CHECK_DEADLOCK FALSE
INVARIANTS TypeOK AcknowledgedForGood ListedCanBeAcknowledged AnswersAreFresh
PROPERTIES EveryRequestAnswered ProcessExits
