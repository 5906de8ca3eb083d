SPECIFICATION GatewayFairSpec
CONSTANTS
    NDevices = 2
    OutCap = 2
    MaxRound = 2
    None = None
INVARIANTS TypeOK
PROPERTIES CachesNeverRegress PollingGoesOn
