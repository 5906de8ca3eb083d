SPECIFICATION FairSpec
CONSTANTS
    Clients = {c1}
    Producers = {p1, p2}
    SendCap = 1
    MaxMessages = 3
INVARIANTS TypeOK NoPanic RegisteredMissesNothing
PROPERTIES BroadcastReturns DroppedClientEnds DeadConnectionLeaves ShutdownDrops
CHECK_DEADLOCK FALSE
