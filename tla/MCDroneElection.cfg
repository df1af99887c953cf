SPECIFICATION Spec
CONSTANTS
    Drones = {0, 1}
    Depth <- MCDepth
    Advertised <- MCDepth
    ElectionTimeout = 1
    HeartbeatTimeout = 2
    Handlers <- MCHandlers
    MaxStops = 1
INVARIANTS
    TypeOK
    LeaderIffElected
    ExplorerIffElected
PROPERTIES
    EveryoneGetsALeader
