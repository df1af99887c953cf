SPECIFICATION Spec
CONSTANTS
    Drones = {0, 1}
    Depth <- MCDepth
    Advertised <- MCDepth
    ElectionTimeout = 1
    HeartbeatTimeout = 2
    Handlers <- NoHandlers
    MaxStops = 1
PROPERTIES
    StoppedLeaderReplaced
