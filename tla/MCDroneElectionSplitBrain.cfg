SPECIFICATION Spec
CONSTANTS
    Drones = {0, 1}
    Depth <- ScriptDepth
    Advertised <- ScriptAdvertised
    ElectionTimeout = 1
    HeartbeatTimeout = 2
    Handlers <- MCHandlers
    MaxStops = 0
INVARIANTS
    NoTwoLeadersWhoMet
