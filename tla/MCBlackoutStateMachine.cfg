SPECIFICATION Spec
CONSTANTS
    Drones = {1, 2, 3}
    Frontiers = {1, 2}
    MaxAge = 1
    MinPeersForming = 3
    MinLiveRecovering = 2
    SoloNoPeer = 2
INVARIANTS
    TypeOK
    ExplorerBeforeExploring
    SoloOnlyWhenIsolated
    OneExplorer
