SPECIFICATION RecoverySpec
CONSTANTS
    Targets = {t1}
    Nodes = {n1}
    Phases = {"search", "triage"}
    MaxRows = 6
    MaxCheckpoints = 2
    MaxVersion = 3
INVARIANTS
    RestoreRebuilds
    VersionRebuilt
