SPECIFICATION MachineSpec
CONSTANTS
    Targets = {t1, t2}
    Expected = 1
    SafetyCritical = TRUE
    MaxTransitions = 8
    MaxRejected = 1
    MaxTotal = 2
INVARIANTS
    MachineTypeOK
    TransitionsChain
    CompleteLeavesNobody
SYMMETRY Interchangeable
