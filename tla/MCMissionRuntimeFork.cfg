SPECIFICATION Spec
CONSTANTS
    n1 = n1
    n2 = n2
    Callers = {ui, timer}
    Scenarios = {collapsed_building}
    PageScenario = collapsed_building
    Roster <- MCRoster
    HasCarrier <- MCHasCarrier
    Labels = {k1, k2}
    StartPhases = {"discovery"}
    MaxCalls = 3
    MaxFast = 2
INVARIANTS
    RuntimeChainVerifies
