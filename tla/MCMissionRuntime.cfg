SPECIFICATION FairSpec
CONSTANTS
    n1 = n1
    n2 = n2
    Callers = {ui, timer}
    Scenarios = {collapsed_building, flood_rescue}
    PageScenario = collapsed_building
    Roster <- MCRoster
    HasCarrier <- MCHasCarrier
    Labels = {k1}
    StartPhases = {"return"}
    MaxCalls = 3
    MaxFast = 2
INVARIANTS
    SerialChainVerifies
    SerialTransitionsValid
    SealedWhenTerminal
    SealCoversLedger
    AckedCheckpointsSurvive
PROPERTIES
    LedgerSteps
    CallsReturn
