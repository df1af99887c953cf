SPECIFICATION Spec
CONSTANTS
    Replicas = {r1, r2}
    Cells = {c1, c2}
    Marks = {"seen", "target"}
    Times = {1, 2}
    MaxCells = 1
    MaxVersion = 2
    MaxSent = 2
INVARIANTS
    TypeOK
    ThreeExchangesConverge
    CleanMeansSent
PROPERTIES
    KnowledgeGrows
    VersionNamesContent
SYMMETRY Interchangeable
CHECK_DEADLOCK FALSE
