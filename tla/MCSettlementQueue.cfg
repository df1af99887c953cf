SPECIFICATION FairSpec
CONSTANTS
    Missions = {m1, m2}
    Flushers = {f1}
    MaxRows = 4
INVARIANTS
    TypeOK
    OnePendingPerMission
    FlushSeesAllDone
PROPERTIES
    SerialSpec
    EveryRowFinishes
