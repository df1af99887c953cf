SPECIFICATION FairSpec
CONSTANTS
    Nodes = {n1, n2}
    Ticks = {k1, k2}
    MaxTasks = 1
    MaxBids = 2
INVARIANTS
    AssignmentsReplayed
    WinnerWasRanked
PROPERTIES
    CompletedStaysCompleted
    LostWinnerReplaced
