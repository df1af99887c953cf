SPECIFICATION Spec
CONSTANTS
    Bids = {b1, b2}
    Scores = {1, 2}
    Callers = {c1, c2}
    MaxRounds = 2
    MaxCommits = 3
INVARIANTS
    TypeOK
    OneWinnerUnlessRaced
    CancelledHasNoWinner
SYMMETRY Interchangeable
CHECK_DEADLOCK FALSE
