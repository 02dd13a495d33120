SPECIFICATION Spec
CONSTANTS
    Tabs = {t1}
    Urls = {u1}
    Kept = {}
    Builds = {1, 2}
    Games = {1, 2}
    Jobs = {j1, j2}
    Bumps = FALSE
    MaxEntries = 1
    TrimEvery = 2
    MaxMoves = 4
CHECK_DEADLOCK FALSE
SYMMETRY Symmetry
INVARIANTS
    TypeOK
    NothingOutlivesAMove
    BeyondTheBudgetIsCounted
