\* Two pipelines overlap, transactions are imported, the day changes, services fail and stop.
SPECIFICATION MCSpec
CONSTANTS
    Span = 1
    Floor = 1
    Threshold = 15
    Strong = 50
    MinimumSample = 1
    Confirming = TRUE
    Covered = {1, 2}
    None = None
    Served <- MCServed
    Runs = {r1, r2}
    PageSize = 1
    LastDay = 2
    Amounts = {1, 2}
    MaxTransactions = 3
    MaxStarts = 3
SYMMETRY Symmetry
CONSTRAINT SmallWhenEarly
INVARIANTS
    TypeOK
    NothingIsMissed
    PointInTime
    AloneItIsFresh
CHECK_DEADLOCK FALSE
