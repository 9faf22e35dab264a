\* A pipeline that runs alone evaluates its signals on the metrics of the first day.
SPECIFICATION MCSpec
CONSTANTS
    Span = 1
    Floor = 1
    Threshold = 15
    Strong = 50
    MinimumSample = 1
    Confirming = TRUE
    Covered = {1, 2}
    None = None
    Served <- MCServed
    Runs = {r1}
    PageSize = 1
    LastDay = 2
    Amounts = {1, 2}
    MaxTransactions = 3
    MaxStarts = 3

CONSTRAINT SmallWhenEarly
INVARIANT SignalsOfTheDay
CHECK_DEADLOCK FALSE
