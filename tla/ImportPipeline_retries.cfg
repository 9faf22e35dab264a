\* Two requests, one the retry or the rival of the other; the bank changes, calls are lost or late.
SPECIFICATION MCSpec
CONSTANTS
    Requests = {r1, r2}
    Keys = {k1}
    Bodies = {b1}
    TextLength <- MCTextLength
    None = None
    Volatile = {"customers", "transactions"}
    MaxVersion = 2
INVARIANTS
    TypeOK
    AcceptedIsOneFetch
PROPERTIES
    EveryImportEnds
    ImplementsImportPromise
CHECK_DEADLOCK FALSE
