\* Three requests of two attempts each, at the default threshold and number of retries; a
\* recovery longer than a call, as the default settings have it (30 s against 4 s).
SPECIFICATION Spec
CONSTANTS
    Callers = {c1, c2, c3}
    FailureThreshold = 3
    Recovery = 7
    Timeout = 2
    MaxRetries = 1
INVARIANTS
    TypeOK
    SingleProbe
    OpenAtThreshold
PROPERTIES
    NeverLockedOut
