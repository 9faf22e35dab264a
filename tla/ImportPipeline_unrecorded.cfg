\* One request and no fault: what an import leaves in import_batches.
SPECIFICATION Spec
CONSTANTS
    Requests = {r1}
    Keys = {k1}
    Bodies = {b1}
    TextLength <- MCTextLength
    None = None
    Volatile = {"customers"}
    MaxVersion = 2
INVARIANTS
    AcceptedIsRecorded
CHECK_DEADLOCK FALSE
