\* A rollback overlaps the requests on a newer version: are the weights in effect approved?
SPECIFICATION Spec
CONSTANTS
    Workers = {w1, w2}
    Policies = {p1}
    Bootstrap = p1
    System = System
    approver = approver
    admin = admin
    even = even
    odd = odd
    Null = Null
    Actors <- MCActors
    Authors <- OnlyAdmin
    Approvers <- MCActors
    Operators <- OnlyApprover
    Weights <- OneWeight
    Dates <- NoDate
    MaxVersion = 3
    MaxTime = 4
SYMMETRY WorkersAlike
CONSTRAINT ThreeVersions
INVARIANT EffectIsApproved
CHECK_DEADLOCK FALSE
