\* Two workers serve every request on a policy of two versions, another one is created and revised.
SPECIFICATION Spec
CONSTANTS
    Workers = {w1, w2}
    Policies = {p1, p2}
    Bootstrap = p1
    System = System
    approver = approver
    admin = admin
    even = even
    odd = odd
    Null = Null
    Actors <- MCActors
    Authors <- OnlyAdmin
    Approvers <- MCActors
    Operators <- OnlyApprover
    Weights <- OneWeight
    Dates <- SomeDates
    MaxVersion = 3
    MaxTime = 4
SYMMETRY WorkersAlike
CONSTRAINT Bounded
INVARIANTS
    TypeOK
    InEffectIsApproved
    NumbersAreDense
PROPERTIES
    UndisturbedKeepsSound
CHECK_DEADLOCK FALSE
