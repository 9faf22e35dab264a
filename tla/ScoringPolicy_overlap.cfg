\* Careful clients, two requests at a time: does the history go on loading?
SPECIFICATION Spec
CONSTANTS
    Workers = {w1, w2}
    Policies = {p1, p2}
    Bootstrap = p1
    System = System
    approver = approver
    admin = admin
    even = even
    odd = odd
    Null = Null
    Actors <- MCActors
    Authors <- OnlyAdmin
    Approvers <- MCActors
    Operators <- OnlyApprover
    Weights <- OneWeight
    Dates <- NoDate
    MaxVersion = 2
    MaxTime = 4
SYMMETRY WorkersAlike
CONSTRAINT NoStray
INVARIANT HistoryLoads
CHECK_DEADLOCK FALSE
