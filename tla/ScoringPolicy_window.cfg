\* One request at a time, with dates of the clients: do windows have a positive length?
SPECIFICATION Spec
CONSTANTS
    Workers = {w1}
    Policies = {p1, p2}
    Bootstrap = p1
    System = System
    approver = approver
    admin = admin
    even = even
    odd = odd
    Null = Null
    Actors <- MCActors
    Authors <- OnlyAdmin
    Approvers <- MCActors
    Operators <- OnlyApprover
    Weights <- OneWeight
    Dates <- SomeDates
    MaxVersion = 2
    MaxTime = 4
CONSTRAINT NoStray
INVARIANT WindowsAreOrdered
CHECK_DEADLOCK FALSE
