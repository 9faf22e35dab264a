\* One request at a time, which may name any version: is a version fixed once created?
SPECIFICATION Spec
CONSTANTS
    Workers = {w1}
    Policies = {p1, p2}
    Bootstrap = p1
    System = System
    approver = approver
    admin = admin
    even = even
    odd = odd
    Null = Null
    Actors <- MCActors
    Authors <- OnlyAdmin
    Approvers <- MCActors
    Operators <- OnlyApprover
    Weights <- TwoWeights
    Dates <- NoDate
    MaxVersion = 2
    MaxTime = 4
CONSTRAINT Bounded
PROPERTY DefinitionIsAppendOnly
CHECK_DEADLOCK FALSE
