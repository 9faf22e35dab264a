\* Two workers on one rule, and on a second identifier that is created or duplicated.
SPECIFICATION MCSpec
CONSTANTS
    RuleIds = {r1, r2}
    r1 = r1
    r2 = r2
    approver = approver
    admin = admin
    good = good
    w1 = w1
    w2 = w2
    Null = Null
    Actors <- TwoActors
    Authors <- OnlyAdmin
    Approvers <- TwoActors
    Simulators <- OnlyAdmin
    Definitions <- OneDefinition
    ValidDefinitions <- OneDefinition
    MaxVersion = 2
    Workers <- TwoWorkers
PROPERTIES
    Serializable
    EveryRequestEnds
