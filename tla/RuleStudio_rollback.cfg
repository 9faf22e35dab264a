\* One rule, brought to production twice and rolled back.
SPECIFICATION Spec
CONSTANTS
    RuleIds = {r1}
    r1 = r1
    r2 = r2
    analyst = analyst
    approver = approver
    admin = admin
    good = good
    bad = bad
    Null = Null
    Actors <- ThreeActors
    Authors <- MCAuthors
    Approvers <- MCApprovers
    Simulators <- MCAuthors
    Definitions <- MCDefinitions
    ValidDefinitions <- MCValid
    MaxVersion = 3
PROPERTY RollbackRestores
CHECK_DEADLOCK FALSE
